---------------------------- MODULE HostsProofs -----------------------------
(***************************************************************************)
(* The programs that drive documents, for every instance: the parser of    *)
(* the SDK, the official client, the preparation of inputs, a command line *)
(* run and a run against a remote server.  Each has its inductive          *)
(* invariant and is independent of the others.  With the hybrid document   *)
(* and the tasks facade of OutputsProofs, every run is honest.             *)
(***************************************************************************)
EXTENDS MCHosts, OutputsProofs

(* The parser of the SDK, for any number of callers, batches of any length, *)
(* any caps and any number of persistent workers.  A call is judged by      *)
(* itself (CallOk), a reader by itself (ReaderOk): what relates them is     *)
(* Stopped, that a reader nobody waits for has its flag set, and what       *)
(* relates the callers is the one slot they share (SlotOk).                 *)
SdkSpec == SdkInit /\ [][SdkNext]_sdkVars

\* How a read or a call may end.
SdkVerdicts == {"none", "ok", "limit", "deadline", "canceled", "unreadable", "empty", "malformed",
             "format", "options", "unsupported", "unavailable", "worker", "invalid"}

Calls == [kind : {"batch", "parse", "shutdown"} \cup Operations, mode : {"fresh", "persistent"},
          native : BOOLEAN, items : Seq(SdkItems),
          pc : {"next", "read", "run", "await", "files", "taken", "closing", "done", "gone"},
          at : Nat, worker : Nat, cap : Nat, aggregate : Nat, results : Seq(SdkVerdicts),
          files : Seq(Nat), total : Nat]

ReaderStates == [pc : {"none", "queued", "reading", "analysing", "end"}, flag : BOOLEAN, late : BOOLEAN,
                 limit : Nat, left : Nat, got : Nat, whole : BOOLEAN, end : SdkVerdicts]

Active(r) == r.pc \in {"queued", "reading", "analysing"}

\* The calls with one reader per item.
Types ==
  /\ sdk \in [Callers -> Calls]
  /\ DOMAIN reader = UNION {{<<c, i>> : i \in DOMAIN sdk[c].items} : c \in Callers}
  /\ \A k \in DOMAIN reader : reader[k] \in ReaderStates
  /\ reader = [k \in DOMAIN reader |-> reader[k]]

\* The worker in the slot is not closed.
SlotOk ==
  /\ started \in Nat /\ shared \in 0 .. started
  /\ open \subseteq 1 .. started /\ (shared # 0 => shared \in open) /\ ownerTasks \subseteq 1 .. started

\* Another worker that is not closed has been taken by one shutdown, which will close it.
TakenOk ==
  /\ \A c \in Callers : sdk[c].pc = "taken" => sdk[c].worker \in open \ {shared}
  /\ \A c, d \in Callers : sdk[c].pc = "taken" /\ sdk[d].pc = "taken" /\ sdk[c].worker = sdk[d].worker => c = d
  /\ \A w \in open \ {shared} : \E c \in Callers : sdk[c].pc = "taken" /\ sdk[c].worker = w

\* What a call has kept fits: while a document is on its way, what it may add is
\* set aside; an operation or a single parse has kept nothing before it answers.
CallOk(x, last, tasks) ==
  /\ Len(x.results) = x.at - 1
  /\ x.total <= RetainedCap /\ x.aggregate <= RetainedCap + Growth
  /\ x.worker <= last
  /\ x.pc \in {"read", "run"} => x.kind \in {"batch", "parse"}
  /\ x.pc = "read" => x.at <= Len(x.items)
  /\ x.pc \in {"read", "run", "await"} /\ x.kind \in {"batch", "parse"} =>
       x.aggregate + x.cap <= RetainedCap
  /\ x.pc \in {"await", "files"} /\ x.kind \in Operations => x.at = 1
  /\ x.pc = "files" => x.kind \in Operations
  /\ x.pc \in {"taken", "closing"} => x.kind = "shutdown"
  /\ x.kind # "batch" /\ x.at = 1 => x.aggregate = 0
  /\ x.kind = "parse" => Len(x.items) = 1
  /\ x.kind = "shutdown" /\ x.pc = "done" => x.worker \notin tasks

\* A reader has read no more than it may, and ends well only with the whole document.
ReaderOk(r) ==
  /\ r.pc = "queued" => r.got = 0
  /\ r.pc \in {"reading", "analysing"} => r.got <= r.limit
  /\ r.pc = "analysing" => r.whole
  /\ r.pc # "end" => r.end = "none"
  /\ r.got <= r.limit + 1
  /\ r.end = "ok" => r.whole /\ r.got <= r.limit

CallsOk == \A c \in Callers : CallOk(sdk[c], started, ownerTasks)
ReadersOk == \A k \in DOMAIN reader : ReaderOk(reader[k])

\* Nobody waits for this reader.
Left(k) == ~(sdk[k[1]].pc = "read" /\ sdk[k[1]].at = k[2])
Stopped == \A k \in DOMAIN reader : Active(reader[k]) /\ Left(k) => reader[k].flag

IInv == Types /\ SlotOk /\ TakenOk /\ CallsOk /\ ReadersOk /\ Stopped

----------------------------------------------------------------------------
(* What a step may change                                                  *)

\* Workers are only ever added after the last one.
TasksGrow ==
  /\ started' \in Nat /\ started' >= started
  /\ \A w \in ownerTasks' : w \in ownerTasks \/ w > started

\* Outside the slot no worker is opened or closed.
SlotGrows == TasksGrow /\ open' \ {shared'} = open \ {shared}

LEMMA CallStays ==
  ASSUME NEW x \in Calls, NEW last \in Nat, NEW tasks, CallOk(x, last, tasks),
         NEW last2 \in Nat, last2 >= last, NEW tasks2,
         \A w \in tasks2 : w \in tasks \/ w > last
  PROVE  CallOk(x, last2, tasks2)
<1>1. x.worker \in Nat /\ x.worker <= last
  BY DEF CallOk, Calls
<1>2. x.worker <= last2 /\ (x.worker \notin tasks => x.worker \notin tasks2)
  BY <1>1
<1> QED BY <1>2 DEF CallOk

\* One call moves on; the readers are given.
LEMMA OneCall ==
  ASSUME IInv, NEW c \in Callers, NEW x \in Calls, x.items = sdk[c].items,
         sdk' = [sdk EXCEPT ![c] = x], SlotOk', TasksGrow, TakenOk', CallOk(x, started', ownerTasks'),
         DOMAIN reader' = DOMAIN reader, reader' = [k \in DOMAIN reader' |-> reader'[k]],
         \A k \in DOMAIN reader : reader'[k] \in ReaderStates /\ ReaderOk(reader'[k]),
         \A k \in DOMAIN reader : Active(reader'[k]) /\ Left(k)' => reader'[k].flag
  PROVE  IInv'
<1>1. /\ sdk \in [Callers -> Calls] /\ sdk' \in [Callers -> Calls] /\ sdk'[c] = x
      /\ \A d \in Callers : d # c => sdk'[d] = sdk[d]
  BY DEF IInv, Types
<1>2. \A d \in Callers : sdk'[d].items = sdk[d].items
  BY <1>1
<1>3. Types'
  <2>1. DOMAIN reader = UNION {{<<d, i>> : i \in DOMAIN sdk[d].items} : d \in Callers}
    BY DEF IInv, Types
  <2>2. DOMAIN reader' = UNION {{<<d, i>> : i \in DOMAIN sdk'[d].items} : d \in Callers}
    BY <1>2, <2>1
  <2> QED BY <1>1, <2>2 DEF Types
<1>4. CallsOk'
  <2> SUFFICES ASSUME NEW d \in Callers PROVE CallOk(sdk'[d], started', ownerTasks')
    BY DEF CallsOk
  <2>1. CASE d = c
    BY <1>1, <2>1
  <2>2. CASE d # c
    <3>1. sdk[d] \in Calls /\ CallOk(sdk[d], started, ownerTasks) /\ started \in Nat
      BY <1>1 DEF IInv, CallsOk, SlotOk
    <3>2. CallOk(sdk[d], started', ownerTasks')
      BY <3>1, CallStays DEF TasksGrow
    <3> QED BY <1>1, <2>2, <3>2
  <2> QED BY <2>1, <2>2
<1>5. ReadersOk' /\ Stopped'
  BY DEF ReadersOk, Stopped
<1> QED BY <1>3, <1>4, <1>5 DEF IInv

\* A call that has taken no worker moves on and takes none.
LEMMA TakenStays ==
  ASSUME IInv, NEW c \in Callers, NEW x, sdk' = [sdk EXCEPT ![c] = x], SlotGrows,
         sdk[c].pc # "taken", x.pc # "taken"
  PROVE  TakenOk' /\ TasksGrow
<1>1. sdk'[c] = x /\ \A d \in Callers : d # c => sdk'[d] = sdk[d]
  BY DEF IInv, Types
<1>2. \A d \in Callers : /\ (sdk'[d].pc = "taken" <=> sdk[d].pc = "taken")
                         /\ (sdk[d].pc = "taken" => sdk'[d].worker = sdk[d].worker)
  BY <1>1
<1>3. open' \ {shared'} = open \ {shared} /\ TakenOk
  BY DEF SlotGrows, IInv
<1>4. TakenOk'
  BY <1>2, <1>3 DEF TakenOk
<1> QED BY <1>4 DEF SlotGrows

\* The key of a call's item, and the reader there.
LEMMA KeyFacts ==
  ASSUME IInv, NEW c \in Callers
  PROVE  /\ sdk[c] \in Calls /\ CallOk(sdk[c], started, ownerTasks)
         /\ sdk[c].at \in Nat /\ sdk[c].at >= 1
         /\ sdk[c].at <= Len(sdk[c].items) =>
              /\ <<c, sdk[c].at>> \in DOMAIN reader /\ Item(c) \in SdkItems
              /\ reader[<<c, sdk[c].at>>] \in ReaderStates /\ ReaderOk(reader[<<c, sdk[c].at>>])
<1>1. sdk[c] \in Calls /\ CallOk(sdk[c], started, ownerTasks)
  BY DEF IInv, Types, CallsOk
<1>2. /\ sdk[c].at \in Nat /\ sdk[c].items \in Seq(SdkItems)
      /\ Len(sdk[c].results) = sdk[c].at - 1 /\ Len(sdk[c].results) \in Nat
  BY <1>1 DEF Calls, CallOk
<1>3. ASSUME sdk[c].at <= Len(sdk[c].items)
      PROVE  sdk[c].at \in DOMAIN sdk[c].items /\ Item(c) \in SdkItems
  BY <1>2, <1>3 DEF Item
<1>4. \A i \in DOMAIN sdk[c].items : <<c, i>> \in DOMAIN reader
  BY DEF IInv, Types
<1>5. \A k \in DOMAIN reader : reader[k] \in ReaderStates /\ ReaderOk(reader[k])
  BY DEF IInv, Types, ReadersOk
<1> QED BY <1>1, <1>2, <1>3, <1>4, <1>5

\* One call moves on and leaves the readers alone: it was not reading, or its
\* reader has ended, or it goes on reading.
LEMMA CallOnly ==
  ASSUME IInv, NEW c \in Callers, NEW x \in Calls, x.items = sdk[c].items,
         sdk' = [sdk EXCEPT ![c] = x], SlotOk', TasksGrow, TakenOk', CallOk(x, started', ownerTasks'),
         reader' = reader, sdk[c].pc = "read" => ~Active(reader[<<c, sdk[c].at>>])
  PROVE  IInv'
<1>1. \A k \in DOMAIN reader : reader[k] \in ReaderStates /\ ReaderOk(reader[k])
  BY DEF IInv, Types, ReadersOk
<1>2. ASSUME NEW k \in DOMAIN reader, Active(reader[k]), Left(k)' PROVE reader[k].flag
  <2>1. PICK d \in Callers : k = <<d, k[2]>>
    BY DEF IInv, Types
  <2>2. CASE d = c
    <3>1. Left(k)
      BY <1>2, <2>1, <2>2 DEF Left
    <3> QED BY <1>2, <3>1 DEF IInv, Stopped
  <2>3. CASE d # c
    <3>1. sdk'[d] = sdk[d]
      BY <2>3 DEF IInv, Types
    <3>2. Left(k)
      BY <1>2, <2>1, <3>1 DEF Left
    <3> QED BY <1>2, <3>2 DEF IInv, Stopped
  <2> QED BY <2>2, <2>3
<1>3. reader = [k \in DOMAIN reader |-> reader[k]]
  BY DEF IInv, Types
<1> QED BY <1>1, <1>2, <1>3, OneCall

\* One call moves on with the reader of its item: if that goes on, the call waits
\* for it or it has been told to stop.
LEMMA CallAndReader ==
  ASSUME IInv, NEW c \in Callers, NEW x \in Calls, x.items = sdk[c].items,
         sdk' = [sdk EXCEPT ![c] = x], SlotOk', TasksGrow, TakenOk', CallOk(x, started', ownerTasks'),
         sdk[c].at <= Len(sdk[c].items), NEW r \in ReaderStates, ReaderOk(r),
         reader' = [reader EXCEPT ![<<c, sdk[c].at>>] = r],
         Active(r) => r.flag \/ (x.pc = "read" /\ x.at = sdk[c].at)
  PROVE  IInv'
<1>1. \A k \in DOMAIN reader : reader[k] \in ReaderStates /\ ReaderOk(reader[k])
  BY DEF IInv, Types, ReadersOk
<1> DEFINE key == <<c, sdk[c].at>>
<1>2. key \in DOMAIN reader
  BY KeyFacts
<1>3. /\ DOMAIN reader' = DOMAIN reader /\ reader' = [k \in DOMAIN reader' |-> reader'[k]]
      /\ reader'[key] = r /\ \A k \in DOMAIN reader : k # key => reader'[k] = reader[k]
  BY <1>2
<1>4. sdk'[c] = x /\ \A d \in Callers : d # c => sdk'[d] = sdk[d]
  BY DEF IInv, Types
<1>5. ASSUME NEW k \in DOMAIN reader, Active(reader'[k]), Left(k)' PROVE reader'[k].flag
  <2>1. PICK d \in Callers : k = <<d, k[2]>>
    BY DEF IInv, Types
  <2>2. CASE k = key
    BY <1>3, <1>4, <1>5, <2>2 DEF Left
  <2>3. CASE k # key
    <3>1. Left(k)
      BY <1>4, <1>5, <2>1, <2>3 DEF Left
    <3> QED BY <1>3, <1>5, <2>3, <3>1 DEF IInv, Stopped
  <2> QED BY <2>2, <2>3
<1>6. \A k \in DOMAIN reader : reader'[k] \in ReaderStates /\ ReaderOk(reader'[k])
  BY <1>1, <1>3
<1> HIDE DEF key
<1> QED BY <1>3, <1>5, <1>6, OneCall

\* A reader moves on by itself: it does not start again and keeps its flag.
LEMMA ReaderOnly ==
  ASSUME IInv, NEW k \in DOMAIN reader, NEW r \in ReaderStates, ReaderOk(r),
         reader' = [reader EXCEPT ![k] = r], Active(r) => Active(reader[k]),
         reader[k].flag => r.flag, sdk' = sdk, UNCHANGED workerVars
  PROVE  IInv'
<1>1. /\ DOMAIN reader' = DOMAIN reader /\ reader' = [i \in DOMAIN reader' |-> reader'[i]]
      /\ reader'[k] = r /\ \A i \in DOMAIN reader : i # k => reader'[i] = reader[i]
  OBVIOUS
<1>2. \A i \in DOMAIN reader : reader'[i] \in ReaderStates /\ ReaderOk(reader'[i])
  BY <1>1 DEF IInv, Types, ReadersOk
<1>3. Types'
  BY <1>1, <1>2 DEF IInv, Types
<1>4. ReadersOk'
  BY <1>1, <1>2 DEF ReadersOk
<1>5. Stopped'
  <2> SUFFICES ASSUME NEW i \in DOMAIN reader, Active(reader'[i]), Left(i)' PROVE reader'[i].flag
    BY <1>1 DEF Stopped
  <2>1. Active(reader[i]) /\ Left(i)
    BY <1>1 DEF Left
  <2>2. reader[i].flag
    BY <2>1 DEF IInv, Stopped
  <2> QED BY <1>1, <2>2
<1>6. SlotOk' /\ TakenOk' /\ CallsOk'
  BY DEF IInv, SlotOk, TakenOk, CallsOk, workerVars
<1> QED BY <1>3, <1>4, <1>5, <1>6 DEF IInv

----------------------------------------------------------------------------
(* The slot, and what a call answers                                       *)

LEMMA SlotKept ==
  ASSUME IInv, UNCHANGED workerVars
  PROVE  SlotOk' /\ SlotGrows /\ started' = started /\ ownerTasks' = ownerTasks
BY DEF IInv, SlotOk, SlotGrows, TasksGrow, workerVars

\* persistent_worker keeps the slot sound, and its worker is among those started.
LEMMA SlotFilled ==
  ASSUME IInv, NEW w \in Nat, PersistentWorker(w)
  PROVE  SlotOk' /\ SlotGrows /\ w <= started'
<1>1. /\ started \in Nat /\ shared \in 0 .. started
      /\ open \subseteq 1 .. started /\ (shared # 0 => shared \in open) /\ ownerTasks \subseteq 1 .. started
  BY DEF IInv, SlotOk
<1>2. CASE shared # 0 /\ w = shared /\ UNCHANGED workerVars
  BY <1>1, <1>2, SlotKept
<1>3. CASE /\ shared = 0 /\ w = started + 1
           /\ shared' = w /\ started' = w /\ open' = open \cup {w} /\ ownerTasks' = ownerTasks \cup {w}
  <2>1. started' \in Nat /\ shared' \in 0 .. started' /\ started' >= started
    BY <1>1, <1>3
  <2>2. open' \subseteq 1 .. started' /\ shared' \in open'
    BY <1>1, <1>3
  <2>5. open' \ {shared'} = open \ {shared}
    <3>1. 0 \notin open /\ started + 1 \notin open
      BY <1>1
    <3> QED BY <1>3, <3>1
  <2>3. ownerTasks' \subseteq 1 .. started'
    BY <1>1, <1>3
  <2>4. \A v \in ownerTasks' : v \in ownerTasks \/ v > started
    BY <1>1, <1>3
  <2> QED BY <1>3, <2>1, <2>2, <2>3, <2>4, <2>5 DEF SlotOk, SlotGrows, TasksGrow
<1>4. CASE shared = 0 /\ w = 0 /\ UNCHANGED workerVars
  BY <1>1, <1>4, SlotKept
<1> QED BY <1>2, <1>3, <1>4 DEF PersistentWorker

\* An answer that fits leaves a sound call, with its item behind it.
LEMMA AnswerFits ==
  ASSUME IInv, NEW c \in Callers, NEW ending \in SdkVerdicts, NEW charge \in Nat,
         AnswerItem(c, ending, charge), SlotOk', SlotGrows, sdk[c].kind # "shutdown",
         ending = "ok" => sdk[c].aggregate + charge <= RetainedCap + Growth
  PROVE  \E x \in Calls : /\ sdk' = [sdk EXCEPT ![c] = x] /\ x.items = sdk[c].items
                          /\ CallOk(x, started', ownerTasks') /\ x.pc = "next"
<1> DEFINE y == sdk[c]
           kept == IF ending = "ok" THEN y.aggregate + charge ELSE y.aggregate
           x == [y EXCEPT !.results = Append(@, ending), !.pc = "next", !.at = @ + 1,
                          !.aggregate = kept]
<1>1. y \in Calls /\ CallOk(y, started, ownerTasks) /\ started \in Nat /\ started' \in Nat /\ started' >= started
  BY KeyFacts DEF SlotGrows, TasksGrow, IInv, SlotOk
<1>2. /\ y.at \in Nat /\ y.aggregate \in Nat /\ y.results \in Seq(SdkVerdicts) /\ Len(y.results) = y.at - 1
      /\ y.worker \in Nat /\ y.worker <= started
  BY <1>1 DEF Calls, CallOk
<1>3. sdk' = [sdk EXCEPT ![c] = x]
  BY <1>1 DEF AnswerItem, IInv, Types
<1>4. kept \in Nat /\ kept <= RetainedCap + Growth
  BY <1>1, <1>2 DEF CallOk
<1>5. Append(y.results, ending) \in Seq(SdkVerdicts) /\ Len(Append(y.results, ending)) = y.at
  BY <1>2
<1> HIDE DEF kept
<1> DEFINE given == Append(y.results, ending)
           next == y.at + 1
<1>6. x = [y EXCEPT !.results = given, !.pc = "next", !.at = next, !.aggregate = kept]
  BY <1>1 DEF Calls
<1>7. given \in Seq(SdkVerdicts) /\ next \in Nat
  BY <1>2, <1>5
<1> HIDE DEF x, given, next
<1>8. x \in Calls
  BY <1>1, <1>4, <1>6, <1>7 DEF Calls
<1>9. /\ x.items = y.items /\ x.results = given /\ x.at = next /\ x.total = y.total /\ x.aggregate = kept
      /\ x.worker = y.worker /\ x.pc = "next" /\ x.kind = y.kind
  BY <1>1, <1>6 DEF Calls
<1>10. /\ x \in Calls /\ x.items = y.items /\ x.results = Append(y.results, ending) /\ x.at = y.at + 1
      /\ x.total = y.total /\ x.aggregate = kept /\ x.worker = y.worker /\ x.pc = "next" /\ x.kind = y.kind
  BY <1>8, <1>9 DEF given, next
<1>11. x.at # 1 /\ Len(x.results) = x.at - 1
  BY <1>2, <1>5, <1>10
<1>12. x.worker <= started'
  BY <1>1, <1>2, <1>10
<1>13. CallOk(x, started', ownerTasks')
  BY <1>1, <1>4, <1>10, <1>11, <1>12 DEF CallOk
<1> QED BY <1>3, <1>10, <1>13

\* An answer without the readers: the call was not reading, or its reader has ended.
LEMMA Answers ==
  ASSUME IInv, NEW c \in Callers, NEW ending \in SdkVerdicts, NEW charge \in Nat,
         AnswerItem(c, ending, charge), SlotOk', SlotGrows, sdk[c].kind # "shutdown",
         ending = "ok" => sdk[c].aggregate + charge <= RetainedCap + Growth,
         reader' = reader, sdk[c].pc = "read" => ~Active(reader[<<c, sdk[c].at>>])
  PROVE  IInv'
<1>1. PICK x \in Calls : /\ sdk' = [sdk EXCEPT ![c] = x] /\ x.items = sdk[c].items
                         /\ CallOk(x, started', ownerTasks') /\ x.pc = "next"
  BY AnswerFits
<1>2. sdk[c].pc # "taken"
  BY KeyFacts DEF CallOk
<1>3. TakenOk' /\ TasksGrow
  BY <1>1, <1>2, TakenStays
<1> QED BY <1>1, <1>3, CallOnly

\* A call whose place and worker change, and nothing that it counts.
LEMMA CallMoves ==
  ASSUME IInv, NEW c \in Callers,
         NEW next \in {"next", "run", "await", "done", "gone", "taken", "closing"}, NEW w \in Nat,
         sdk' = [sdk EXCEPT ![c] = [sdk[c] EXCEPT !.pc = next, !.worker = w]],
         SlotOk', TasksGrow, TakenOk', w <= started',
         next = "run" => sdk[c].kind \in {"batch", "parse"},
         next \in {"taken", "closing"} => sdk[c].kind = "shutdown",
         next \in {"run", "await"} /\ sdk[c].kind \in {"batch", "parse"} =>
           sdk[c].aggregate + sdk[c].cap <= RetainedCap,
         next = "await" /\ sdk[c].kind \in Operations => sdk[c].at = 1,
         sdk[c].kind = "shutdown" /\ next = "done" => w \notin ownerTasks',
         reader' = reader, sdk[c].pc = "read" => ~Active(reader[<<c, sdk[c].at>>])
  PROVE  IInv'
<1> DEFINE y == sdk[c]
           x == [y EXCEPT !.pc = next, !.worker = w]
<1>1. y \in Calls /\ CallOk(y, started, ownerTasks)
  BY KeyFacts
<1>2. x \in Calls
  BY <1>1 DEF Calls
<1>3. /\ x.pc = next /\ x.worker = w /\ x.kind = y.kind /\ x.items = y.items /\ x.at = y.at /\ x.cap = y.cap
      /\ x.aggregate = y.aggregate /\ x.results = y.results /\ x.total = y.total
  BY <1>1 DEF Calls
<1>4. sdk' = [sdk EXCEPT ![c] = x]
  OBVIOUS
<1> HIDE DEF x
<1>5. CallOk(x, started', ownerTasks')
  BY <1>1, <1>3 DEF CallOk
<1> QED BY <1>2, <1>3, <1>4, <1>5, CallOnly

----------------------------------------------------------------------------
(* The documents of a batch or of one parse                                *)

\* An item is answered before it is read.
LEMMA Refused ==
  ASSUME IInv, NEW c \in Callers, NEW ending \in SdkVerdicts, NEW w \in Nat, sdk[c].pc = "next",
         sdk[c].kind \in {"batch", "parse"},
         sdk' = [sdk EXCEPT ![c].results = Append(@, ending), ![c].at = @ + 1, ![c].worker = w],
         SlotOk', SlotGrows, w <= started', reader' = reader
  PROVE  IInv'
<1> DEFINE y == sdk[c]
           given == Append(y.results, ending)
           next == y.at + 1
           x == [y EXCEPT !.results = given, !.at = next, !.worker = w]
<1>1. y \in Calls /\ CallOk(y, started, ownerTasks)
  BY KeyFacts
<1>2. y.at \in Nat /\ y.at >= 1 /\ y.results \in Seq(SdkVerdicts) /\ Len(y.results) = y.at - 1
  BY <1>1, KeyFacts DEF Calls, CallOk
<1>3. sdk' = [sdk EXCEPT ![c] = x]
  BY DEF IInv, Types
<1>4. given \in Seq(SdkVerdicts) /\ next \in Nat /\ Len(given) = next - 1 /\ next # 1
  <2>1. given \in Seq(SdkVerdicts) /\ Len(given) = Len(y.results) + 1
    BY <1>2
  <2>2. next \in Nat /\ next # 1 /\ next - 1 = y.at
    BY <1>2
  <2> QED BY ONLY <1>2, <2>1, <2>2
<1> HIDE DEF given, next
<1>5. x \in Calls
  BY <1>1, <1>4 DEF Calls
<1>6. /\ x.items = y.items /\ x.results = given /\ x.at = next /\ x.total = y.total
      /\ x.aggregate = y.aggregate /\ x.worker = w /\ x.pc = "next" /\ x.kind = y.kind
  BY <1>1 DEF Calls
<1> HIDE DEF x
<1>7. CallOk(x, started', ownerTasks')
  BY <1>1, <1>4, <1>6 DEF CallOk
<1>8. sdk[c].pc # "taken" /\ x.pc # "taken"
  BY <1>6
<1>9. TakenOk' /\ TasksGrow
  BY <1>3, <1>8, TakenStays
<1> QED BY <1>3, <1>5, <1>6, <1>7, <1>9, CallOnly

LEMMA RefusalNamed ==
  ASSUME NEW item
  PROVE  Refusal(item) \in SdkVerdicts
BY DEF Refusal, SdkVerdicts

\* A reader begins with nothing read.
LEMMA ReaderStarts ==
  ASSUME NEW limit \in Nat, NEW left \in Nat
  PROVE  LET r == [NoReader EXCEPT !.pc = "queued", !.limit = limit, !.left = left]
         IN  r \in ReaderStates /\ ReaderOk(r)
<1> DEFINE r == [NoReader EXCEPT !.pc = "queued", !.limit = limit, !.left = left]
<1>1. NoReader \in ReaderStates /\ NoReader.got = 0 /\ NoReader.end = "none"
  BY DEF NoReader, ReaderStates, SdkVerdicts
<1>2. r \in ReaderStates /\ r.pc = "queued" /\ r.got = 0 /\ r.end = "none" /\ r.limit = limit
  BY <1>1 DEF ReaderStates
<1> HIDE DEF r
<1>3. ReaderOk(r)
  BY <1>2 DEF ReaderOk
<1> QED BY <1>2, <1>3 DEF r

\* parse_one refuses the item or starts a reader whose limit is the caps' minimum.
LEMMA ParseOneKeeps ==
  ASSUME IInv, NEW c \in Callers, NEW w \in Nat, NEW room \in Nat, ParseOne(c, w, room),
         sdk[c].pc = "next", sdk[c].kind \in {"batch", "parse"}, sdk[c].at <= Len(sdk[c].items),
         sdk[c].aggregate + room <= RetainedCap, SlotOk', SlotGrows, w <= started'
  PROVE  IInv'
<1> DEFINE y == sdk[c]
           x == [y EXCEPT !.pc = "read", !.cap = room, !.worker = w]
           r == [NoReader EXCEPT !.pc = "queued", !.limit = ReadLimit(c, room), !.left = Item(c).bytes]
<1>1. y \in Calls /\ CallOk(y, started, ownerTasks) /\ Item(c) \in SdkItems
  BY KeyFacts
<1>2. CASE Refusal(Item(c)) # "none"
  <2>1. /\ sdk' = [sdk EXCEPT ![c].results = Append(@, Refusal(Item(c))), ![c].at = @ + 1, ![c].worker = w]
        /\ reader' = reader
    BY <1>2 DEF ParseOne
  <2>2. Refusal(Item(c)) \in SdkVerdicts
    BY RefusalNamed
  <2> QED BY <2>1, <2>2, Refused
<1>3. CASE Refusal(Item(c)) = "none"
  <2>1. /\ sdk' = [sdk EXCEPT ![c] = x]
        /\ reader' = [reader EXCEPT ![<<c, sdk[c].at>>] = r]
    BY <1>3 DEF ParseOne, Key, IInv, Types
  <2>2. ReadLimit(c, room) \in Nat
    BY SdkAssumption DEF ReadLimit
  <2>3. r \in ReaderStates /\ ReaderOk(r)
    <3>1. Item(c).bytes \in Nat
      BY <1>1 DEF SdkItems
    <3> QED BY <2>2, <3>1, ReaderStarts
  <2>4. x \in Calls
    BY <1>1 DEF Calls
  <2>5. /\ x.pc = "read" /\ x.worker = w /\ x.kind = y.kind /\ x.items = y.items /\ x.at = y.at /\ x.cap = room
        /\ x.aggregate = y.aggregate /\ x.results = y.results /\ x.total = y.total
    BY <1>1 DEF Calls
  <2> HIDE DEF x, r
  <2>6. CallOk(x, started', ownerTasks')
    BY <1>1, <2>5 DEF CallOk
  <2>7. TakenOk' /\ TasksGrow
    BY <2>1, <2>5, TakenStays
  <2> QED BY <2>1, <2>3, <2>4, <2>5, <2>6, <2>7, CallAndReader
<1> QED BY <1>2, <1>3

\* What is left of the cap is a number, and with what is kept no more than the cap.
LEMMA RemainingFits ==
  ASSUME IInv, NEW c \in Callers, RemainingCap(c) # 0
  PROVE  RemainingCap(c) \in Nat /\ sdk[c].aggregate + RemainingCap(c) <= RetainedCap
<1>1. sdk[c].aggregate \in Nat
  BY KeyFacts DEF Calls
<1> QED BY <1>1, SdkAssumption DEF RemainingCap

LEMMA NextItemKeeps ==
  ASSUME IInv, NEW c \in Callers, NextItem(c)
  PROVE  IInv'
<1>1. sdk[c].pc = "next" /\ sdk[c].kind = "batch" /\ sdk[c].at <= Len(sdk[c].items)
  BY DEF NextItem
<1>2. /\ sdk[c] \in Calls /\ CallOk(sdk[c], started, ownerTasks)
      /\ sdk[c].worker \in Nat /\ sdk[c].worker <= started /\ sdk[c].aggregate \in Nat
  BY KeyFacts DEF Calls, CallOk
<1>3. CASE /\ UNCHANGED workerVars
           /\ IF RemainingCap(c) = 0 THEN AnswerItem(c, "limit", 0) /\ UNCHANGED reader
              ELSE ParseOne(c, sdk[c].worker, RemainingCap(c))
  <2>1. SlotOk' /\ SlotGrows /\ started' = started
    BY <1>3, SlotKept
  <2>2. CASE RemainingCap(c) = 0
    <3>1. AnswerItem(c, "limit", 0) /\ reader' = reader /\ sdk[c].pc # "read" /\ sdk[c].kind # "shutdown"
      BY <1>1, <1>3, <2>2
    <3>2. "limit" \in SdkVerdicts /\ "limit" # "ok" /\ 0 \in Nat
      BY DEF SdkVerdicts
    <3> QED BY <2>1, <3>1, <3>2, Answers
  <2>3. CASE RemainingCap(c) # 0
    <3>1. RemainingCap(c) \in Nat /\ sdk[c].aggregate + RemainingCap(c) <= RetainedCap
      BY <2>3, RemainingFits
    <3>2. ParseOne(c, sdk[c].worker, RemainingCap(c)) /\ sdk[c].worker <= started'
      BY <1>2, <1>3, <2>1, <2>3
    <3> QED BY <1>1, <1>2, <2>1, <3>1, <3>2, ParseOneKeeps
  <2> QED BY <2>2, <2>3
<1>4. CASE \E w \in 0..MaxWorkers :
             /\ PersistentWorker(w)
             /\ IF RemainingCap(c) = 0 \/ w = 0
                THEN /\ sdk' = [sdk EXCEPT ![c].results = Append(@, IF RemainingCap(c) = 0 THEN "limit" ELSE "unavailable"),
                                           ![c].at = @ + 1, ![c].worker = w]
                     /\ UNCHANGED reader
                ELSE ParseOne(c, w, RemainingCap(c))
  <2>1. PICK w \in 0..MaxWorkers :
             /\ PersistentWorker(w)
             /\ IF RemainingCap(c) = 0 \/ w = 0
                THEN /\ sdk' = [sdk EXCEPT ![c].results = Append(@, IF RemainingCap(c) = 0 THEN "limit" ELSE "unavailable"),
                                           ![c].at = @ + 1, ![c].worker = w]
                     /\ UNCHANGED reader
                ELSE ParseOne(c, w, RemainingCap(c))
    BY <1>4
  <2>2. w \in Nat /\ SlotOk' /\ SlotGrows /\ w <= started'
    BY <2>1, SlotFilled, SdkAssumption
  <2>3. CASE RemainingCap(c) = 0 \/ w = 0
    <3> DEFINE ending == IF RemainingCap(c) = 0 THEN "limit" ELSE "unavailable"
    <3>1. /\ sdk' = [sdk EXCEPT ![c].results = Append(@, ending), ![c].at = @ + 1, ![c].worker = w]
          /\ reader' = reader /\ ending \in SdkVerdicts /\ sdk[c].kind \in {"batch", "parse"}
      BY <1>1, <2>1, <2>3 DEF SdkVerdicts
    <3> HIDE DEF ending
    <3> QED BY <1>1, <2>2, <3>1, Refused
  <2>4. CASE ~(RemainingCap(c) = 0 \/ w = 0)
    <3>1. RemainingCap(c) \in Nat /\ sdk[c].aggregate + RemainingCap(c) <= RetainedCap
      BY <2>4, RemainingFits
    <3>2. ParseOne(c, w, RemainingCap(c))
      BY <2>1, <2>4
    <3> QED BY <1>1, <2>2, <3>1, <3>2, ParseOneKeeps
  <2> QED BY <2>3, <2>4
<1> QED BY <1>3, <1>4 DEF NextItem

LEMMA ParseRichKeeps ==
  ASSUME IInv, NEW c \in Callers, ParseRich(c)
  PROVE  IInv'
<1>1. /\ sdk[c].pc = "next" /\ sdk[c].kind = "parse" /\ sdk[c].at <= Len(sdk[c].items)
      /\ ParseOne(c, 0, RetainedCap) /\ UNCHANGED workerVars
  BY DEF ParseRich
<1>2. CallOk(sdk[c], started, ownerTasks) /\ sdk[c].at \in Nat /\ sdk[c].at >= 1
  BY KeyFacts
<1>3. sdk[c].at = 1 /\ sdk[c].aggregate = 0
  <2>1. Len(sdk[c].items) = 1
    BY <1>1, <1>2 DEF CallOk
  <2>2. sdk[c].at = 1
    BY <1>1, <1>2, <2>1
  <2> QED BY <1>1, <1>2, <2>2 DEF CallOk
<1>4. SlotOk' /\ SlotGrows /\ started' \in Nat
  BY <1>1, SlotKept DEF SlotOk
<1> QED BY <1>1, <1>3, <1>4, ParseOneKeeps, SdkAssumption

----------------------------------------------------------------------------
(* From the read to the answer                                             *)

\* A call that goes on with the worker it has.
LEMMA CallGoes ==
  ASSUME IInv, NEW c \in Callers, NEW next \in {"next", "run", "await", "done", "gone", "closing"},
         sdk' = [sdk EXCEPT ![c].pc = next], UNCHANGED workerVars,
         sdk[c].pc # "taken",
         next = "run" => sdk[c].kind \in {"batch", "parse"},
         next = "closing" => sdk[c].kind = "shutdown",
         next \in {"run", "await"} /\ sdk[c].kind \in {"batch", "parse"} =>
           sdk[c].aggregate + sdk[c].cap <= RetainedCap,
         next = "await" /\ sdk[c].kind \in Operations => sdk[c].at = 1,
         sdk[c].kind = "shutdown" /\ next = "done" => sdk[c].worker \notin ownerTasks,
         reader' = reader, sdk[c].pc = "read" => ~Active(reader[<<c, sdk[c].at>>])
  PROVE  IInv'
<1>1. sdk[c] \in Calls /\ CallOk(sdk[c], started, ownerTasks) /\ sdk[c].worker \in Nat /\ sdk[c].worker <= started
  BY KeyFacts DEF CallOk, Calls
<1>2. SlotOk' /\ SlotGrows /\ started' = started /\ ownerTasks' = ownerTasks
  BY SlotKept
<1>3. [sdk[c] EXCEPT !.pc = next] = [sdk[c] EXCEPT !.pc = next, !.worker = sdk[c].worker]
  BY <1>1 DEF Calls
<1>4. sdk' = [sdk EXCEPT ![c] = [sdk[c] EXCEPT !.pc = next]]
  BY DEF IInv, Types
<1>5. sdk' = [sdk EXCEPT ![c] = [sdk[c] EXCEPT !.pc = next, !.worker = sdk[c].worker]]
  BY <1>3, <1>4
<1>6. sdk[c].worker <= started' /\ (sdk[c].kind = "shutdown" /\ next = "done" => sdk[c].worker \notin ownerTasks')
  BY <1>1, <1>2
<1>7. [sdk[c] EXCEPT !.pc = next].pc = next /\ next # "taken"
  BY <1>1 DEF Calls
<1>8. TakenOk' /\ TasksGrow
  BY <1>2, <1>4, <1>7, TakenStays
<1>9. /\ next \in {"next", "run", "await", "done", "gone", "taken", "closing"} /\ sdk[c].worker \in Nat
      /\ next \in {"taken", "closing"} => sdk[c].kind = "shutdown"
  BY <1>1
<1>10. SlotOk' /\ TasksGrow /\ TakenOk' /\ sdk[c].worker <= started'
  BY <1>2, <1>6, <1>8
<1>11. sdk[c].kind = "shutdown" /\ next = "done" => sdk[c].worker \notin ownerTasks'
  BY <1>6
<1> HIDE DEF CallOk
<1> QED BY <1>5, <1>9, <1>10, <1>11, CallMoves, ZenonT(120)

LEMMA SdkReturnsKeeps ==
  ASSUME IInv, NEW c \in Callers, SdkReturns(c)
  PROVE  IInv'
BY CallGoes DEF SdkReturns, Operations

\* ReadReturns either answers, or hands the document over to a worker.
LEMMA ReadReturnsKeeps ==
  ASSUME IInv, NEW c \in Callers, ReadReturns(c)
  PROVE  IInv'
<1> DEFINE end == reader[Key(c)].end
<1>1. sdk[c].pc = "read" /\ reader[Key(c)].pc = "end" /\ reader' = reader /\ UNCHANGED workerVars
  BY DEF ReadReturns
<1>2. /\ sdk[c].kind \in {"batch", "parse"} /\ sdk[c].at <= Len(sdk[c].items)
      /\ sdk[c].aggregate + sdk[c].cap <= RetainedCap
      /\ sdk[c].aggregate \in Nat /\ sdk[c].cap \in Nat
  BY <1>1, KeyFacts DEF CallOk, Calls
<1>3. reader[<<c, sdk[c].at>>] = reader[Key(c)] /\ ~Active(reader[<<c, sdk[c].at>>]) /\ end \in SdkVerdicts
  BY <1>1, <1>2, KeyFacts DEF Key, Active, ReaderStates
<1>4. SlotOk' /\ SlotGrows
  BY <1>1, SlotKept
<1>5. sdk[c].kind # "shutdown" /\ sdk[c].kind \notin Operations /\ "limit" \in SdkVerdicts /\ "ok" \in SdkVerdicts /\ "limit" # "ok"
  BY <1>2 DEF Operations, SdkVerdicts
<1>6. CASE end # "ok"
  <2>1. AnswerItem(c, end, 0)
    BY <1>1, <1>6 DEF ReadReturns
  <2> HIDE DEF end
  <2> QED BY <1>1, <1>3, <1>4, <1>5, <1>6, <2>1, Answers
<1>7. CASE end = "ok" /\ Item(c).suffix # "csv"
  <2>1. sdk' = [sdk EXCEPT ![c].pc = "run"]
    BY <1>1, <1>7 DEF ReadReturns
  <2> QED BY <1>1, <1>2, <1>3, <1>5, <2>1, CallGoes
<1>8. CASE end = "ok" /\ Item(c).suffix = "csv"
  <2>1. PICK charge \in 1..(RetainedCap + 1) :
           IF charge > sdk[c].cap THEN AnswerItem(c, "limit", 0) ELSE AnswerItem(c, "ok", charge)
    BY <1>1, <1>8 DEF ReadReturns
  <2>2. CASE charge > sdk[c].cap
    BY <1>1, <1>3, <1>4, <1>5, <2>1, <2>2, Answers
  <2>3. CASE ~(charge > sdk[c].cap)
    <3>1. charge \in Nat /\ sdk[c].aggregate + charge <= RetainedCap + Growth
      BY <1>2, <2>1, <2>3, SdkAssumption
    <3> QED BY <1>1, <1>3, <1>4, <1>5, <2>1, <2>3, <3>1, Answers
  <2> QED BY <2>2, <2>3
<1> QED BY <1>6, <1>7, <1>8

\* A reader that is left has been told, and one that had not begun has ended.
LEMMA LeftReader ==
  ASSUME NEW k \in DOMAIN reader, reader[k] \in ReaderStates, ReaderOk(reader[k])
  PROVE  LeaveReader(k) \in ReaderStates /\ ReaderOk(LeaveReader(k)) /\ LeaveReader(k).flag
<1> DEFINE r == reader[k]
           s == LeaveReader(k)
<1>1. s = [r EXCEPT !.flag = TRUE, !.pc = IF r.pc = "queued" THEN "end" ELSE r.pc,
                    !.end = IF r.pc = "queued" THEN "canceled" ELSE r.end]
  BY DEF LeaveReader, ReaderStates
<1>2. CASE r.pc = "queued"
  <2>1. s = [r EXCEPT !.flag = TRUE, !.pc = "end", !.end = "canceled"]
    BY <1>1, <1>2
  <2>2. s \in ReaderStates /\ s.flag /\ s.pc = "end" /\ s.end = "canceled" /\ s.got = r.got /\ s.limit = r.limit
    BY <2>1 DEF ReaderStates, SdkVerdicts
  <2> QED BY <2>2 DEF ReaderOk
<1>3. CASE r.pc # "queued"
  <2>1. s = [r EXCEPT !.flag = TRUE, !.pc = r.pc, !.end = r.end]
    BY <1>1, <1>3
  <2> HIDE DEF r, s
  <2>2. s = [r EXCEPT !.flag = TRUE]
    BY <2>1 DEF ReaderStates, r
  <2>3. /\ s \in ReaderStates /\ s.flag /\ s.pc = r.pc /\ s.end = r.end /\ s.got = r.got /\ s.limit = r.limit
        /\ s.whole = r.whole
    BY <2>2 DEF ReaderStates, r
  <2> QED BY <2>3 DEF ReaderOk, r, s
<1> QED BY <1>2, <1>3

LEMMA ReadTimesOutKeeps ==
  ASSUME IInv, NEW c \in Callers, ReadTimesOut(c)
  PROVE  IInv'
<1>1. /\ sdk[c].pc = "read" /\ reader' = [reader EXCEPT ![<<c, sdk[c].at>>] = LeaveReader(<<c, sdk[c].at>>)]
      /\ AnswerItem(c, "deadline", 0) /\ UNCHANGED workerVars
  BY DEF ReadTimesOut, Key
<1>2. sdk[c].kind # "shutdown" /\ sdk[c].at <= Len(sdk[c].items)
  BY <1>1, KeyFacts DEF CallOk
<1>3. /\ LeaveReader(<<c, sdk[c].at>>) \in ReaderStates /\ ReaderOk(LeaveReader(<<c, sdk[c].at>>))
      /\ LeaveReader(<<c, sdk[c].at>>).flag
  BY <1>2, KeyFacts, LeftReader
<1>4. SlotOk' /\ SlotGrows /\ "deadline" \in SdkVerdicts
  BY <1>1, SlotKept DEF SdkVerdicts
<1>5. PICK x \in Calls : /\ sdk' = [sdk EXCEPT ![c] = x] /\ x.items = sdk[c].items
                         /\ CallOk(x, started', ownerTasks') /\ x.pc = "next"
  BY <1>1, <1>2, <1>4, AnswerFits
<1>6. TakenOk' /\ TasksGrow
  BY <1>1, <1>4, <1>5, TakenStays
<1> QED BY <1>1, <1>2, <1>3, <1>4, <1>5, <1>6, CallAndReader

\* The worker runs the document; the call's share of the cap is still set aside.
LEMMA RunDocumentKeeps ==
  ASSUME IInv, NEW c \in Callers, RunDocument(c)
  PROVE  IInv'
<1>1. sdk[c].pc = "run" /\ reader' = reader
  BY DEF RunDocument
<1>2. /\ sdk[c].kind \in {"batch", "parse"} /\ sdk[c].kind # "shutdown" /\ sdk[c].kind \notin Operations
      /\ sdk[c].aggregate + sdk[c].cap <= RetainedCap
  BY <1>1, KeyFacts DEF CallOk, Operations
<1>3. CASE \E w \in 0..MaxWorkers :
             /\ PersistentWorker(w)
             /\ IF w = 0 THEN AnswerItem(c, "unavailable", 0)
                ELSE sdk' = [sdk EXCEPT ![c].pc = "await", ![c].worker = w]
  <2>1. PICK w \in 0..MaxWorkers :
             /\ PersistentWorker(w)
             /\ IF w = 0 THEN AnswerItem(c, "unavailable", 0)
                ELSE sdk' = [sdk EXCEPT ![c].pc = "await", ![c].worker = w]
    BY <1>3
  <2>2. w \in Nat /\ SlotOk' /\ SlotGrows /\ w <= started'
    BY <2>1, SlotFilled, SdkAssumption
  <2>3. CASE w = 0
    <3>1. "unavailable" \in SdkVerdicts /\ "unavailable" # "ok"
      BY DEF SdkVerdicts
    <3> QED BY <1>1, <1>2, <2>1, <2>2, <2>3, <3>1, Answers
  <2>4. CASE w # 0
    <3>1. sdk' = [sdk EXCEPT ![c] = [sdk[c] EXCEPT !.pc = "await", !.worker = w]]
      BY <2>1, <2>4 DEF IInv, Types
    <3>2. [sdk[c] EXCEPT !.pc = "await", !.worker = w].pc = "await"
      BY KeyFacts DEF Calls
    <3>3. TakenOk' /\ TasksGrow
      BY <1>1, <2>2, <3>1, <3>2, TakenStays
    <3> QED BY <1>1, <1>2, <2>2, <3>1, <3>3, CallMoves
  <2> QED BY <2>3, <2>4
<1>4. CASE sdk' = [sdk EXCEPT ![c].pc = "await"] /\ UNCHANGED workerVars
  BY <1>1, <1>2, <1>4, CallGoes
<1>5. CASE AnswerItem(c, "worker", 0) /\ UNCHANGED workerVars
  <2>1. SlotOk' /\ SlotGrows /\ "worker" \in SdkVerdicts /\ "worker" # "ok"
    BY <1>5, SlotKept DEF SdkVerdicts
  <2> QED BY <1>1, <1>2, <1>5, <2>1, Answers
<1> QED BY <1>3, <1>4, <1>5 DEF RunDocument

LEMMA RunFailsKeeps ==
  ASSUME IInv, NEW c \in Callers, RunFails(c)
  PROVE  IInv'
<1>1. /\ sdk[c].pc = "await" /\ sdk[c].kind # "shutdown"
      /\ AnswerItem(c, "worker", 0) /\ reader' = reader /\ UNCHANGED workerVars
  BY DEF RunFails
<1>2. SlotOk' /\ SlotGrows /\ "worker" \in SdkVerdicts
  BY <1>1, SlotKept DEF SdkVerdicts
<1> QED BY <1>1, <1>2, Answers

\* from_bundle keeps at most the share set aside and what JSON written again grew.
LEMMA FromBundleKeeps ==
  ASSUME IInv, NEW c \in Callers, FromBundle(c)
  PROVE  IInv'
<1>1. /\ sdk[c].pc = "await" /\ sdk[c].kind \in {"batch", "parse"} /\ sdk[c].kind # "shutdown"
      /\ reader' = reader /\ UNCHANGED workerVars
  BY DEF FromBundle
<1>2. /\ sdk[c].aggregate + sdk[c].cap <= RetainedCap /\ sdk[c].aggregate \in Nat /\ sdk[c].cap \in Nat
  BY <1>1, KeyFacts DEF CallOk, Calls
<1>3. SlotOk' /\ SlotGrows /\ "ok" \in SdkVerdicts /\ "limit" \in SdkVerdicts /\ "limit" # "ok"
  BY <1>1, SlotKept DEF SdkVerdicts
<1>4. PICK files \in 1..(RetainedCap + 1), more \in 0..Growth :
         IF WithinCap(files, sdk[c].cap) THEN AnswerItem(c, "ok", files + more) ELSE AnswerItem(c, "limit", 0)
  BY DEF FromBundle
<1>5. CASE files <= sdk[c].cap
  <2>1. files + more \in Nat /\ sdk[c].aggregate + (files + more) <= RetainedCap + Growth
    <3>1. Growth \in Nat /\ RetainedCap \in Nat
      BY SdkAssumption
    <3>2. files \in Nat /\ more \in Nat /\ more <= Growth
      BY <1>4, <3>1
    <3> QED BY <1>2, <1>5, <3>1, <3>2
  <2>2. AnswerItem(c, "ok", files + more)
    BY <1>4, <1>5 DEF WithinCap
  <2> DEFINE charge == files + more
  <2>3. charge \in Nat /\ sdk[c].aggregate + charge <= RetainedCap + Growth /\ AnswerItem(c, "ok", charge)
    BY <2>1, <2>2
  <2> HIDE DEF charge
  <2> QED BY <1>1, <1>3, <2>3, Answers
<1>6. CASE ~(files <= sdk[c].cap)
  <2>1. AnswerItem(c, "limit", 0)
    BY <1>4, <1>6 DEF WithinCap
  <2> QED BY <1>1, <1>3, <2>1, Answers
<1> QED BY <1>5, <1>6

\* A caller that goes leaves its reader with the flag set.
LEMMA SdkDroppedKeeps ==
  ASSUME IInv, NEW c \in Callers, SdkDropped(c)
  PROVE  IInv'
<1>1. /\ sdk' = [sdk EXCEPT ![c].pc = "gone"] /\ UNCHANGED workerVars
      /\ sdk[c].pc # "taken"
  BY DEF SdkDropped
<1>2. CASE sdk[c].pc = "read"
  <2> DEFINE key == <<c, sdk[c].at>>
             x == [sdk[c] EXCEPT !.pc = "gone"]
  <2>1. /\ sdk[c] \in Calls /\ CallOk(sdk[c], started, ownerTasks) /\ sdk[c].at <= Len(sdk[c].items)
    BY <1>2, KeyFacts DEF CallOk
  <2>2. LeaveReader(key) \in ReaderStates /\ ReaderOk(LeaveReader(key)) /\ LeaveReader(key).flag
    BY <2>1, KeyFacts, LeftReader
  <2>3. reader' = [reader EXCEPT ![key] = LeaveReader(key)]
    BY <1>2 DEF SdkDropped, Key
  <2>4. sdk' = [sdk EXCEPT ![c] = x] /\ x \in Calls
    BY <1>1, <2>1 DEF Calls, IInv, Types
  <2>5. /\ x.pc = "gone" /\ x.worker = sdk[c].worker /\ x.kind = sdk[c].kind /\ x.items = sdk[c].items /\ x.at = sdk[c].at
        /\ x.cap = sdk[c].cap /\ x.aggregate = sdk[c].aggregate /\ x.results = sdk[c].results /\ x.total = sdk[c].total
    BY <2>1 DEF Calls
  <2> HIDE DEF x
  <2>6. SlotOk' /\ SlotGrows /\ started' = started /\ ownerTasks' = ownerTasks
    BY <1>1, SlotKept
  <2>7. CallOk(x, started', ownerTasks')
    BY <2>1, <2>5, <2>6 DEF CallOk
  <2>8. TakenOk' /\ TasksGrow
    BY <1>1, <2>4, <2>5, <2>6, TakenStays
  <2> QED BY <2>1, <2>2, <2>3, <2>4, <2>5, <2>6, <2>7, <2>8, CallAndReader
<1>3. CASE sdk[c].pc # "read"
  <2>1. reader' = reader
    BY <1>3 DEF SdkDropped
  <2> QED BY <1>1, <1>3, <2>1, CallGoes
<1> QED BY <1>2, <1>3

----------------------------------------------------------------------------
(* shutdown                                                                *)

\* The worker of the slot is in the hands of this shutdown, which alone has it.
LEMMA SdkShutdownKeeps ==
  ASSUME IInv, NEW c \in Callers, SdkShutdown(c)
  PROVE  IInv'
<1> DEFINE next == IF shared = 0 THEN "done" ELSE "taken"
           x == [sdk[c] EXCEPT !.pc = next, !.worker = shared]
<1>1. /\ sdk[c].pc = "next" /\ sdk[c].kind = "shutdown" /\ shared' = 0 /\ open' = open
      /\ reader' = reader /\ started' = started /\ ownerTasks' = ownerTasks
      /\ sdk' = [sdk EXCEPT ![c] = x]
  BY DEF SdkShutdown, IInv, Types
<1>2. /\ started \in Nat /\ shared \in 0 .. started /\ open \subseteq 1 .. started
      /\ (shared # 0 => shared \in open) /\ ownerTasks \subseteq 1 .. started
  BY DEF IInv, SlotOk
<1>3. SlotOk' /\ TasksGrow /\ shared \in Nat /\ shared <= started'
  BY <1>1, <1>2 DEF SlotOk, TasksGrow
<1>4. next = "done" => shared \notin ownerTasks'
  BY <1>1, <1>2
<1>5. next \in {"done", "taken"} /\ (next = "taken" <=> shared # 0)
  OBVIOUS
<1>6. /\ sdk[c].kind \notin {"batch", "parse"} /\ sdk[c].kind \notin Operations
      /\ next # "run" /\ next # "await" /\ sdk[c].pc # "read"
  BY <1>1, <1>5 DEF Operations
<1>7. TakenOk'
  <2>1. sdk'[c] = x /\ \A d \in Callers : d # c => sdk'[d] = sdk[d]
    BY <1>1 DEF IInv, Types
  <2> HIDE DEF next
  <2>2. x.pc = next /\ x.worker = shared
    BY KeyFacts DEF Calls
  <2> HIDE DEF x
  <2>3. open' \ {shared'} = open /\ (shared # 0 => shared \in open)
    BY <1>1, <1>2
  <2>4. TakenOk
    BY DEF IInv
  <2>5. \A d \in Callers : sdk'[d].pc = "taken" => sdk'[d].worker \in open
    BY <1>5, <2>1, <2>2, <2>3, <2>4 DEF TakenOk
  <2>6. \A d, e \in Callers : sdk'[d].pc = "taken" /\ sdk'[e].pc = "taken" /\ sdk'[d].worker = sdk'[e].worker => d = e
    <3>1. \A d \in Callers : d # c /\ sdk'[d].pc = "taken" => sdk'[d].worker # shared
      BY <2>1, <2>4 DEF TakenOk
    <3> QED BY <2>1, <2>2, <2>4, <3>1 DEF TakenOk
  <2>7. ASSUME NEW w \in open PROVE \E d \in Callers : sdk'[d].pc = "taken" /\ sdk'[d].worker = w
    <3>1. CASE w = shared
      <4>1. shared # 0
        BY <1>2, <3>1
      <4> QED BY <1>5, <2>1, <2>2, <3>1, <4>1
    <3>2. CASE w # shared
      <4>1. PICK d \in Callers : sdk[d].pc = "taken" /\ sdk[d].worker = w
        BY <2>4, <3>2 DEF TakenOk
      <4> QED BY <1>1, <2>1, <4>1
    <3> QED BY <3>1, <3>2
  <2> QED BY <2>3, <2>5, <2>6, <2>7 DEF TakenOk
<1> HIDE DEF next
<1> QED BY <1>1, <1>3, <1>4, <1>5, <1>6, <1>7, CallMoves

\* It closes the worker, which nobody else has.
LEMMA CloseWorkerKeeps ==
  ASSUME IInv, NEW c \in Callers, CloseWorker(c)
  PROVE  IInv'
<1> DEFINE v == sdk[c].worker
           x == [sdk[c] EXCEPT !.pc = "closing", !.worker = v]
<1>1. /\ sdk[c].pc = "taken" /\ open' = open \ {v} /\ sdk' = [sdk EXCEPT ![c].pc = "closing"]
      /\ UNCHANGED <<reader, shared, started, ownerTasks>>
  BY DEF CloseWorker
<1>2. /\ sdk[c] \in Calls /\ CallOk(sdk[c], started, ownerTasks) /\ sdk[c].kind = "shutdown" /\ v \in Nat /\ v <= started
  BY <1>1, KeyFacts DEF CallOk, Calls
<1>3. x = [sdk[c] EXCEPT !.pc = "closing"] /\ x.pc = "closing"
  BY <1>2 DEF Calls
<1>4. sdk' = [sdk EXCEPT ![c] = x]
  BY <1>1, <1>3 DEF IInv, Types
<1>5. TakenOk /\ v \in open \ {shared}
  BY <1>1 DEF IInv, TakenOk
<1>6. SlotOk' /\ TasksGrow /\ started' = started
  BY <1>1, <1>5 DEF IInv, SlotOk, TasksGrow
<1>7. TakenOk'
  <2>1. sdk'[c] = x /\ \A d \in Callers : d # c => sdk'[d] = sdk[d]
    BY <1>4 DEF IInv, Types
  <2> HIDE DEF x
  <2>2. \A d \in Callers : sdk'[d].pc = "taken" => d # c /\ sdk[d].pc = "taken" /\ sdk'[d].worker = sdk[d].worker
    BY <1>3, <2>1
  <2>3. open' \ {shared'} = (open \ {shared}) \ {v}
    BY <1>1
  <2>4. \A d \in Callers : sdk'[d].pc = "taken" => sdk'[d].worker \in open' \ {shared'}
    BY <1>1, <1>5, <2>2, <2>3 DEF TakenOk
  <2>5. \A d, e \in Callers : sdk'[d].pc = "taken" /\ sdk'[e].pc = "taken" /\ sdk'[d].worker = sdk'[e].worker => d = e
    BY <1>5, <2>2 DEF TakenOk
  <2>6. ASSUME NEW w \in open' \ {shared'} PROVE \E d \in Callers : sdk'[d].pc = "taken" /\ sdk'[d].worker = w
    <3>1. PICK d \in Callers : sdk[d].pc = "taken" /\ sdk[d].worker = w
      BY <1>5, <2>3 DEF TakenOk
    <3>2. d # c
      BY <2>3, <3>1
    <3> QED BY <2>1, <3>1, <3>2
  <2> QED BY <2>4, <2>5, <2>6 DEF TakenOk
<1>8. sdk[c].kind \notin Operations /\ sdk[c].kind \notin {"batch", "parse"}
  BY <1>2 DEF Operations
<1>9. reader' = reader /\ sdk[c].pc # "read" /\ v \in Nat /\ v <= started'
  BY <1>1, <1>2, <1>6
<1>10. sdk' = [sdk EXCEPT ![c] = [sdk[c] EXCEPT !.pc = "closing", !.worker = v]]
  BY <1>4
<1> HIDE DEF v, x
<1> DEFINE next == "closing"
<1>11. /\ next \in {"next", "run", "await", "done", "gone", "taken", "closing"} /\ next # "run" /\ next # "await" /\ next # "done"
      /\ sdk' = [sdk EXCEPT ![c] = [sdk[c] EXCEPT !.pc = next, !.worker = v]]
  BY <1>10
<1> HIDE DEF next
<1> QED BY <1>2, <1>6, <1>7, <1>8, <1>9, <1>11, CallMoves

LEMMA SdkClosedKeeps ==
  ASSUME IInv, NEW c \in Callers, SdkClosed(c)
  PROVE  IInv'
<1>1. /\ sdk[c].pc = "closing" /\ sdk[c].worker \notin ownerTasks
      /\ sdk' = [sdk EXCEPT ![c].pc = "done"] /\ reader' = reader /\ UNCHANGED workerVars
  BY DEF SdkClosed
<1> QED BY <1>1, CallGoes

LEMMA OwnerExitsKeeps ==
  ASSUME IInv, NEW w \in ownerTasks, OwnerExits(w)
  PROVE  IInv'
<1>1. ownerTasks' = ownerTasks \ {w} /\ UNCHANGED <<sdk, reader, shared, started, open>>
  BY DEF OwnerExits
<1>2. SlotOk' /\ TakenOk'
  BY <1>1 DEF IInv, SlotOk, TakenOk
<1>3. CallsOk'
  <2> SUFFICES ASSUME NEW c \in Callers PROVE CallOk(sdk[c], started, ownerTasks')
    BY <1>1 DEF CallsOk
  <2>1. sdk[c] \in Calls /\ CallOk(sdk[c], started, ownerTasks)
    BY KeyFacts
  <2> QED BY <1>1, <2>1 DEF CallOk
<1>4. Types' /\ ReadersOk' /\ Stopped'
  BY <1>1 DEF IInv, Types, ReadersOk, Stopped, Left
<1> QED BY <1>2, <1>3, <1>4 DEF IInv

----------------------------------------------------------------------------
(* render, serialize, restore                                              *)

LEMMA SdkOperationKeeps ==
  ASSUME IInv, NEW c \in Callers, SdkOperation(c)
  PROVE  IInv'
<1>1. /\ sdk[c].pc = "next" /\ sdk[c].kind \in Operations /\ sdk[c].results = <<>>
      /\ reader' = reader /\ UNCHANGED workerVars
  BY DEF SdkOperation
<1>2. /\ CallOk(sdk[c], started, ownerTasks) /\ sdk[c].aggregate \in Nat /\ sdk[c].at \in Nat
      /\ sdk[c].results \in Seq(SdkVerdicts)
  BY KeyFacts DEF Calls
<1>3. sdk[c].kind # "shutdown" /\ sdk[c].kind \notin {"batch", "parse"} /\ sdk[c].at = 1
  BY <1>1, <1>2 DEF Operations, CallOk
<1>4. SlotOk' /\ SlotGrows /\ {"ok", "options", "unsupported", "limit"} \subseteq SdkVerdicts
  BY <1>1, SlotKept DEF SdkVerdicts
<1>5. sdk[c].aggregate + 0 <= RetainedCap + Growth /\ sdk[c].pc # "read"
  BY <1>1, <1>2 DEF CallOk
<1>6. ASSUME NEW ending \in SdkVerdicts, AnswerItem(c, ending, 0) PROVE IInv'
  BY <1>1, <1>3, <1>4, <1>5, <1>6, Answers
<1>7. CASE sdk' = [sdk EXCEPT ![c].pc = "await"]
  BY <1>1, <1>3, <1>7, CallGoes
<1> QED BY <1>4, <1>6, <1>7 DEF SdkOperation, RefuseOptions, NativeRender

\* An operation's call with other files to read and another total that fits.
LEMMA FilesChange ==
  ASSUME IInv, NEW c \in Callers, sdk[c].kind \in Operations, sdk[c].pc \in {"await", "files"},
         NEW files \in Seq(Nat), NEW bytes \in Nat, bytes <= RetainedCap,
         sdk' = [sdk EXCEPT ![c] = [sdk[c] EXCEPT !.pc = "files", !.files = files, !.total = bytes]],
         reader' = reader, UNCHANGED workerVars
  PROVE  IInv'
<1> DEFINE y == sdk[c]
           x == [y EXCEPT !.pc = "files", !.files = files, !.total = bytes]
<1>1. y \in Calls /\ CallOk(y, started, ownerTasks)
  BY KeyFacts
<1>2. SlotOk' /\ SlotGrows /\ started' = started /\ ownerTasks' = ownerTasks
  BY SlotKept
<1>3. /\ x \in Calls /\ x.pc = "files" /\ x.worker = y.worker /\ x.kind = y.kind /\ x.items = y.items /\ x.at = y.at
      /\ x.cap = y.cap /\ x.aggregate = y.aggregate /\ x.results = y.results /\ x.total = bytes
  BY <1>1 DEF Calls
<1>4. sdk' = [sdk EXCEPT ![c] = x]
  OBVIOUS
<1> HIDE DEF x
<1>5. CallOk(x, started', ownerTasks')
  BY <1>1, <1>2, <1>3 DEF CallOk, Operations
<1>6. TakenOk' /\ TasksGrow
  BY <1>2, <1>3, <1>4, TakenStays
<1> QED BY <1>2, <1>3, <1>4, <1>5, <1>6, CallOnly

LEMMA OperationEndsKeeps ==
  ASSUME IInv, NEW c \in Callers, OperationEnds(c)
  PROVE  IInv'
<1>1. sdk[c].pc = "await" /\ sdk[c].kind \in Operations /\ reader' = reader /\ UNCHANGED workerVars
  BY DEF OperationEnds
<1>2. sdk[c] \in Calls /\ sdk[c].total \in Nat /\ sdk[c].total <= RetainedCap
  BY KeyFacts DEF Calls, CallOk
<1>3. CASE AnswerItem(c, "worker", 0)
  <2>1. SlotOk' /\ SlotGrows /\ "worker" \in SdkVerdicts /\ sdk[c].kind # "shutdown"
    BY <1>1, SlotKept DEF SdkVerdicts, Operations
  <2> QED BY <1>1, <1>3, <2>1, Answers
<1>4. ASSUME NEW n \in Nat, NEW files \in [1..n -> 1..(RetainedCap + 1)],
             sdk' = [sdk EXCEPT ![c].pc = "files", ![c].files = files]
      PROVE  IInv'
  <2>1. files \in Seq(Nat)
    BY SdkAssumption
  <2>2. [sdk[c] EXCEPT !.pc = "files", !.files = files]
          = [sdk[c] EXCEPT !.pc = "files", !.files = files, !.total = sdk[c].total]
    BY <1>2 DEF Calls
  <2>3. sdk' = [sdk EXCEPT ![c] = [sdk[c] EXCEPT !.pc = "files", !.files = files]]
    BY <1>4 DEF IInv, Types
  <2>4. sdk' = [sdk EXCEPT ![c] = [sdk[c] EXCEPT !.pc = "files", !.files = files, !.total = sdk[c].total]]
    BY <2>2, <2>3
  <2> QED BY <1>1, <1>2, <2>1, <2>4, FilesChange
<1>5. CASE \E files \in UNION {[1..n -> 1..(RetainedCap + 1)] : n \in (IF sdk[c].kind = "render" THEN 1..3 ELSE {1})} :
             sdk' = [sdk EXCEPT ![c].pc = "files", ![c].files = files]
  <2>1. PICK files \in UNION {[1..n -> 1..(RetainedCap + 1)] : n \in (IF sdk[c].kind = "render" THEN 1..3 ELSE {1})} :
             sdk' = [sdk EXCEPT ![c].pc = "files", ![c].files = files]
    BY <1>5
  <2>2. \E n \in Nat : files \in [1..n -> 1..(RetainedCap + 1)]
    OBVIOUS
  <2> QED BY <1>4, <2>1, <2>2
<1> QED BY <1>3, <1>5 DEF OperationEnds

LEMMA ReadArtifactKeeps ==
  ASSUME IInv, NEW c \in Callers, ReadArtifact(c)
  PROVE  IInv'
<1>1. sdk[c].pc = "files" /\ sdk[c].files # <<>> /\ reader' = reader /\ UNCHANGED workerVars
  BY DEF ReadArtifact
<1>2. /\ sdk[c] \in Calls /\ sdk[c].total \in Nat /\ sdk[c].kind \in Operations /\ sdk[c].kind # "shutdown"
      /\ sdk[c].files \in Seq(Nat)
  BY <1>1, KeyFacts DEF Calls, CallOk, Operations
<1> DEFINE length == Head(sdk[c].files)
           rest == Tail(sdk[c].files)
<1>3. length \in Nat /\ rest \in Seq(Nat)
  BY <1>1, <1>2
<1>4. CASE ReadsArtifact(length, sdk[c].total)
  <2>1. sdk[c].total + length \in Nat /\ sdk[c].total + length <= RetainedCap
    <3>1. RetainedCap \in Nat /\ length <= RetainedCap - sdk[c].total
      BY <1>4, SdkAssumption DEF ReadsArtifact
    <3>2. length \in Nat /\ sdk[c].total \in Nat
      BY <1>2, <1>3
    <3> HIDE DEF length
    <3> QED BY ONLY <3>1, <3>2
  <2>2. sdk' = [sdk EXCEPT ![c] = [sdk[c] EXCEPT !.files = rest, !.total = sdk[c].total + length]]
    BY <1>4 DEF ReadArtifact, IInv, Types
  <2> DEFINE bytes == sdk[c].total + length
  <2>3. bytes \in Nat /\ bytes <= RetainedCap /\ sdk' = [sdk EXCEPT ![c] = [sdk[c] EXCEPT !.files = rest, !.total = bytes]]
    BY <2>1, <2>2
  <2> HIDE DEF bytes, rest
  <2>4. [sdk[c] EXCEPT !.files = rest, !.total = bytes]
          = [sdk[c] EXCEPT !.pc = "files", !.files = rest, !.total = bytes]
    BY <1>1, <1>2 DEF Calls
  <2> QED BY <1>1, <1>2, <1>3, <2>3, <2>4, FilesChange
<1>5. CASE ~ReadsArtifact(length, sdk[c].total)
  <2>1. AnswerItem(c, "limit", 0)
    BY <1>5 DEF ReadArtifact
  <2>2. SlotOk' /\ SlotGrows /\ "limit" \in SdkVerdicts
    BY <1>1, SlotKept DEF SdkVerdicts
  <2> QED BY <1>1, <1>2, <2>1, <2>2, Answers
<1> QED BY <1>4, <1>5

\* Before it answers an operation has kept nothing, so what it read fits.
LEMMA RenderedKeeps ==
  ASSUME IInv, NEW c \in Callers, Rendered(c)
  PROVE  IInv'
<1>1. sdk[c].pc = "files" /\ reader' = reader /\ UNCHANGED workerVars
  BY DEF Rendered
<1>2. CallOk(sdk[c], started, ownerTasks) /\ sdk[c].total \in Nat
  BY KeyFacts DEF Calls
<1>3. sdk[c].kind \in Operations /\ sdk[c].kind # "shutdown" /\ sdk[c].kind # "batch"
  BY <1>1, <1>2 DEF CallOk, Operations
<1>4. sdk[c].aggregate = 0 /\ sdk[c].total <= RetainedCap
  BY <1>1, <1>2, <1>3 DEF CallOk
<1>5. sdk[c].aggregate + sdk[c].total <= RetainedCap + Growth
  BY <1>2, <1>4, SdkAssumption
<1>6. SlotOk' /\ SlotGrows /\ "ok" \in SdkVerdicts /\ "invalid" \in SdkVerdicts /\ "invalid" # "ok"
  BY <1>1, SlotKept DEF SdkVerdicts
<1>7. CASE AnswerItem(c, "ok", sdk[c].total)
  BY <1>1, <1>2, <1>3, <1>5, <1>6, <1>7, Answers
<1>8. CASE AnswerItem(c, "invalid", 0)
  BY <1>1, <1>3, <1>6, <1>8, Answers
<1> QED BY <1>7, <1>8 DEF Rendered

LEMMA OperationReturnsKeeps ==
  ASSUME IInv, NEW c \in Callers, OperationReturns(c)
  PROVE  IInv'
<1>1. /\ sdk[c].pc = "next" /\ sdk[c].kind \in Operations /\ sdk[c].kind # "shutdown"
      /\ sdk' = [sdk EXCEPT ![c].pc = "done"] /\ reader' = reader /\ UNCHANGED workerVars
  BY DEF OperationReturns, Operations
<1> QED BY <1>1, CallGoes

----------------------------------------------------------------------------
(* The readers                                                             *)

\* A turn reads what is left, what the limit leaves and one byte more, or a buffer.
LEMMA ChunkFits ==
  ASSUME NEW r \in ReaderStates, r.got <= r.limit
  PROVE  /\ ChunkOf(r) \in Nat /\ ChunkOf(r) <= r.left /\ r.got + ChunkOf(r) <= r.limit + 1
         /\ ChunkOf(r) = 0 => r.left = 0
<1> DEFINE room == r.limit - r.got + 1
           S == {r.left, room, ReadBuffer}
<1>1. r.left \in Nat /\ r.got \in Nat /\ r.limit \in Nat /\ room \in Nat /\ room >= 1
  BY DEF ReaderStates
<1>2. ReadBuffer \in Nat /\ ReadBuffer >= 1
  BY SdkAssumption
<1> HIDE DEF room
<1>3. \E x \in S : \A y \in S : x <= y
  BY <1>1, <1>2
<1>4. Min(S) \in S /\ \A y \in S : Min(S) <= y
  BY <1>3 DEF Min
<1>5. ChunkOf(r) \in S /\ \A y \in S : ChunkOf(r) <= y
  BY <1>4 DEF ChunkOf, room
<1>6. ChunkOf(r) \in Nat /\ ChunkOf(r) <= r.left /\ ChunkOf(r) <= room /\ (ChunkOf(r) = 0 => r.left = 0)
  BY <1>1, <1>2, <1>5
<1>7. r.got + ChunkOf(r) <= r.limit + 1
  BY <1>1, <1>6 DEF room
<1> QED BY <1>6, <1>7

LEMMA ReaderFacts ==
  ASSUME IInv, NEW k \in DOMAIN reader
  PROVE  reader[k] \in ReaderStates /\ ReaderOk(reader[k])
BY DEF IInv, Types, ReadersOk

LEMMA EndsKeeps ==
  ASSUME IInv, NEW k \in DOMAIN reader, NEW ending \in SdkVerdicts, Ends(k, ending),
         ending = "ok" => reader[k].whole /\ reader[k].got <= reader[k].limit,
         UNCHANGED <<sdk, workerVars>>
  PROVE  IInv'
<1> DEFINE r == reader[k]
           s == [r EXCEPT !.pc = "end", !.end = ending]
<1>1. r \in ReaderStates /\ ReaderOk(r)
  BY ReaderFacts
<1>2. reader' = [reader EXCEPT ![k] = s]
  BY DEF Ends
<1>3. /\ s \in ReaderStates /\ s.pc = "end" /\ s.end = ending /\ s.got = r.got /\ s.limit = r.limit
      /\ s.whole = r.whole /\ s.flag = r.flag
  BY <1>1 DEF ReaderStates
<1> HIDE DEF s
<1>4. ReaderOk(s) /\ ~Active(s)
  BY <1>1, <1>3 DEF ReaderOk, Active
<1> QED BY <1>2, <1>3, <1>4, ReaderOnly

LEMMA CheckReadKeeps ==
  ASSUME IInv, NEW k \in DOMAIN reader, CheckRead(k)
  PROVE  IInv'
<1> DEFINE ending == IF reader[k].flag THEN "canceled" ELSE "deadline"
<1>1. Ends(k, ending) /\ UNCHANGED <<sdk, workerVars>>
  BY DEF CheckRead
<1>2. ending \in SdkVerdicts /\ ending # "ok"
  BY DEF SdkVerdicts
<1> HIDE DEF ending
<1> QED BY <1>1, <1>2, EndsKeeps

LEMMA OpenDocumentKeeps ==
  ASSUME IInv, NEW k \in DOMAIN reader, OpenDocument(k)
  PROVE  IInv'
<1> DEFINE r == reader[k]
<1>1. r \in ReaderStates /\ ReaderOk(r) /\ r.pc = "queued" /\ UNCHANGED <<sdk, workerVars>>
  BY ReaderFacts DEF OpenDocument
<1>2. \A ending \in {"unreadable", "limit"} : ending \in SdkVerdicts /\ ending # "ok"
  BY DEF SdkVerdicts
<1>3. ASSUME NEW ending \in {"unreadable", "limit"}, Ends(k, ending) PROVE IInv'
  BY <1>1, <1>2, <1>3, EndsKeeps
<1>4. ASSUME NEW n \in {0, 1}, reader' = [reader EXCEPT ![k].pc = "reading", ![k].left = @ + n] PROVE IInv'
  <2> DEFINE left == r.left + n
             s == [r EXCEPT !.pc = "reading", !.left = left]
  <2>1. reader' = [reader EXCEPT ![k] = s]
    BY <1>4
  <2>2. left \in Nat /\ r.got = 0 /\ r.limit \in Nat
    BY <1>1 DEF ReaderStates, ReaderOk
  <2> HIDE DEF left
  <2>3. /\ s \in ReaderStates /\ s.pc = "reading" /\ s.end = r.end /\ s.got = r.got /\ s.limit = r.limit
        /\ s.whole = r.whole /\ s.flag = r.flag
    BY <1>1, <2>2 DEF ReaderStates
  <2> HIDE DEF s
  <2>4. ReaderOk(s) /\ Active(r)
    BY <1>1, <2>2, <2>3 DEF ReaderOk, Active
  <2> QED BY <1>1, <2>1, <2>3, <2>4, ReaderOnly
<1> QED BY <1>3, <1>4 DEF OpenDocument

\* A turn that reads nothing has met the end of the document, and one that goes
\* over the limit ends the reader: so one that ends well has it whole.
LEMMA ReadChunkKeeps ==
  ASSUME IInv, NEW k \in DOMAIN reader, ReadChunk(k)
  PROVE  IInv'
<1> DEFINE r == reader[k]
           n == ChunkOf(r)
           got == r.got + n
           left == r.left - n
           csv == sdk[k[1]].items[k[2]].suffix = "csv"
           pc == IF n > 0 /\ got <= r.limit THEN "reading"
                 ELSE IF csv /\ got \in 1..r.limit THEN "analysing" ELSE "end"
           end == IF n > 0 /\ got <= r.limit THEN "none"
                  ELSE IF got > r.limit THEN "limit"
                  ELSE IF got = 0 THEN "empty"
                  ELSE IF csv THEN "none" ELSE "ok"
           complete == n = r.left
           s == [r EXCEPT !.got = got, !.left = left, !.whole = complete, !.pc = pc, !.end = end]
<1>1. r \in ReaderStates /\ ReaderOk(r) /\ r.pc = "reading" /\ UNCHANGED <<sdk, workerVars>>
  BY ReaderFacts DEF ReadChunk
<1>2. r.got <= r.limit /\ r.got \in Nat /\ r.limit \in Nat /\ r.left \in Nat
  BY <1>1 DEF ReaderOk, ReaderStates
<1>3. n \in Nat /\ n <= r.left /\ got <= r.limit + 1 /\ (n = 0 => complete)
  BY <1>1, <1>2, ChunkFits
<1>4. reader' = [reader EXCEPT ![k] = s]
  BY DEF ReadChunk
<1> HIDE DEF n
<1>5. got \in Nat /\ left \in Nat /\ (n = 0 => got <= r.limit)
  BY <1>2, <1>3
<1>6. pc \in {"reading", "analysing", "end"} /\ end \in SdkVerdicts
  BY DEF SdkVerdicts
<1>7. /\ pc # "end" => end = "none" /\ got <= r.limit
      /\ pc = "analysing" => n = 0
      /\ end = "ok" => n = 0
  BY <1>2, <1>3, <1>5
<1>8. complete \in BOOLEAN
  OBVIOUS
<1> HIDE DEF got, left, csv, pc, end, complete
<1>9. /\ s \in ReaderStates /\ s.pc = pc /\ s.end = end /\ s.got = got /\ s.limit = r.limit
      /\ s.whole = complete /\ s.flag = r.flag
  BY <1>1, <1>5, <1>6, <1>8 DEF ReaderStates
<1> HIDE DEF s
<1>10. ReaderOk(s) /\ Active(r)
  BY <1>1, <1>3, <1>5, <1>6, <1>7, <1>9 DEF ReaderOk, Active
<1> QED BY <1>1, <1>4, <1>9, <1>10, ReaderOnly

LEMMA AnalyseKeeps ==
  ASSUME IInv, NEW k \in DOMAIN reader, Analyse(k)
  PROVE  IInv'
<1>1. reader[k].whole /\ reader[k].got <= reader[k].limit /\ UNCHANGED <<sdk, workerVars>>
  BY ReaderFacts DEF Analyse, ReaderOk
<1>2. \A ending \in {"ok", "malformed"} : ending \in SdkVerdicts
  BY DEF SdkVerdicts
<1>3. ASSUME NEW ending \in {"ok", "malformed"}, Ends(k, ending) PROVE IInv'
  BY <1>1, <1>2, <1>3, EndsKeeps
<1> QED BY <1>3 DEF Analyse

LEMMA DeadlineArrivesKeeps ==
  ASSUME IInv, NEW c \in Callers, DeadlineArrives(c)
  PROVE  IInv'
<1> DEFINE k == <<c, sdk[c].at>>
           r == reader[k]
           s == [r EXCEPT !.late = TRUE]
<1>1. sdk[c].pc = "read" /\ UNCHANGED <<sdk, workerVars>> /\ reader' = [reader EXCEPT ![k] = s]
  BY DEF DeadlineArrives, Key
<1>2. k \in DOMAIN reader /\ r \in ReaderStates /\ ReaderOk(r)
  BY <1>1, KeyFacts DEF CallOk
<1>3. /\ s \in ReaderStates /\ s.pc = r.pc /\ s.end = r.end /\ s.got = r.got /\ s.limit = r.limit
      /\ s.whole = r.whole /\ s.flag = r.flag
  BY <1>2 DEF ReaderStates
<1> HIDE DEF s, k, r
<1>4. ReaderOk(s) /\ (Active(s) => Active(reader[k])) /\ (reader[k].flag => s.flag)
  BY <1>2, <1>3 DEF ReaderOk, Active, r
<1> QED BY <1>1, <1>2, <1>3, <1>4, ReaderOnly DEF r

----------------------------------------------------------------------------
(* The invariant                                                           *)

LEMMA InitSound == SdkInit => IInv
<1> SUFFICES ASSUME SdkInit PROVE IInv
  OBVIOUS
<1>1. PICK p \in Programs :
         /\ sdk = [c \in Callers |-> CallOf(p[c])]
         /\ reader = [k \in UNION {{<<c, i>> : i \in DOMAIN p[c].items} : c \in Callers} |-> NoReader]
  BY DEF SdkInit
<1>2. SlotOk /\ open = {}
  BY DEF SdkInit, SdkOff, SlotOk
<1>3. ASSUME NEW c \in Callers
      PROVE  /\ sdk[c] \in Calls /\ sdk[c].items = p[c].items
             /\ CallOk(sdk[c], started, ownerTasks) /\ sdk[c].pc = "next"
  <2>1. /\ p[c].kind \in {"batch", "parse", "shutdown"} \cup Operations
        /\ p[c].mode \in {"fresh", "persistent"} /\ p[c].native \in BOOLEAN
        /\ p[c].items \in Seq(SdkItems)
        /\ p[c].kind = "parse" => Len(p[c].items) = 1
    BY SdkAssumption
  <2>2. sdk[c] = CallOf(p[c])
    BY <1>1
  <2>3. sdk[c] \in Calls
    BY <2>1, <2>2 DEF CallOf, Calls
  <2>4. /\ sdk[c].kind = p[c].kind /\ sdk[c].items = p[c].items /\ sdk[c].pc = "next" /\ sdk[c].at = 1
        /\ sdk[c].worker = 0 /\ sdk[c].aggregate = 0 /\ sdk[c].results = <<>> /\ sdk[c].total = 0
    BY <2>2 DEF CallOf
  <2>5. started = 0 /\ RetainedCap \in Nat /\ Growth \in Nat
    BY SdkAssumption DEF SdkInit, SdkOff
  <2>6. CallOk(sdk[c], started, ownerTasks)
    BY <2>1, <2>4, <2>5 DEF CallOk
  <2> QED BY <2>2, <2>3, <2>4, <2>6
<1>4. NoReader \in ReaderStates /\ ReaderOk(NoReader) /\ ~Active(NoReader)
  BY DEF NoReader, ReaderStates, ReaderOk, Active, SdkVerdicts
<1>5. DOMAIN reader = UNION {{<<c, i>> : i \in DOMAIN sdk[c].items} : c \in Callers}
  BY <1>1, <1>3
<1>6. Types
  BY <1>1, <1>3, <1>4, <1>5 DEF Types
<1>7. CallsOk
  BY <1>3 DEF CallsOk
<1>8. ReadersOk /\ Stopped
  BY <1>1, <1>4 DEF ReadersOk, Stopped
<1>9. TakenOk
  BY <1>2, <1>3 DEF TakenOk
<1> QED BY <1>2, <1>6, <1>7, <1>8, <1>9 DEF IInv

LEMMA NextSound == IInv /\ [SdkNext]_sdkVars => IInv'
<1> SUFFICES ASSUME IInv, [SdkNext]_sdkVars PROVE IInv'
  OBVIOUS
<1>1. DOMAIN sdk = Callers
  BY DEF IInv, Types
<1>2. ASSUME NEW c \in Callers, SdkStep(c) PROVE IInv'
  BY <1>2, NextItemKeeps, ParseRichKeeps, SdkReturnsKeeps, ReadReturnsKeeps, ReadTimesOutKeeps, RunDocumentKeeps,
     RunFailsKeeps, FromBundleKeeps, SdkShutdownKeeps, CloseWorkerKeeps, SdkClosedKeeps, SdkOperationKeeps, OperationEndsKeeps,
     ReadArtifactKeeps, RenderedKeeps, OperationReturnsKeeps DEF SdkStep
<1>3. ASSUME NEW c \in Callers, DeadlineArrives(c) \/ SdkDropped(c) PROVE IInv'
  BY <1>3, DeadlineArrivesKeeps, SdkDroppedKeeps
<1>4. ASSUME NEW k \in DOMAIN reader, ReaderStep(k) PROVE IInv'
  BY <1>4, CheckReadKeeps, OpenDocumentKeeps, ReadChunkKeeps, AnalyseKeeps DEF ReaderStep
<1>5. ASSUME NEW w \in ownerTasks, OwnerExits(w) PROVE IInv'
  BY <1>5, OwnerExitsKeeps
<1>6. CASE UNCHANGED sdkVars
  BY <1>6 DEF sdkVars, IInv, Types, SlotOk, TakenOk, CallsOk, ReadersOk, Stopped, Left
<1> QED BY <1>1, <1>2, <1>3, <1>4, <1>5, <1>6 DEF SdkNext, Readers

LEMMA InvariantIsHonest == IInv => SdkHonest
<1> SUFFICES ASSUME IInv PROVE SdkHonest
  OBVIOUS
<1>1. DOMAIN sdk = Callers
  BY DEF IInv, Types
<1>2. ASSUME NEW c \in Callers
      PROVE  /\ sdk[c].aggregate <= RetainedCap + Growth
             /\ Len(sdk[c].results) = sdk[c].at - 1
             /\ sdk[c].total <= RetainedCap
             /\ sdk[c].kind = "shutdown" /\ sdk[c].pc = "done" => sdk[c].worker \notin ownerTasks
  BY DEF IInv, CallsOk, CallOk
<1>3. ASSUME NEW k \in DOMAIN reader
      PROVE  /\ reader[k].got <= reader[k].limit + 1
             /\ reader[k].end = "ok" => reader[k].whole /\ reader[k].got <= reader[k].limit
  BY ReaderFacts DEF ReaderOk
<1>4. ASSUME NEW k \in DOMAIN reader, Active(reader[k]), ~(sdk[k[1]].pc = "read" /\ Key(k[1]) = k)
      PROVE  reader[k].flag
  <2>1. PICK c \in Callers : k = <<c, k[2]>>
    BY DEF IInv, Types
  <2>2. Left(k)
    BY <1>4, <2>1 DEF Left, Key
  <2> QED BY <1>4, <2>2 DEF IInv, Stopped
<1>5. (shared # 0 => shared \in open) /\ TakenOk
  BY DEF IInv, SlotOk
<1>6. ASSUME NEW w \in open \ {shared}
      PROVE  Cardinality({c \in DOMAIN sdk : sdk[c].pc = "taken" /\ sdk[c].worker = w}) = 1
  <2>1. PICK c \in Callers : sdk[c].pc = "taken" /\ sdk[c].worker = w
    BY <1>5 DEF TakenOk
  <2>2. {d \in DOMAIN sdk : sdk[d].pc = "taken" /\ sdk[d].worker = w} = {c}
    BY <1>1, <1>5, <2>1 DEF TakenOk
  <2> QED BY <2>2, FS_Singleton
<1>7. \A c \in DOMAIN sdk : sdk[c].pc = "taken" => sdk[c].worker \in open \ {shared}
  BY <1>1, <1>5 DEF TakenOk
<1> QED BY <1>1, <1>2, <1>3, <1>4, <1>5, <1>6, <1>7 DEF SdkHonest, Readers, Active

\* What a call has kept, what a reader has read and the slot stay sound together,
\* through every read, timeout, drop and shutdown (parse_batch_rich, read_limited,
\* persistent_worker).
THEOREM SdkInvariant == SdkSpec => []IInv
<1>1. SdkInit => IInv
  BY InitSound
<1>2. IInv /\ [SdkNext]_sdkVars => IInv'
  BY NextSound
<1> QED BY <1>1, <1>2, PTL DEF SdkSpec

\* Results in order and within the cap, no truncated document, no reader left
\* running unasked, no open worker that is neither in the slot nor being shut down, and a
\* shutdown that waited.
THEOREM SdkIsHonest == SdkSpec => []SdkHonest
<1>1. IInv => SdkHonest
  BY InvariantIsHonest
<1> QED BY <1>1, SdkInvariant, PTL

-----------------------------------------------------------------------------
(* The official client: uploads in input order, then the job, then one      *)
(* answer after the other, each within the memory the others left.          *)

Uploading == {"create", "put", "complete"}
ClientPhases == {"check", "job", "poll", "file", "fetch", "done"} \cup Uploading
BeforeJob == {"check", "job"} \cup Uploading
FileVerdicts == {"completed", "failed", "absent"}
Whys == {"invalid", "transport", "http", "protocol", "timeout", "large", "failed", "absent"}
ClientAnswers == ({"err"} \X Whys) \cup ({"ok"} \X Nat \X Nat)

ClientShape ==
    /\ inputs \in Seq(InputSizes) /\ phase \in ClientPhases
    /\ uploaded \in Seq(Nat) /\ results \in Seq(ClientAnswers)
    /\ late \in BOOLEAN /\ known \in BOOLEAN /\ asked \in BOOLEAN
    /\ retained \in Nat /\ total \in Nat /\ budget \in Int
    /\ tokens \subseteq {"home"}

\* Uploads are made in input order, all of them before the job.
UploadsInOrder ==
    /\ \A i \in 1..Len(uploaded) : uploaded[i] = i
    /\ phase = "check" => Len(uploaded) = 0
    /\ phase \in Uploading => Len(uploaded) < Len(inputs)
    /\ phase \in {"job", "poll", "file", "fetch"} => Len(uploaded) = Len(inputs) /\ Len(inputs) > 0

\* One answer per input, the answers so far being those of the first inputs.
AnswersInOrder ==
    /\ phase \in BeforeJob => ~known /\ results = <<>>
    /\ phase = "poll" => results = <<>>
    /\ phase \in {"file", "fetch"} => ends \in [1..Len(inputs) -> FileVerdicts] /\ Len(results) < Len(inputs)
    /\ phase = "fetch" => ends[Len(results) + 1] = "completed"
    /\ phase = "done" => Len(results) = Len(inputs)
    /\ \A i \in 1..Len(results) : results[i][1] = "ok" => results[i][2] = i /\ ends[i] = "completed"
    /\ known /\ (\E i \in 1..Len(results) : results[i] = <<"err", "timeout">>) => asked

\* What a file may add is what the files before it left.
BudgetLeft ==
    /\ retained <= OutputMax
    /\ phase = "fetch" => budget = OutputMax - retained - MetaSize /\ total <= budget

ClientInv == ClientShape /\ UploadsInOrder /\ AnswersInOrder /\ BudgetLeft

Sound(i) == results[i][1] = "ok" => results[i][2] = i /\ ends[i] = "completed"

\* An error is an answer, and never a success.
LEMMA ErrAnswer ==
  ASSUME NEW why \in Whys
  PROVE  <<"err", why>> \in ClientAnswers /\ <<"err", why>>[1] # "ok"
BY DEF ClientAnswers, Whys

\* A success is an answer that names its file, and never a timeout.
LEMMA OkAnswer ==
  ASSUME NEW f \in Nat, NEW n \in Nat
  PROVE  /\ <<"ok", f, n>> \in ClientAnswers /\ <<"ok", f, n>>[2] = f
         /\ <<"ok", f, n>> # <<"err", "timeout">>
BY DEF ClientAnswers, Whys

\* A call starts with no upload, no answer and no token sent.
LEMMA ClientStarts == ClientInit => ClientInv
<1> SUFFICES ASSUME ClientInit PROVE ClientInv
  OBVIOUS
<1>1. inputs \in Seq(InputSizes)
  BY DEF ClientInit
<1>2. <<>> \in Seq(Nat) /\ <<>> \in Seq(ClientAnswers) /\ {} \subseteq {"home"}
  OBVIOUS
<1>3. late \in BOOLEAN /\ known \in BOOLEAN /\ asked \in BOOLEAN
  BY DEF ClientInit
<1>4. ClientShape
  BY <1>1, <1>2, <1>3 DEF ClientInit, ClientShape, ClientPhases
<1> QED BY <1>4, ClientAssumption DEF ClientInit, ClientInv, UploadsInOrder, AnswersInOrder, BudgetLeft, Uploading, BeforeJob, ClientShape

\* When the call gives up every input gets the same error; after a timeout of a job it knows, the job has been canceled (fail_all).
LEMMA FailAllKeeps ==
  ASSUME ClientInv, NEW why \in Whys, FailAll(why), tokens' \subseteq {"home"},
         asked' \in BOOLEAN, asked => asked',
         phase \notin BeforeJob /\ why = "timeout" => asked'
  PROVE  ClientInv'
<1> DEFINE N == Len(inputs)
<1>1. inputs \in Seq(InputSizes) /\ inputs' = inputs /\ N \in Nat /\ DOMAIN inputs = 1..N
  BY DEF ClientInv, ClientShape, FailAll
<1>2. results' = [i \in 1..N |-> <<"err", why>>]
  BY <1>1 DEF FailAll, AllErr
<1>3. results' \in Seq(ClientAnswers) /\ Len(results') = N
  BY <1>1, <1>2, ErrAnswer
<1>4. \A i \in 1..Len(results') : results'[i] = <<"err", why>>
  BY <1>2, <1>3
<1>5. ClientShape'
  BY <1>3 DEF ClientInv, ClientShape, FailAll, ClientPhases
<1>6. UploadsInOrder'
  BY DEF ClientInv, UploadsInOrder, FailAll, Uploading
<1>7. AnswersInOrder'
  <2>1. known' /\ (\E i \in 1..Len(results') : results'[i] = <<"err", "timeout">>) => asked'
    <3> SUFFICES ASSUME known', NEW i \in 1..Len(results'), results'[i] = <<"err", "timeout">>
                 PROVE  asked'
      OBVIOUS
    <3>1. why = "timeout"
      BY <1>4
    <3>2. phase \notin BeforeJob
      BY DEF ClientInv, AnswersInOrder, FailAll
    <3> QED BY <3>1, <3>2
  <2>2. \A i \in 1..Len(results') : results'[i][1] # "ok"
    BY <1>4, ErrAnswer
  <2> QED BY <1>1, <1>3, <2>1, <2>2 DEF FailAll, AnswersInOrder, BeforeJob, Uploading
<1>8. BudgetLeft'
  BY DEF ClientInv, BudgetLeft, FailAll
<1> QED BY <1>5, <1>6, <1>7, <1>8 DEF ClientInv

\* The ways a request fails are words of an error.
LEMMA FailuresAreWords == Failures \subseteq Whys
BY DEF Failures, Whys

\* The inputs are checked before anything is sent.
LEMMA CheckKeeps == ASSUME ClientInv, CheckInputs PROVE ClientInv'
<1> USE DEF CheckInputs
<1>1. CASE FailAll("invalid")
  BY <1>1, FailAllKeeps DEF ClientInv, ClientShape, Whys
<1>2. CASE phase' = "create" /\ inputs # <<>> /\ UNCHANGED <<inputs, late, uploaded, ends, known, retained, budget, kinds, total, results>>
  <2>1. Len(inputs) > 0
    BY <1>2 DEF ClientInv, ClientShape
  <2>2. ClientShape'
    BY <1>2 DEF ClientInv, ClientShape, ClientPhases, Uploading
  <2> QED BY <1>2, <2>1, <2>2 DEF ClientInv, ClientShape, UploadsInOrder, AnswersInOrder, BudgetLeft, Uploading, BeforeJob
<1> QED BY <1>1, <1>2

\* Steps that only move the uploads on.
LEMMA UploadKeeps ==
  ASSUME ClientInv, phase \in Uploading, tokens' \subseteq {"home"}, asked' = asked,
         NEW p \in Uploading \cup {"job"}, GoOn(p),
         \/ uploaded' = uploaded /\ p # "job"
         \/ /\ uploaded' = Append(uploaded, Len(uploaded) + 1)
            /\ p = (IF Len(uploaded) + 1 = Len(inputs) THEN "job" ELSE "create")
  PROVE  ClientInv'
<1>a. Len(inputs) \in Nat /\ Len(uploaded) \in Nat /\ uploaded \in Seq(Nat)
  BY DEF ClientInv, ClientShape
<1>b. /\ uploaded' \in Seq(Nat) /\ phase' \in ClientPhases
      /\ uploaded' = uploaded \/ uploaded' = Append(uploaded, Len(uploaded) + 1)
  <2>1. p \in ClientPhases /\ phase' = p
    BY DEF GoOn, ClientPhases, Uploading
  <2> QED BY <1>a, <2>1
<1>1. ClientShape'
  BY <1>b DEF ClientInv, ClientShape, GoOn
<1>2. UploadsInOrder'
  <2>1. \A i \in 1..Len(uploaded') : uploaded'[i] = i
    <3>1. CASE uploaded' = uploaded
      BY <3>1 DEF ClientInv, UploadsInOrder
    <3>2. CASE uploaded' = Append(uploaded, Len(uploaded) + 1)
      <4>1. Len(uploaded') = Len(uploaded) + 1 /\ uploaded'[Len(uploaded) + 1] = Len(uploaded) + 1
        BY <1>a, <3>2
      <4>2. \A i \in 1..Len(uploaded) : uploaded'[i] = uploaded[i]
        BY <1>a, <3>2
      <4> QED BY <1>a, <4>1, <4>2 DEF ClientInv, UploadsInOrder
    <3> QED BY <1>b, <3>1, <3>2
  <2>2. phase' = p /\ inputs' = inputs /\ Len(uploaded) < Len(inputs)
    BY DEF GoOn, ClientInv, UploadsInOrder
  <2>3. CASE uploaded' = uploaded /\ p # "job"
    BY <2>1, <2>2, <2>3 DEF UploadsInOrder, Uploading
  <2>4. CASE /\ uploaded' = Append(uploaded, Len(uploaded) + 1)
             /\ p = (IF Len(uploaded) + 1 = Len(inputs) THEN "job" ELSE "create")
    <3>1. Len(uploaded') = Len(uploaded) + 1
      BY <1>a, <2>4
    <3> QED BY <1>a, <2>1, <2>2, <2>4, <3>1 DEF UploadsInOrder, Uploading
  <2> QED BY <2>3, <2>4
<1>3. AnswersInOrder' /\ BudgetLeft'
  BY DEF ClientInv, AnswersInOrder, BudgetLeft, GoOn, Uploading, BeforeJob
<1> QED BY <1>1, <1>2, <1>3 DEF ClientInv

\* A token goes nowhere but home.
LEMMA SentStays == ASSUME ClientInv, Sent PROVE tokens' \subseteq {"home"}
BY DEF ClientInv, ClientShape, Sent

\* Before the job exists there is nothing to cancel.
LEMMA FailAllEarly ==
  ASSUME ClientInv, phase \in BeforeJob, NEW why \in Whys, FailAll(why), tokens' \subseteq {"home"}, asked' = asked
  PROVE  ClientInv'
BY FailAllKeeps DEF ClientInv, ClientShape

\* An upload is created for the next input.
LEMMA CreateUploadKeeps == ASSUME ClientInv, CreateUpload PROVE ClientInv'
<1>1. tokens' \subseteq {"home"} /\ asked' = asked /\ phase \in Uploading /\ phase \in BeforeJob
  BY SentStays DEF CreateUpload, Uploading, BeforeJob
<1>2. CASE /\ uploaded' = Append(uploaded, Len(uploaded) + 1)
           /\ GoOn(IF Len(uploaded) + 1 = Len(inputs) THEN "job" ELSE "create")
  BY <1>1, <1>2, UploadKeeps DEF Uploading
<1>3. CASE UNCHANGED uploaded /\ GoOn("put")
  BY <1>1, <1>3, UploadKeeps DEF Uploading
<1>4. ASSUME NEW why \in Failures, FailAll(why) PROVE ClientInv'
  BY <1>1, <1>4, FailAllEarly, FailuresAreWords
<1> QED BY <1>2, <1>3, <1>4 DEF CreateUpload

\* Its bytes are put.
LEMMA PutUploadKeeps == ASSUME ClientInv, PutUpload PROVE ClientInv'
<1>1. asked' = asked /\ phase \in Uploading /\ phase \in BeforeJob
  BY DEF PutUpload, Uploading, BeforeJob
<1>2. CASE FailAll("protocol") /\ UNCHANGED tokens
  BY <1>1, <1>2, FailAllEarly DEF ClientInv, ClientShape, Whys
<1>3. ASSUME tokens' = tokens \cup {"home"}, GoOn("complete"), UNCHANGED uploaded PROVE ClientInv'
  <2>1. tokens' \subseteq {"home"}
    BY <1>3 DEF ClientInv, ClientShape
  <2> QED BY <1>1, <1>3, <2>1, UploadKeeps DEF Uploading
<1>4. ASSUME tokens' = tokens \cup {"home"}, NEW why \in Failures, FailAll(why) PROVE ClientInv'
  <2>1. tokens' \subseteq {"home"}
    BY <1>4 DEF ClientInv, ClientShape
  <2> QED BY <1>1, <1>4, <2>1, FailAllEarly, FailuresAreWords
<1> QED BY <1>2, <1>3, <1>4 DEF PutUpload, CheckOrigin

\* It is completed, and is the next in the list.
LEMMA CompleteUploadKeeps == ASSUME ClientInv, CompleteUpload PROVE ClientInv'
<1>1. tokens' \subseteq {"home"} /\ asked' = asked /\ phase \in Uploading /\ phase \in BeforeJob
  BY SentStays DEF CompleteUpload, Uploading, BeforeJob
<1>2. CASE /\ uploaded' = Append(uploaded, Len(uploaded) + 1)
           /\ GoOn(IF Len(uploaded) + 1 = Len(inputs) THEN "job" ELSE "create")
  BY <1>1, <1>2, UploadKeeps DEF Uploading
<1>3. ASSUME NEW why \in Failures, FailAll(why) PROVE ClientInv'
  BY <1>1, <1>3, FailAllEarly, FailuresAreWords
<1> QED BY <1>2, <1>3 DEF CompleteUpload

\* The job is created when every input has its upload.
LEMMA CreateJobKeeps == ASSUME ClientInv, CreateJob PROVE ClientInv'
<1>1. tokens' \subseteq {"home"} /\ asked' = asked /\ phase = "job" /\ phase \in BeforeJob
  BY SentStays DEF CreateJob, BeforeJob
<1>2. CASE /\ known' = TRUE /\ phase' = "poll"
           /\ UNCHANGED <<inputs, late, uploaded, ends, retained, budget, kinds, total, results>>
  <2>1. ClientShape'
    BY <1>1, <1>2 DEF ClientInv, ClientShape, ClientPhases
  <2>2. UploadsInOrder' /\ BudgetLeft'
    BY <1>1, <1>2 DEF ClientInv, UploadsInOrder, BudgetLeft, Uploading
  <2>3. results = <<>> /\ results' = <<>> /\ phase' = "poll"
    BY <1>1, <1>2 DEF ClientInv, AnswersInOrder
  <2>4. AnswersInOrder'
    BY <2>3 DEF AnswersInOrder, BeforeJob, Uploading
  <2> QED BY <2>1, <2>2, <2>4 DEF ClientInv
<1>3. ASSUME NEW why \in Failures, FailAll(why) PROVE ClientInv'
  BY <1>1, <1>3, FailAllEarly, FailuresAreWords
<1> QED BY <1>2, <1>3 DEF CreateJob

\* The job is polled until it ends.
LEMMA PollJobKeeps == ASSUME ClientInv, PollJob PROVE ClientInv'
<1>1. tokens' \subseteq {"home"} /\ phase = "poll"
  BY SentStays DEF PollJob
<1>2. CASE /\ \E v \in [DOMAIN inputs -> FileVerdicts] : ends' = v
           /\ phase' = "file"
           /\ UNCHANGED <<inputs, late, uploaded, known, retained, budget, kinds, total, results, asked>>
  <2>1. ClientShape' /\ DOMAIN inputs = 1..Len(inputs) /\ Len(inputs) \in Nat
    BY <1>1, <1>2 DEF ClientInv, ClientShape, ClientPhases
  <2>2. UploadsInOrder' /\ BudgetLeft'
    BY <1>1, <1>2 DEF ClientInv, UploadsInOrder, BudgetLeft, Uploading
  <2>3. results = <<>> /\ results' = <<>> /\ phase' = "file" /\ inputs' = inputs
    BY <1>1, <1>2 DEF ClientInv, AnswersInOrder
  <2>4. Len(inputs) > 0
    BY <1>1, <2>1 DEF ClientInv, ClientShape, UploadsInOrder
  <2>5. AnswersInOrder'
    BY <1>2, <2>1, <2>3, <2>4 DEF AnswersInOrder, BeforeJob, Uploading
  <2> QED BY <2>1, <2>2, <2>5 DEF ClientInv
<1>3. CASE FailAll("protocol") /\ UNCHANGED asked
  BY <1>1, <1>3, FailAllKeeps DEF ClientInv, ClientShape, Whys
<1>4. CASE FailAll("timeout") /\ CancelJob
  BY <1>1, <1>4, FailAllKeeps DEF CancelJob, Whys
<1> QED BY <1>2, <1>3, <1>4 DEF PollJob, FileVerdicts

\* A poll that fails, or ends at the deadline, ends the call.
LEMMA PollFailsKeeps == ASSUME ClientInv, PollFails PROVE ClientInv'
BY SentStays, FailAllKeeps DEF PollFails, ClientInv, ClientShape, Whys

\* The answer to the next file.
LEMMA AnswerKeeps ==
  ASSUME ClientInv, phase \in {"file", "fetch"}, NEW a \in ClientAnswers, Answer(a),
         UNCHANGED <<inputs, late, uploaded, ends, known>>, tokens' \subseteq {"home"},
         asked' \in BOOLEAN, asked => asked', a = <<"err", "timeout">> => asked',
         a[1] = "ok" => a[2] = Len(results) + 1 /\ ends[Len(results) + 1] = "completed",
         retained' \in Nat, retained' <= OutputMax, total' \in Nat, budget' \in Int
  PROVE  ClientInv'
<1>1. /\ results \in Seq(ClientAnswers) /\ Len(results) \in Nat /\ Len(inputs) \in Nat
      /\ results' = Append(results, a) /\ Len(results) < Len(inputs)
  BY DEF ClientInv, ClientShape, AnswersInOrder, Answer
<1>2. results' \in Seq(ClientAnswers) /\ Len(results') = Len(results) + 1 /\ results'[Len(results) + 1] = a
  BY <1>1
<1>3. \A i \in 1..Len(results) : results'[i] = results[i]
  BY <1>1
<1>4. phase' = (IF Len(results') = Len(inputs) THEN "done" ELSE "file")
  BY <1>2 DEF Answer
<1>5. ClientShape'
  BY <1>2, <1>4 DEF ClientInv, ClientShape, ClientPhases
<1>6. UploadsInOrder'
  BY <1>4 DEF ClientInv, UploadsInOrder, Uploading
<1>7. ASSUME NEW i \in 1..Len(results') PROVE results'[i][1] = "ok" => results'[i][2] = i /\ ends'[i] = "completed"
  <2>1. CASE i \in 1..Len(results)
    BY <1>3, <2>1 DEF ClientInv, AnswersInOrder
  <2>2. CASE i = Len(results) + 1
    BY <1>2, <2>2
  <2> QED BY <1>1, <1>2, <2>1, <2>2
<1>8. known' /\ (\E i \in 1..Len(results') : results'[i] = <<"err", "timeout">>) => asked'
  <2> SUFFICES ASSUME known', NEW i \in 1..Len(results'), results'[i] = <<"err", "timeout">>
               PROVE  asked'
    OBVIOUS
  <2>1. CASE i \in 1..Len(results)
    BY <1>3, <2>1 DEF ClientInv, AnswersInOrder
  <2>2. CASE i = Len(results) + 1
    BY <1>2, <2>2
  <2> QED BY <1>1, <1>2, <2>1, <2>2
<1>9. AnswersInOrder'
  <2>1. ends' \in [1..Len(inputs') -> FileVerdicts]
    BY DEF ClientInv, AnswersInOrder
  <2> QED BY <1>1, <1>2, <1>4, <1>7, <1>8, <2>1 DEF AnswersInOrder, BeforeJob, Uploading
<1>10. BudgetLeft'
  BY <1>4 DEF BudgetLeft
<1> QED BY <1>5, <1>6, <1>9, <1>10 DEF ClientInv

\* The limits are numbers.
LEMMA BudgetIsNat == {NInputs, InputMax, JobInputMax, OutputMax, MetaSize} \subseteq Nat
BY ClientAssumption

\* The next file of the finished job is taken: its answer, or its artifacts.
LEMMA NextResultKeeps == ASSUME ClientInv, NextResult PROVE ClientInv'
<1> DEFINE i == Len(results) + 1
<1> USE DEF NextResult
<1>1. /\ phase = "file" /\ i \in 1..Len(inputs) /\ ends[i] \in FileVerdicts
      /\ retained \in Nat /\ retained <= OutputMax /\ total \in Nat /\ budget \in Int
      /\ results \in Seq(ClientAnswers) /\ tokens \subseteq {"home"} /\ asked \in BOOLEAN
  BY DEF ClientInv, ClientShape, AnswersInOrder, BudgetLeft
<1>2. CASE Answer(<<"err", ends[i]>>) /\ ends[i] # "completed" /\ UNCHANGED <<budget, kinds, total>>
  <2>1. ends[i] \in Whys /\ ends[i] # "timeout"
    BY <1>1, <1>2 DEF Whys, FileVerdicts
  <2>2. <<"err", ends[i]>> \in ClientAnswers /\ <<"err", ends[i]>>[1] # "ok" /\ <<"err", ends[i]>> # <<"err", "timeout">>
    BY <2>1, ErrAnswer
  <2> QED BY <1>1, <1>2, <2>2, AnswerKeeps
<1>3. CASE Answer(<<"err", "large">>) /\ UNCHANGED <<budget, kinds, total>>
  <2>1. <<"err", "large">> \in ClientAnswers /\ <<"err", "large">>[1] # "ok" /\ <<"err", "large">> # <<"err", "timeout">>
    BY ErrAnswer DEF Whys
  <2> QED BY <1>1, <1>3, <2>1, AnswerKeeps
<1>4. CASE /\ ends[i] = "completed" /\ ~(RemainingBudget < MetaSize)
           /\ budget' = RemainingBudget - MetaSize /\ total' = 0 /\ phase' = "fetch" /\ UNCHANGED results
  <2>1. budget' = OutputMax - retained - MetaSize /\ total' <= budget' /\ budget' \in Int /\ total' \in Nat
    BY <1>1, <1>4, BudgetIsNat DEF RemainingBudget
  <2>2. ClientShape'
    BY <1>4, <2>1 DEF ClientInv, ClientShape, ClientPhases
  <2>3. UploadsInOrder'
    BY <1>1, <1>4 DEF ClientInv, UploadsInOrder, Uploading
  <2>4. AnswersInOrder'
    BY <1>1, <1>4 DEF ClientInv, AnswersInOrder, Uploading, BeforeJob
  <2>5. BudgetLeft'
    BY <1>1, <2>1 DEF BudgetLeft
  <2> QED BY <2>2, <2>3, <2>4, <2>5 DEF ClientInv
<1> QED BY <1>2, <1>3, <1>4

\* An artifact is fetched within what is left of the memory.
LEMMA FetchKeeps == ASSUME ClientInv, FetchArtifact PROVE ClientInv'
<1>1. /\ phase = "fetch" /\ retained \in Nat /\ retained <= OutputMax /\ total \in Nat /\ budget \in Int
      /\ total <= budget /\ budget = OutputMax - retained - MetaSize
      /\ tokens \subseteq {"home"} /\ asked \in BOOLEAN
      /\ UNCHANGED <<inputs, late, uploaded, ends, known, retained, budget>>
  BY DEF ClientInv, ClientShape, BudgetLeft, FetchArtifact
<1>2. tokens' \subseteq {"home"}
  BY <1>1 DEF FetchArtifact, Sent
<1>3. ASSUME NEW why \in {"large", "protocol", "transport"}, Answer(<<"err", why>>), UNCHANGED <<total, asked>>
      PROVE ClientInv'
  <2>1. <<"err", why>> \in ClientAnswers /\ <<"err", why>>[1] # "ok" /\ <<"err", why>> # <<"err", "timeout">>
    BY ErrAnswer DEF Whys
  <2> QED BY <1>1, <1>2, <1>3, <2>1, AnswerKeeps
<1>4. CASE Answer(<<"err", "timeout">>) /\ CancelJob /\ UNCHANGED total
  <2>1. <<"err", "timeout">> \in ClientAnswers /\ <<"err", "timeout">>[1] # "ok"
    BY ErrAnswer DEF Whys
  <2>2. asked' = TRUE
    BY <1>4 DEF CancelJob
  <2> QED BY <1>1, <1>2, <1>4, <2>1, <2>2, AnswerKeeps
<1>5. ASSUME NEW bytes \in ArtifactSizes, bytes <= budget - total, total' = total + bytes,
             UNCHANGED <<phase, results, asked>>
      PROVE  ClientInv'
  <2>1. bytes \in Nat
    BY ClientAssumption
  <2>2. total' \in Nat /\ total' <= budget'
    BY <1>1, <1>5, <2>1
  <2>3. ClientShape'
    BY <1>1, <1>2, <1>5, <2>2 DEF ClientInv, ClientShape
  <2>4. UploadsInOrder' /\ AnswersInOrder'
    BY <1>1, <1>5 DEF ClientInv, UploadsInOrder, AnswersInOrder
  <2>5. BudgetLeft'
    BY <1>1, <1>5, <2>2 DEF BudgetLeft
  <2> QED BY <2>3, <2>4, <2>5 DEF ClientInv
<1> QED BY <1>3, <1>4, <1>5 DEF FetchArtifact

\* The artifacts of a file become its answer.
LEMMA FinishKeeps == ASSUME ClientInv, FinishResult PROVE ClientInv'
<1> DEFINE a == <<"ok", Len(results) + 1, total>>
<1>1. /\ phase = "fetch" /\ retained \in Nat /\ total \in Nat /\ budget \in Int
      /\ total <= budget /\ budget = OutputMax - retained - MetaSize
      /\ tokens \subseteq {"home"} /\ asked \in BOOLEAN /\ results \in Seq(ClientAnswers)
      /\ ends[Len(results) + 1] = "completed" /\ Answer(a) /\ retained' = retained + MetaSize + total
      /\ UNCHANGED <<inputs, late, uploaded, ends, known, asked, budget, total, tokens>>
  BY DEF ClientInv, ClientShape, BudgetLeft, AnswersInOrder, FinishResult
<1>2. a \in ClientAnswers /\ a[2] = Len(results) + 1 /\ a # <<"err", "timeout">>
  BY <1>1, OkAnswer
<1>3. retained' \in Nat /\ retained' <= OutputMax
  BY <1>1, BudgetIsNat
<1> HIDE DEF a
<1> QED BY <1>1, <1>2, <1>3, AnswerKeeps

\* The deadline and the server move by themselves.
LEMMA OthersKeep == ASSUME ClientInv, DeadlineEnds \/ RemoteJob \/ UNCHANGED clientVars PROVE ClientInv'
<1>1. /\ UNCHANGED <<inputs, phase, uploaded, ends, known, asked, retained, budget, kinds, total, results, tokens>>
      /\ late' \in BOOLEAN
  BY DEF DeadlineEnds, RemoteJob, clientVars, ClientInv, ClientShape
<1>2. ClientShape'
  BY <1>1 DEF ClientInv, ClientShape
<1>3. UploadsInOrder' /\ AnswersInOrder' /\ BudgetLeft'
  BY <1>1 DEF ClientInv, UploadsInOrder, AnswersInOrder, BudgetLeft
<1> QED BY <1>2, <1>3 DEF ClientInv

\* Every step of the client keeps its invariant.
LEMMA ClientStepKeeps == ClientInv /\ [ClientNext]_clientVars => ClientInv'
BY CheckKeeps, CreateUploadKeeps, PutUploadKeeps, CompleteUploadKeeps, CreateJobKeeps, PollJobKeeps,
   PollFailsKeeps, NextResultKeeps, FetchKeeps, FinishKeeps, OthersKeep
   DEF ClientNext, ClientStep

\* The client, for any number of inputs, of any sizes and under any limits: uploads are
\* in input order, answers belong to their inputs, and what a file may add is what the
\* files before it left (official_api/client.rs).
THEOREM ClientInvariant == ClientSpec => []ClientInv
BY ClientStarts, ClientStepKeeps, PTL DEF ClientSpec

\* One answer per input, each a file of that input, within the memory of the client, no
\* job it knows of left behind after a timeout, and no token sent to another host.
THEOREM ClientIsHonest == ClientSpec => []ClientHonest
<1>1. ClientInv => ClientHonest
  <2> SUFFICES ASSUME ClientInv PROVE ClientHonest
    OBVIOUS
  <2>1. DOMAIN results = 1..Len(results) /\ DOMAIN inputs = 1..Len(inputs) /\ tokens \subseteq {"home"}
    BY DEF ClientInv, ClientShape
  <2>2. retained + (IF phase = "fetch" THEN MetaSize + total ELSE 0) <= OutputMax
    BY BudgetIsNat DEF ClientInv, ClientShape, BudgetLeft
  <2>3. phase \in {"job", "poll", "file", "fetch"} => uploaded = [i \in DOMAIN inputs |-> i]
    BY <2>1 DEF ClientInv, ClientShape, UploadsInOrder
  <2> QED BY <2>1, <2>2, <2>3 DEF ClientHonest, ClientInv, AnswersInOrder
<1> QED BY <1>1, ClientInvariant, PTL

-----------------------------------------------------------------------------
(* The preparation of inputs, for every set of requests, of kinds asked for *)
(* and of drainers: a conversion that succeeds was vetted, its child has    *)
(* ended and no process or directory is left behind (ChildHonest); a drain  *)
(* that returned left no work running (DrainSound).                         *)
(*                                                                          *)
(* The invariant has two halves.  RequestOK tells the life of one request   *)
(* on its own record: what its child, its pipes and its answer can be at    *)
(* each point.  DrainStory relates the registries to the drains: an owner   *)
(* that is still running is waited for by some drain, once one has begun,   *)
(* and an image job is in the registry or in the hands of the one drain     *)
(* that holds the gate.  The second half needs of the first only that a     *)
(* registered owner is never waited for as an image job.                    *)
PrepFields == {"kind", "pc", "verdict", "clock", "child", "exit", "reaped", "killed", "kin", "pipes",
               "output", "failure", "canceled", "result", "dir"}

OfficeKinds == {"office", "legacy"}
EarlyPcs == {"new", "detect", "convert", "stage", "submit", "imaging", "spawn"}
HelperPcs == {"spawn", "select", "diagnose", "abort", "reap", "settled", "over"}

(* The child exited well, was awaited and closed its pipes; its bytes passed. *)
Vetted(p) == p.exit = "ok" /\ p.reaped /\ p.pipes = {} /\ p.output = "good"

(* Only some kinds get to some points. *)
KindsOK(p) ==
    /\ DOMAIN p = PrepFields
    /\ p.pc \in {"submit", "imaging"} => p.kind = "image"
    /\ p.pc \in {"detect", "convert", "diagnose", "validate"} => p.kind \in OfficeKinds
    /\ p.pc = "stage" => p.kind = "official"
    /\ p.pc \in HelperPcs => p.kind \in OfficeKinds \cup {"official"}

(* Where the child is. *)
ChildOK(p) ==
    /\ p.pc \in EarlyPcs => p.child = "none"
    /\ p.reaped => p.child = "exited"
    /\ p.exit = "ok" => p.child = "exited"
    /\ p.output = "good" => p.exit = "ok"
    /\ p.pc = "settled" => p.reaped /\ p.pipes = {}
    /\ p.pc \in {"select", "settled"} /\ p.kind = "official" /\ p.reaped => p.killed /\ ~p.kin
    /\ p.pc \in {"reap", "over", "validate", "done"} /\ p.child # "none" => p.killed /\ ~p.kin

(* What an answer stands for. *)
AnswerOK(p) ==
    /\ p.failure # "ok"
    /\ p.pc = "over" /\ p.result = "ok" => Vetted(p)
    /\ p.pc = "validate" => Vetted(p)
    /\ p.verdict = "ok" => p.pc = "done"
    /\ p.verdict = "ok" /\ p.kind \in OfficeKinds \cup {"official"} => Vetted(p)
    /\ p.dir => p.kind = "official" /\ p.pc \in HelperPcs \cup {"done"}
    /\ p.pc = "done" /\ p.dir => p.verdict = "ok"

RequestOK(p) == KindsOK(p) /\ ChildOK(p) /\ AnswerOK(p)

(* The registries and the drains. *)
OwnersOK ==
    /\ owners \subseteq {r \in Preps : Office(r) /\ prep[r].pc \in HelperPcs}
    /\ accepting => \A d \in Drainers : drain[d][1] = "idle"
    /\ ~accepting => \A r \in owners : \E d \in Drainers : drain[d][1] \in {"office", "join"} /\ r \in drain[d][2]
    /\ \A d \in Drainers : drain[d][1] \in {"idle", "done"} => drain[d][2] = {}

ImagesOK ==
    /\ imaging \subseteq {r \in Preps : prep[r].pc = "imaging"}
    /\ imageDraining => imaging = {}
    /\ \A d \in Drainers : drain[d][1] \in {"images", "done"} => imageDraining
    /\ \A d \in Drainers : drain[d][1] = "images" =>
          drainGate = d /\ \A r \in drain[d][2] : r \in Preps /\ prep[r].pc = "imaging"
    /\ \A r \in Preps : prep[r].pc = "imaging" =>
          r \in imaging \/ \E d \in Drainers : drain[d][1] = "images" /\ r \in drain[d][2]
    /\ (\E d \in Drainers : drain[d][1] = "done") => \A r \in Preps : prep[r].pc # "imaging"

DrainStory ==
    /\ DOMAIN drain = Drainers
    /\ \A d \in Drainers : drain[d][1] \in {"idle", "office", "join", "images", "done"}
    /\ OwnersOK /\ ImagesOK

PrepInv == DOMAIN prep = Preps /\ (\A r \in Preps : RequestOK(prep[r])) /\ DrainStory

-----------------------------------------------------------------------------
(* What a step of one request does to its record, as far as the rest of the  *)
(* program can tell.                                                         *)
Lives(p, q) ==
    /\ RequestOK(q) /\ q.kind = p.kind
    /\ p.kind \in OfficeKinds /\ p.pc \in HelperPcs => q.pc \in HelperPcs
    /\ p.pc = "imaging" <=> q.pc = "imaging"

(* A step of a request that leaves the registries and the drains alone. *)
Alone(r) ==
    /\ DOMAIN prep' = Preps /\ (\A s \in Preps \ {r} : prep'[s] = prep[s])
    /\ Lives(prep[r], prep'[r])
    /\ UNCHANGED <<officeRegistry, imageRegistry, drain>>

(* Put changes one record, in the fields it names (the records of requests). *)
LEMMA PutChanges ==
    ASSUME NEW r \in Preps, NEW rec, DOMAIN prep = Preps, Put(r, rec)
    PROVE  /\ DOMAIN prep' = Preps /\ \A s \in Preps \ {r} : prep'[s] = prep[s]
           /\ prep'[r] = With(prep[r], rec)
  BY DEF Put

USE DEF Office, PrepReturn

LEMMA BeforeHelper ==
    ASSUME NEW r \in Preps, DOMAIN prep = Preps, RequestOK(prep[r]),
           \/ PrepareInput(r) \/ PrepareLegacy(r) \/ Detect(r) \/ StageInput(r)
    PROVE  Alone(r)
  <1> USE DEF RequestOK, KindsOK, ChildOK, AnswerOK, Vetted, Lives, Alone, PrepFields, OfficeKinds, EarlyPcs, HelperPcs, With, Put
  <1>1. CASE PrepareInput(r)
    <2> USE <1>1 DEF PrepareInput
    <2>1. CASE Put(r, [pc |-> "done", verdict |-> "refused"])
      BY <2>1
    <2>2. CASE prep[r].kind = "pdf" /\ \E v \in {"ok", "mismatch"} : PrepReturn(r, v)
      <3>1. CASE Put(r, [pc |-> "done", verdict |-> "ok"])
        BY <3>1, <2>2
      <3>2. CASE Put(r, [pc |-> "done", verdict |-> "mismatch"])
        BY <3>2, <2>2
      <3> QED
        BY <2>2, <3>1, <3>2
    <2>3. CASE prep[r].kind = "office" /\ Put(r, [pc |-> "detect"])
      BY <2>3
    <2>4. CASE prep[r].kind = "image" /\ Put(r, [pc |-> "submit"])
      BY <2>4
    <2>5. CASE prep[r].kind = "official" /\ Put(r, [pc |-> "stage"])
      BY <2>5
    <2> QED
      BY <2>1, <2>2, <2>3, <2>4, <2>5
  <1>2. CASE PrepareLegacy(r)
    BY <1>2 DEF PrepareLegacy
  <1>3. CASE Detect(r)
    <2> USE <1>3 DEF Detect
    <2>1. CASE Put(r, [pc |-> "done", verdict |-> "mismatch"])
      BY <2>1
    <2>2. CASE Put(r, [pc |-> "done", verdict |-> "timeout"])
      BY <2>2
    <2>3. CASE Put(r, [pc |-> "convert"])
      BY <2>3
    <2> QED
      BY <2>1, <2>2, <2>3
  <1>4. CASE StageInput(r)
    BY <1>4 DEF StageInput
  <1> QED
    BY <1>1, <1>2, <1>3, <1>4

LEMMA ChildBegins ==
    ASSUME NEW r \in Preps, DOMAIN prep = Preps, RequestOK(prep[r]),
           SpawnHelper(r) \/ SpawnPython(r)
    PROVE  Alone(r)
  <1> USE DEF RequestOK, KindsOK, ChildOK, AnswerOK, Vetted, Lives, Alone, PrepFields, OfficeKinds, EarlyPcs, HelperPcs, With, Put
  <1> USE DEF SpawnHelper, SpawnPython, NotStarted, Started
  <1>1. CASE Put(r, NotStarted)
    BY <1>1
  <1>2. ASSUME NEW kin \in BOOLEAN, Put(r, Started(kin))
        PROVE  Alone(r)
    BY <1>2
  <1> QED
    BY <1>1, <1>2

(* Outside the program, the clock and a wait that comes late. *)
LEMMA OutsideSteps ==
    ASSUME NEW r \in Preps, DOMAIN prep = Preps, RequestOK(prep[r]),
           ChildEnds(r) \/ ClockMoves(r) \/ ReapLate(r)
    PROVE  Alone(r)
  <1> USE DEF RequestOK, KindsOK, ChildOK, AnswerOK, Vetted, Lives, Alone, PrepFields, OfficeKinds, EarlyPcs, HelperPcs, With, Put
  <1>1. CASE ChildEnds(r)
    <2>1. PICK e \in {"ok", "bad"} : Put(r, [child |-> "exited", exit |-> e])
      BY <1>1 DEF ChildEnds
    <2> QED
      BY <1>1, <2>1 DEF ChildEnds
  <1>2. CASE ClockMoves(r)
    BY <1>2 DEF ClockMoves
  <1>3. CASE ReapLate(r)
    BY <1>3 DEF ReapLate
  <1> QED
    BY <1>1, <1>2, <1>3

LEMMA ChildIsWaited ==
    ASSUME NEW r \in Preps, DOMAIN prep = Preps, RequestOK(prep[r]),
           HelperWaited(r) \/ PythonWaited(r)
    PROVE  Alone(r)
  <1> USE DEF RequestOK, KindsOK, ChildOK, AnswerOK, Vetted, Lives, Alone, PrepFields, OfficeKinds, EarlyPcs, HelperPcs, With, Put
  <1> USE DEF Onward, Settled, PrepFail, Killed, KillGroup
  <1>1. CASE HelperWaited(r)
    <2>1. CASE prep[r].exit = "bad"
      BY <1>1, <2>1 DEF HelperWaited
    <2>2. CASE prep[r].exit # "bad"
      BY <1>1, <2>2 DEF HelperWaited
    <2> QED
      BY <2>1, <2>2
  <1>2. CASE PythonWaited(r)
    BY <1>2 DEF PythonWaited
  <1> QED
    BY <1>1, <1>2

LEMMA PipeIsDone ==
    ASSUME NEW r \in Preps, DOMAIN prep = Preps, RequestOK(prep[r]),
           NEW p \in {"in", "out", "err"}, PipeEnds(r, p)
    PROVE  Alone(r)
  <1> USE DEF RequestOK, KindsOK, ChildOK, AnswerOK, Vetted, Lives, Alone, PrepFields, OfficeKinds, EarlyPcs, HelperPcs, With, Put
  <1> USE DEF PipeEnds, Onward, Settled, PrepFail, Closed
  <1> DEFINE rest == [prep[r] EXCEPT !.pipes = @ \ {p}]
  <1>1. CASE Onward(r, rest)
    BY <1>1
  <1>2. ASSUME NEW o \in {"good", "bad"}, o = "good" => prep[r].exit = "ok", Onward(r, [rest EXCEPT !.output = o])
        PROVE  Alone(r)
    BY <1>2
  <1>3. CASE Put(r, With(rest, PrepFail(r, "pipe")))
    BY <1>3
  <1>4. \/ Onward(r, rest)
        \/ \E o \in {"good", "bad"} : (o = "good" => prep[r].exit = "ok") /\ Onward(r, [rest EXCEPT !.output = o])
        \/ Put(r, With(rest, PrepFail(r, "pipe")))
    <2> HIDE DEF Onward, Put, With, PrepFail
    <2> QED
      OBVIOUS
  <1> QED
    BY <1>1, <1>2, <1>3, <1>4

LEMMA LoopFails ==
    ASSUME NEW r \in Preps, DOMAIN prep = Preps, RequestOK(prep[r]),
           ExpireChild(r) \/ SeeCancel(r) \/ Diagnose(r)
    PROVE  Alone(r)
  <1> USE DEF RequestOK, KindsOK, ChildOK, AnswerOK, Vetted, Lives, Alone, PrepFields, OfficeKinds, EarlyPcs, HelperPcs, With, Put
  <1> USE DEF PrepFail
  <1>1. CASE ExpireChild(r)
    BY <1>1 DEF ExpireChild
  <1>2. CASE SeeCancel(r)
    BY <1>2 DEF SeeCancel
  <1>3. CASE Diagnose(r)
    BY <1>3 DEF Diagnose
  <1> QED
    BY <1>1, <1>2, <1>3

LEMMA ChildIsStopped ==
    ASSUME NEW r \in Preps, DOMAIN prep = Preps, RequestOK(prep[r]),
           AbortHelper(r) \/ AbortPython(r) \/ ReapHelper(r) \/ ReapPython(r)
    PROVE  Alone(r)
  <1> USE DEF RequestOK, KindsOK, ChildOK, AnswerOK, Vetted, Lives, Alone, PrepFields, OfficeKinds, EarlyPcs, HelperPcs, With, Put
  <1>1. CASE AbortHelper(r)
    BY <1>1 DEF AbortHelper, Killed, KillGroup
  <1>2. CASE AbortPython(r)
    BY <1>2 DEF AbortPython, Killed, KillGroup
  <1>3. CASE ReapHelper(r)
    BY <1>3 DEF ReapHelper, Reaped
  <1>4. CASE ReapPython(r)
    BY <1>4 DEF ReapPython, Reaped
  <1> QED
    BY <1>1, <1>2, <1>3, <1>4

LEMMA AnswerIsVetted ==
    ASSUME NEW r \in Preps, DOMAIN prep = Preps, RequestOK(prep[r]),
           VetOutput(r) \/ ReadAnswer(r) \/ ValidatePrepared(r) \/ OfficialAnswers(r)
    PROVE  Alone(r)
  <1> USE DEF RequestOK, KindsOK, ChildOK, AnswerOK, Vetted, Lives, Alone, PrepFields, OfficeKinds, EarlyPcs, HelperPcs, With, Put
  <1>1. CASE VetOutput(r)
    BY <1>1 DEF VetOutput, Killed, KillGroup
  <1>2. CASE ReadAnswer(r)
    BY <1>2 DEF ReadAnswer
  <1>3. CASE ValidatePrepared(r)
    <2>1. PICK v \in {"refused", "timeout", "ok"} : Put(r, [pc |-> "done", verdict |-> v])
      BY <1>3 DEF ValidatePrepared
    <2> QED
      BY <1>3, <2>1 DEF ValidatePrepared
  <1>4. CASE OfficialAnswers(r)
    BY <1>4 DEF OfficialAnswers
  <1> QED
    BY <1>1, <1>2, <1>3, <1>4

LEMMA CallerGoes ==
    ASSUME NEW r \in Preps, DOMAIN prep = Preps, RequestOK(prep[r]), CallerLeaves(r),
           r \in owners => prep[r].pc \in HelperPcs
    PROVE  Alone(r)
  <1> USE DEF RequestOK, KindsOK, ChildOK, AnswerOK, Vetted, Lives, Alone, PrepFields, OfficeKinds, EarlyPcs, HelperPcs, With, Put
  <1>1. CASE Put(r, [verdict |-> "gone", canceled |-> TRUE]) /\ Office(r) /\ r \in owners
    BY <1>1 DEF CallerLeaves
  <1>2. CASE prep[r].kind = "official" /\ prep[r].pc \in {"select", "reap"}
             /\ Put(r, With(Killed(r), [pc |-> "done", verdict |-> "gone", dir |-> FALSE, pipes |-> {}]))
    BY <1>2 DEF CallerLeaves, Killed, KillGroup
  <1> QED
    BY <1>1, <1>2 DEF CallerLeaves

-----------------------------------------------------------------------------
(* The steps that touch the registries: what they do to the record first.    *)
LEMMA RegisterLives ==
    ASSUME NEW r \in Preps, DOMAIN prep = Preps, RequestOK(prep[r]), Register(r)
    PROVE  /\ DOMAIN prep' = Preps /\ \A s \in Preps \ {r} : prep'[s] = prep[s]
           /\ RequestOK(prep'[r]) /\ prep'[r].kind = prep[r].kind /\ prep[r].kind \in OfficeKinds
           /\ prep[r].pc = "convert"
           /\ prep'[r].pc = IF accepting THEN "spawn" ELSE "done"
  <1> USE DEF RequestOK, KindsOK, ChildOK, AnswerOK, Vetted, Lives, PrepFields, OfficeKinds, EarlyPcs, HelperPcs, With, Put
  <1>1. CASE accepting
    BY <1>1 DEF Register
  <1>2. CASE ~accepting
    BY <1>2 DEF Register
  <1> QED
    BY <1>1, <1>2

LEMMA OwnerEndsLives ==
    ASSUME NEW r \in Preps, DOMAIN prep = Preps, RequestOK(prep[r]), OwnerEnds(r)
    PROVE  /\ DOMAIN prep' = Preps /\ \A s \in Preps \ {r} : prep'[s] = prep[s]
           /\ RequestOK(prep'[r]) /\ prep'[r].kind = prep[r].kind
           /\ prep[r].pc = "over" /\ prep'[r].pc # "imaging"
  <1> USE DEF RequestOK, KindsOK, ChildOK, AnswerOK, Vetted, Lives, PrepFields, OfficeKinds, EarlyPcs, HelperPcs, With, Put
  <1> USE DEF OwnerEnds
  <1>1. CASE prep[r].verdict # "none"
    BY <1>1
  <1>2. CASE prep[r].verdict = "none" /\ prep[r].result = "ok"
    BY <1>2
  <1>3. CASE prep[r].verdict = "none" /\ prep[r].result # "ok"
    BY <1>3
  <1> QED
    BY <1>1, <1>2, <1>3

LEMMA SubmitLives ==
    ASSUME NEW r \in Preps, DOMAIN prep = Preps, RequestOK(prep[r]), SubmitImage(r)
    PROVE  /\ DOMAIN prep' = Preps /\ \A s \in Preps \ {r} : prep'[s] = prep[s]
           /\ RequestOK(prep'[r]) /\ prep'[r].kind = prep[r].kind /\ prep[r].kind = "image"
           /\ prep[r].pc = "submit" /\ prep'[r].pc = IF imageDraining THEN "done" ELSE "imaging"
  <1> USE DEF RequestOK, KindsOK, ChildOK, AnswerOK, Vetted, Lives, PrepFields, OfficeKinds, EarlyPcs, HelperPcs, With, Put
  <1>1. CASE imageDraining
    BY <1>1 DEF SubmitImage
  <1>2. CASE ~imageDraining
    BY <1>2 DEF SubmitImage
  <1> QED
    BY <1>1, <1>2

LEMMA ImageDoneLives ==
    ASSUME NEW r \in Preps, DOMAIN prep = Preps, RequestOK(prep[r]), ImageDone(r)
    PROVE  /\ DOMAIN prep' = Preps /\ \A s \in Preps \ {r} : prep'[s] = prep[s]
           /\ RequestOK(prep'[r]) /\ prep'[r].kind = prep[r].kind /\ prep[r].kind = "image"
           /\ prep[r].pc = "imaging" /\ prep'[r].pc = "done"
  <1> USE DEF RequestOK, KindsOK, ChildOK, AnswerOK, Vetted, Lives, PrepFields, OfficeKinds, EarlyPcs, HelperPcs, With, Put
  <1>1. PICK v \in {"refused", "timeout", "ok"} : Put(r, [pc |-> "done", verdict |-> v])
    BY DEF ImageDone
  <1> QED
    BY <1>1 DEF ImageDone

-----------------------------------------------------------------------------
(* A step of one request that leaves the registries alone keeps the rest.    *)
LEMMA AloneKeeps ==
    ASSUME PrepInv, NEW r \in Preps, Alone(r)
    PROVE  PrepInv'
  <1>1. DOMAIN prep' = Preps /\ \A s \in Preps : RequestOK(prep'[s])
    BY DEF PrepInv, Alone, Lives
  <1>2. \A s \in Preps : prep'[s].kind = prep[s].kind
    BY DEF Alone, Lives
  <1>3. \A s \in Preps : prep[s].kind \in OfficeKinds /\ prep[s].pc \in HelperPcs => prep'[s].pc \in HelperPcs
    BY DEF Alone, Lives
  <1>4. \A s \in Preps : (prep[s].pc = "imaging") <=> (prep'[s].pc = "imaging")
    BY DEF Alone, Lives
  <1>5. /\ accepting' = accepting /\ owners' = owners /\ imaging' = imaging
        /\ imageDraining' = imageDraining /\ drainGate' = drainGate /\ drain' = drain
    BY DEF Alone, officeRegistry, imageRegistry
  <1>6. owners' \subseteq {s \in Preps : Office(s)' /\ prep'[s].pc \in HelperPcs}
    BY <1>2, <1>3, <1>5 DEF PrepInv, DrainStory, OwnersOK, OfficeKinds
  <1>7. OwnersOK'
    BY <1>5, <1>6 DEF PrepInv, DrainStory, OwnersOK
  <1>8. ImagesOK'
    BY <1>4, <1>5 DEF PrepInv, DrainStory, ImagesOK
  <1> QED
    BY <1>1, <1>5, <1>7, <1>8 DEF PrepInv, DrainStory

LEMMA RegisterKeeps ==
    ASSUME PrepInv, NEW r \in Preps, Register(r)
    PROVE  PrepInv'
  <1>1. /\ DOMAIN prep' = Preps /\ \A s \in Preps \ {r} : prep'[s] = prep[s]
        /\ RequestOK(prep'[r]) /\ prep'[r].kind = prep[r].kind /\ prep[r].kind \in OfficeKinds
        /\ prep[r].pc = "convert"
        /\ prep'[r].pc = IF accepting THEN "spawn" ELSE "done"
    BY RegisterLives DEF PrepInv
  <1>2. /\ accepting' = accepting /\ UNCHANGED <<imaging, imageDraining, drainGate, drain>>
        /\ owners' = IF accepting THEN owners \cup {r} ELSE owners
    BY DEF Register, imageRegistry
  <1>3. r \notin owners
    BY <1>1 DEF PrepInv, DrainStory, OwnersOK, HelperPcs
  <1>4. OwnersOK'
    BY <1>1, <1>2, <1>3 DEF PrepInv, DrainStory, OwnersOK, OfficeKinds, HelperPcs
  <1>5. ImagesOK'
    BY <1>1, <1>2 DEF PrepInv, DrainStory, ImagesOK
  <1>6. \A s \in Preps : RequestOK(prep'[s])
    BY <1>1 DEF PrepInv
  <1> QED
    BY <1>1, <1>2, <1>4, <1>5, <1>6 DEF PrepInv, DrainStory

LEMMA SubmitKeeps ==
    ASSUME PrepInv, NEW r \in Preps, SubmitImage(r)
    PROVE  PrepInv'
  <1>1. /\ DOMAIN prep' = Preps /\ \A s \in Preps \ {r} : prep'[s] = prep[s]
        /\ RequestOK(prep'[r]) /\ prep'[r].kind = prep[r].kind /\ prep[r].kind = "image"
        /\ prep[r].pc = "submit" /\ prep'[r].pc = IF imageDraining THEN "done" ELSE "imaging"
    BY SubmitLives DEF PrepInv
  <1>2. /\ UNCHANGED <<accepting, owners, imageDraining, drainGate, drain>>
        /\ imaging' = IF imageDraining THEN imaging ELSE imaging \cup {r}
    BY DEF SubmitImage, officeRegistry
  <1>3. r \notin owners
    BY <1>1 DEF PrepInv, DrainStory, OwnersOK, HelperPcs
  <1>4. OwnersOK'
    BY <1>1, <1>2, <1>3 DEF PrepInv, DrainStory, OwnersOK
  <1>5. ImagesOK'
    BY <1>1, <1>2 DEF PrepInv, DrainStory, ImagesOK
  <1>6. \A s \in Preps : RequestOK(prep'[s])
    BY <1>1 DEF PrepInv
  <1> QED
    BY <1>1, <1>2, <1>4, <1>5, <1>6 DEF PrepInv, DrainStory

(* A task that ends is taken out of the registry and out of every wait.      *)
LEMMA WaitsShrink ==
    ASSUME NEW r, drain' = [d \in Drainers |-> <<drain[d][1], drain[d][2] \ {r}>>]
    PROVE  DOMAIN drain' = Drainers /\ \A d \in Drainers : drain'[d][1] = drain[d][1] /\ drain'[d][2] = drain[d][2] \ {r}
  OBVIOUS

LEMMA OwnerEndsKeeps ==
    ASSUME PrepInv, NEW r \in Preps, OwnerEnds(r)
    PROVE  PrepInv'
  <1>1. /\ DOMAIN prep' = Preps /\ \A s \in Preps \ {r} : prep'[s] = prep[s]
        /\ RequestOK(prep'[r]) /\ prep'[r].kind = prep[r].kind
        /\ prep[r].pc = "over" /\ prep'[r].pc # "imaging"
    BY OwnerEndsLives DEF PrepInv
  <1>2. DOMAIN drain' = Drainers /\ \A d \in Drainers : drain'[d][1] = drain[d][1] /\ drain'[d][2] = drain[d][2] \ {r}
    BY WaitsShrink DEF OwnerEnds
  <1>3. owners' = owners \ {r} /\ UNCHANGED <<accepting, imaging, imageDraining, drainGate>>
    BY DEF OwnerEnds, imageRegistry
  <1>4. OwnersOK'
    BY <1>1, <1>2, <1>3 DEF PrepInv, DrainStory, OwnersOK
  <1>5. ImagesOK'
    BY <1>1, <1>2, <1>3 DEF PrepInv, DrainStory, ImagesOK
  <1>6. \A s \in Preps : RequestOK(prep'[s])
    BY <1>1 DEF PrepInv
  <1> QED
    BY <1>1, <1>2, <1>4, <1>5, <1>6 DEF PrepInv, DrainStory

LEMMA ImageDoneKeeps ==
    ASSUME PrepInv, NEW r \in Preps, ImageDone(r)
    PROVE  PrepInv'
  <1>1. /\ DOMAIN prep' = Preps /\ \A s \in Preps \ {r} : prep'[s] = prep[s]
        /\ RequestOK(prep'[r]) /\ prep'[r].kind = prep[r].kind /\ prep[r].kind = "image"
        /\ prep[r].pc = "imaging" /\ prep'[r].pc = "done"
    BY ImageDoneLives DEF PrepInv
  <1>2. DOMAIN drain' = Drainers /\ \A d \in Drainers : drain'[d][1] = drain[d][1] /\ drain'[d][2] = drain[d][2] \ {r}
    BY WaitsShrink DEF ImageDone
  <1>3. imaging' = imaging \ {r} /\ UNCHANGED <<accepting, owners, imageDraining, drainGate>>
    BY DEF ImageDone, officeRegistry
  <1>4. r \notin owners
    BY <1>1 DEF PrepInv, DrainStory, OwnersOK, HelperPcs
  <1>5. OwnersOK'
    BY <1>1, <1>2, <1>3, <1>4 DEF PrepInv, DrainStory, OwnersOK
  <1>6. ImagesOK'
    BY <1>1, <1>2, <1>3 DEF PrepInv, DrainStory, ImagesOK
  <1>7. \A s \in Preps : RequestOK(prep'[s])
    BY <1>1 DEF PrepInv
  <1> QED
    BY <1>1, <1>2, <1>5, <1>6, <1>7 DEF PrepInv, DrainStory

-----------------------------------------------------------------------------
(* The drains.  The first one stops the registry and takes the owners no     *)
(* other drain waits for; cancelling changes no more than a flag.            *)
LEMMA DrainOfficeKeeps ==
    ASSUME PrepInv, NEW d \in Drainers, DrainOffice(d)
    PROVE  PrepInv'
  <1>1. DOMAIN prep' = Preps /\ \A s \in Preps : prep'[s] = prep[s] \/ prep'[s] = [prep[s] EXCEPT !.canceled = TRUE]
    BY DEF DrainOffice
  <1>2. \A s \in Preps : RequestOK(prep'[s]) /\ prep'[s].kind = prep[s].kind /\ prep'[s].pc = prep[s].pc
    <2> SUFFICES ASSUME NEW s \in Preps
                 PROVE  RequestOK(prep'[s]) /\ prep'[s].kind = prep[s].kind /\ prep'[s].pc = prep[s].pc
      OBVIOUS
    <2>1. RequestOK(prep[s])
      BY DEF PrepInv
    <2> QED
      BY <1>1, <2>1 DEF RequestOK, KindsOK, ChildOK, AnswerOK, Vetted, PrepFields
  <1>3. /\ accepting' = FALSE /\ owners' = owners /\ imaging' = imaging
        /\ imageDraining' = imageDraining /\ drainGate' = drainGate
    BY DEF DrainOffice, imageRegistry
  <1>4. /\ drain[d][1] = "idle" /\ DOMAIN drain' = Drainers /\ drain'[d][1] = "office"
        /\ drain'[d][2] = owners \ UNION {drain[e][2] : e \in Drainers}
        /\ \A e \in Drainers \ {d} : drain'[e] = drain[e]
    BY DEF DrainOffice, Step, PrepInv, DrainStory
  <1>5. ASSUME NEW r \in owners
        PROVE  \E e \in Drainers : drain'[e][1] \in {"office", "join"} /\ r \in drain'[e][2]
    <2>1. CASE \A e \in Drainers : r \notin drain[e][2]
      BY <1>4, <2>1
    <2>2. ASSUME NEW e \in Drainers, r \in drain[e][2]
          PROVE  e # d /\ drain[e][1] \in {"office", "join"}
      <3>1. drain[e][1] \notin {"idle", "done"}
        BY <2>2 DEF PrepInv, DrainStory, OwnersOK
      <3>2. drain[e][1] # "images"
        BY <2>2 DEF PrepInv, DrainStory, OwnersOK, ImagesOK, HelperPcs
      <3> QED
        BY <1>4, <3>1, <3>2 DEF PrepInv, DrainStory
    <2> QED
      BY <1>4, <2>1, <2>2
  <1>6. OwnersOK'
    BY <1>2, <1>3, <1>4, <1>5 DEF PrepInv, DrainStory, OwnersOK
  <1>7. ImagesOK'
    BY <1>2, <1>3, <1>4 DEF PrepInv, DrainStory, ImagesOK
  <1> QED
    BY <1>1, <1>2, <1>4, <1>6, <1>7 DEF PrepInv, DrainStory

LEMMA DrainReleaseKeeps ==
    ASSUME PrepInv, NEW d \in Drainers, DrainRelease(d)
    PROVE  PrepInv'
  <1>1. /\ prep' = prep /\ accepting' = accepting /\ owners' = owners /\ imaging' = imaging
        /\ imageDraining' = imageDraining /\ drainGate' = drainGate
    BY DEF DrainRelease, imageRegistry
  <1>2. /\ drain[d][1] = "office" /\ DOMAIN drain' = Drainers
        /\ drain'[d][1] = "join" /\ drain'[d][2] = drain[d][2]
        /\ \A e \in Drainers \ {d} : drain'[e] = drain[e]
    BY DEF DrainRelease, Step, PrepInv, DrainStory
  <1>3. OwnersOK'
    BY <1>1, <1>2 DEF PrepInv, DrainStory, OwnersOK
  <1>4. ImagesOK'
    BY <1>1, <1>2 DEF PrepInv, DrainStory, ImagesOK
  <1> QED
    BY <1>1, <1>2, <1>3, <1>4 DEF PrepInv, DrainStory

(* The image drain holds the gate, so nobody else waits for image jobs.      *)
LEMMA DrainImagesKeeps ==
    ASSUME PrepInv, NEW d \in Drainers, DrainImages(d)
    PROVE  PrepInv'
  <1>1. /\ prep' = prep /\ accepting' = accepting /\ owners' = owners /\ imaging' = {}
        /\ imageDraining' = TRUE /\ drainGate' = d /\ drainGate = "free"
    BY DEF DrainImages, officeRegistry
  <1>2. /\ drain[d][1] = "join" /\ drain[d][2] = {} /\ DOMAIN drain' = Drainers
        /\ drain'[d][1] = "images" /\ drain'[d][2] = imaging
        /\ \A e \in Drainers \ {d} : drain'[e] = drain[e]
    BY DEF DrainImages, Step, PrepInv, DrainStory
  <1>3. OwnersOK'
    BY <1>1, <1>2 DEF PrepInv, DrainStory, OwnersOK
  <1>4. \A e \in Drainers : drain[e][1] # "images"
    BY <1>1, PrepAssumption DEF PrepInv, DrainStory, ImagesOK
  <1>5. ImagesOK'
    BY <1>1, <1>2, <1>4 DEF PrepInv, DrainStory, ImagesOK
  <1> QED
    BY <1>1, <1>2, <1>3, <1>5 DEF PrepInv, DrainStory

LEMMA DrainReturnsKeeps ==
    ASSUME PrepInv, NEW d \in Drainers, DrainReturns(d)
    PROVE  PrepInv'
  <1>1. /\ prep' = prep /\ accepting' = accepting /\ owners' = owners /\ imaging' = imaging
        /\ imageDraining' = imageDraining
    BY DEF DrainReturns, officeRegistry
  <1>2. /\ drain[d][1] = "images" /\ drain[d][2] = {} /\ DOMAIN drain' = Drainers
        /\ drain'[d][1] = "done" /\ drain'[d][2] = {}
        /\ \A e \in Drainers \ {d} : drain'[e] = drain[e]
    BY DEF DrainReturns, Step, PrepInv, DrainStory
  <1>3. OwnersOK'
    BY <1>1, <1>2 DEF PrepInv, DrainStory, OwnersOK
  <1>4. \A e \in Drainers \ {d} : drain[e][1] # "images"
    BY <1>2 DEF PrepInv, DrainStory, ImagesOK
  <1>5. \A r \in Preps : prep[r].pc # "imaging"
    BY <1>2, <1>4 DEF PrepInv, DrainStory, ImagesOK
  <1>6. ImagesOK'
    BY <1>1, <1>2, <1>4, <1>5 DEF PrepInv, DrainStory, ImagesOK
  <1> QED
    BY <1>1, <1>2, <1>3, <1>6 DEF PrepInv, DrainStory

-----------------------------------------------------------------------------
LEMMA PrepStarts == PrepInit => PrepInv
  <1> SUFFICES ASSUME PrepInit PROVE PrepInv
    OBVIOUS
  <1>1. PICK k \in PrepKinds : prep = [r \in Preps |-> Fresh(k[r])]
    BY DEF PrepInit
  <1>2. \A r \in Preps : RequestOK(prep[r]) /\ prep[r].pc \in {"new", "done"}
    <2> SUFFICES ASSUME NEW r \in Preps
                 PROVE  RequestOK(Fresh(k[r])) /\ Fresh(k[r]).pc \in {"new", "done"}
      BY <1>1
    <2> QED
      BY DEF Fresh, RequestOK, KindsOK, ChildOK, AnswerOK, Vetted, PrepFields, EarlyPcs, HelperPcs, OfficeKinds
  <1>3. DOMAIN drain = Drainers /\ \A d \in Drainers : drain[d][1] = "idle" /\ drain[d][2] = {}
    BY DEF PrepInit
  <1>4. OwnersOK
    BY <1>3 DEF PrepInit, OwnersOK
  <1>5. ImagesOK
    BY <1>2, <1>3 DEF PrepInit, ImagesOK
  <1> QED
    BY <1>1, <1>2, <1>3, <1>4, <1>5 DEF PrepInv, DrainStory

LEMMA PrepStepKeeps ==
    ASSUME PrepInv, NEW r \in Preps, PrepStep(r) \/ ChildEnds(r) \/ ClockMoves(r) \/ CallerLeaves(r) \/ ReapLate(r)
    PROVE  PrepInv'
  <1>1. DOMAIN prep = Preps /\ RequestOK(prep[r]) /\ (r \in owners => prep[r].pc \in HelperPcs)
    BY DEF PrepInv, DrainStory, OwnersOK
  <1>2. CASE PrepareInput(r) \/ PrepareLegacy(r) \/ Detect(r) \/ StageInput(r)
    BY <1>1, <1>2, BeforeHelper, AloneKeeps
  <1>3. CASE SpawnHelper(r) \/ SpawnPython(r)
    BY <1>1, <1>3, ChildBegins, AloneKeeps
  <1>4. CASE ChildEnds(r) \/ ClockMoves(r) \/ ReapLate(r)
    BY <1>1, <1>4, OutsideSteps, AloneKeeps
  <1>5. CASE HelperWaited(r) \/ PythonWaited(r)
    BY <1>1, <1>5, ChildIsWaited, AloneKeeps
  <1>6. ASSUME NEW p \in {"in", "out", "err"}, PipeEnds(r, p)
        PROVE  PrepInv'
    BY <1>1, <1>6, PipeIsDone, AloneKeeps
  <1>7. CASE ExpireChild(r) \/ SeeCancel(r) \/ Diagnose(r)
    BY <1>1, <1>7, LoopFails, AloneKeeps
  <1>8. CASE AbortHelper(r) \/ AbortPython(r) \/ ReapHelper(r) \/ ReapPython(r)
    BY <1>1, <1>8, ChildIsStopped, AloneKeeps
  <1>9. CASE VetOutput(r) \/ ReadAnswer(r) \/ ValidatePrepared(r) \/ OfficialAnswers(r)
    BY <1>1, <1>9, AnswerIsVetted, AloneKeeps
  <1>10. CASE CallerLeaves(r)
    BY <1>1, <1>10, CallerGoes, AloneKeeps
  <1>11. CASE Register(r)
    BY <1>11, RegisterKeeps
  <1>12. CASE OwnerEnds(r)
    BY <1>12, OwnerEndsKeeps
  <1>13. CASE SubmitImage(r)
    BY <1>13, SubmitKeeps
  <1>14. CASE ImageDone(r)
    BY <1>14, ImageDoneKeeps
  <1> QED
    BY <1>2, <1>3, <1>4, <1>5, <1>6, <1>7, <1>8, <1>9, <1>10, <1>11, <1>12, <1>13, <1>14 DEF PrepStep

(* The invariant of the requests, their children and the two drains          *)
(* (input_prepare.rs, office_workers.rs, official_worker.rs).                *)
THEOREM PreparationInvariant == PrepSpec => []PrepInv
  <1>1. PrepInit => PrepInv
    BY PrepStarts
  <1>2. PrepInv /\ [PrepNext]_prepVars => PrepInv'
    <2> SUFFICES ASSUME PrepInv, [PrepNext]_prepVars PROVE PrepInv'
      OBVIOUS
    <2>1. ASSUME NEW r \in Preps, PrepStep(r) \/ ChildEnds(r) \/ ClockMoves(r) \/ CallerLeaves(r) \/ ReapLate(r)
          PROVE  PrepInv'
      BY <2>1, PrepStepKeeps
    <2>2. ASSUME NEW d \in Drainers, DrainOffice(d) \/ DrainStep(d)
          PROVE  PrepInv'
      BY <2>2, DrainOfficeKeeps, DrainReleaseKeeps, DrainImagesKeeps, DrainReturnsKeeps DEF DrainStep
    <2>3. CASE UNCHANGED prepVars
      BY <2>3 DEF prepVars, PrepInv, DrainStory, OwnersOK, ImagesOK
    <2> QED
      BY <2>1, <2>2, <2>3 DEF PrepNext
  <1> QED
    BY <1>1, <1>2, PTL DEF PrepSpec

(* A conversion that succeeds was vetted: the child exited well, was awaited *)
(* and closed every pipe; whatever the outcome, an answered run leaves no    *)
(* process that was not told to end and no directory without a bundle; a     *)
(* drain that returned left no image job running, and when every drain has   *)
(* returned no helper's owner runs (kill_and_reap, terminate, drain).        *)
THEOREM PreparationsAreSound == PrepSpec => []PrepHonest
  <1>1. PrepInv => ChildHonest
    BY DEF PrepInv, RequestOK, KindsOK, ChildOK, AnswerOK, Vetted, ChildHonest, Helper, OfficeKinds
  <1>2. PrepInv => DrainSound
    <2> SUFFICES ASSUME PrepInv PROVE DrainSound
      OBVIOUS
    <2>1. (\E d \in Drainers : drain[d][1] = "done") => \A r \in Preps : prep[r].pc # "imaging"
      BY DEF PrepInv, DrainStory, ImagesOK
    <2>2. ASSUME \A d \in Drainers : drain[d][1] = "done"
          PROVE  owners = {}
      BY <2>2, PrepAssumption DEF PrepInv, DrainStory, OwnersOK
    <2> QED
      BY <2>1, <2>2 DEF DrainSound
  <1> QED
    BY <1>1, <1>2, PreparationInvariant, PTL DEF PrepHonest

-----------------------------------------------------------------------------
(* A command line run.  The invariant ties the events of each document to   *)
(* the place of the run, and the list of failures to the events.            *)

\* What the events of one document may be so far.
OpenLogs == {<<>>, <<"started">>, <<"started", "prepared">>}
FailedLogs == {<<"failed">>, <<"started", "failed">>, <<"started", "prepared", "failed">>}
CompletedLog == <<"started", "prepared", "completed">>
Logs == OpenLogs \cup FailedLogs \cup {CompletedLog}

TermOf(l) == IF l \in FailedLogs THEN "failed" ELSE IF l = CompletedLog THEN "completed" ELSE "none"

BeforeLoop == {"plan", "preflight", "validate"}
AtWork == {"open", "copy", "prepare", "connect", "parse", "complete"}
After == {"drain", "report"}

RunShape ==
    /\ lane \in RunLanes /\ cpc \in BeforeLoop \cup {"loop"} \cup AtWork \cup After
    /\ cur \in 1..(NDocs + 1) /\ doomed \subseteq DocIds /\ fails \in Seq(DocIds)
    /\ log \in [DocIds -> Logs] /\ held \in {"none", "fits"}

\* Before the loop only the announced documents have an event.
Announced ==
    cpc \in BeforeLoop =>
       /\ \A d \in DocIds : log[d] = IF d \in doomed THEN <<"failed">> ELSE <<>>
       /\ cpc = "plan" => cur = 1 /\ doomed = {}
       /\ cpc = "preflight" => \A d \in doomed : d < cur

\* In the loop the documents before the current one have ended, those after it
\* have no event, and its own events are those of the steps it has taken.
CommandProgress == CASE cpc = "loop" -> <<>> [] cpc \in {"open", "copy", "prepare"} -> <<"started">>
              [] OTHER -> <<"started", "prepared">>

InOrder ==
    cpc \in {"loop"} \cup AtWork =>
       /\ \A d \in DocIds :
             /\ d \in doomed => log[d] = <<"failed">>
             /\ d \notin doomed /\ d < cur => TermOf(log[d]) # "none"
             /\ d \notin doomed /\ d = cur => log[d] = CommandProgress
             /\ d \notin doomed /\ d > cur => log[d] = <<>>
       /\ cpc \in AtWork => cur \in DocIds /\ cur \notin doomed

\* The list of failures: the documents that failed, the announced ones first.
FailuresListed ==
    /\ ToSet(fails) = {d \in DocIds : log[d] \in FailedLogs}
    /\ Len(fails) = Cardinality(ToSet(fails))
    /\ Cardinality(doomed) <= Len(fails)
    /\ doomed = ToSet(SubSeq(fails, 1, Cardinality(doomed)))

\* What the terminal shows before the summary.
ScreenOK ==
    exit = "none" =>
       /\ ui \in [active : SUBSET DocIds, term : [DocIds -> {"none", "failed", "completed"}],
                  lines : SUBSET (0..NDocs), summary : {<<>>}]
       /\ \A d \in DocIds : ui.term[d] = TermOf(log[d])
       /\ \A d \in DocIds : ui.term[d] = "failed" => d \in ui.lines

CommandVerdicts ==
    /\ verdict # "none" <=> cpc \in After
    /\ cpc \in BeforeLoop => worker = "none" /\ client = "none"
    /\ worker # "none" => lane = "hybrid"
    /\ cpc = "validate" => lane = "hybrid"
    /\ verdict \in {"ok", "listed"} =>
          (\A d \in DocIds : TermOf(log[d]) # "none") /\ worker # "persistent"
    /\ verdict = "ok" => fails = <<>>
    /\ verdict = "fatal" => lane = "hybrid" \/ client = "broken"

ExitOK ==
    exit # "none" =>
       /\ cpc = "report" /\ exit \in {"0", "1"}
       /\ ui.active = {} /\ (exit = "0" <=> verdict = "ok")
       /\ ui.summary = <<Cardinality({d \in DocIds : "completed" \in ToSet(log[d])}), Len(fails)>>
       /\ exit = "1" => ui.lines # {}

RunInv == RunShape /\ Announced /\ InOrder /\ FailuresListed /\ ScreenOK /\ CommandVerdicts /\ ExitOK

\* There is a document at least, and finitely many.
LEMMA DocsFinite == NDocs \in Nat /\ NDocs >= 1 /\ IsFiniteSet(DocIds) /\ DocIds \subseteq Nat
BY CommandAssumption, FS_Interval DEF DocIds

\* Sequences are equal when their entries are.
LEMMA SameSeq ==
  ASSUME NEW S, NEW a \in Seq(S), NEW b \in Seq(S), Len(a) = Len(b), \A i \in 1..Len(a) : a[i] = b[i]
  PROVE  a = b
OBVIOUS

\* What an event adds to a log of one.
LEMMA Append1 == ASSUME NEW x, NEW y PROVE Append(<<x>>, y) = <<x, y>>
<1> DEFINE a == Append(<<x>>, y)
           b == <<x,y>>
<1>1. a \in Seq({x,y}) /\ b \in Seq({x,y}) /\ Len(a) = 2 /\ Len(b) = 2 /\ a[1] = b[1] /\ a[2] = b[2]
  OBVIOUS
<1> HIDE DEF a, b
<1>2. \A i \in 1..Len(a) : a[i] = b[i]
  BY <1>1
<1>3. a = b
  BY <1>1, <1>2, SameSeq
<1> QED BY <1>3 DEF a, b

\* What an event adds to a log of two.
LEMMA Append2 == ASSUME NEW x, NEW y, NEW z PROVE Append(<<x,y>>, z) = <<x, y,z>>
<1> DEFINE a == Append(<<x,y>>, z)
           b == <<x,y,z>>
<1>1. a \in Seq({x,y,z}) /\ b \in Seq({x,y,z}) /\ Len(a) = 3 /\ Len(b) = 3 /\ a[1] = b[1] /\ a[2] = b[2] /\ a[3] = b[3]
  OBVIOUS
<1> HIDE DEF a, b
<1>2. \A i \in 1..Len(a) : a[i] = b[i]
  BY <1>1
<1>3. a = b
  BY <1>1, <1>2, SameSeq
<1> QED BY <1>3 DEF a, b

\* Each event leads from one of the logs to another.
LEMMA LogsGrow ==
  /\ Append(<<>>, "failed") = <<"failed">> /\ Append(<<>>, "started") = <<"started">>
  /\ Append(<<"started">>, "failed") = <<"started", "failed">>
  /\ Append(<<"started">>, "prepared") = <<"started", "prepared">>
  /\ Append(<<"started", "prepared">>, "failed") = <<"started", "prepared", "failed">>
  /\ Append(<<"started", "prepared">>, "completed") = CompletedLog
<1>1. Append(<<>>, "failed") = <<"failed">> /\ Append(<<>>, "started") = <<"started">>
  OBVIOUS
<1> QED BY <1>1, Append1, Append2 DEF CompletedLog

\* The logs of open, failed and completed documents are apart.
LEMMA LogsDiffer ==
  /\ \A l \in OpenLogs : l \notin FailedLogs /\ l # CompletedLog
  /\ CompletedLog \notin FailedLogs
  /\ <<"started">> # <<>> /\ <<"started", "prepared">> # <<>> /\ <<"started">> # <<"started", "prepared">>
BY DEF OpenLogs, FailedLogs, CompletedLog

\* A failed log ends with its failure, the only verdict in it.
LEMMA FailedLogEnds ==
  ASSUME NEW l \in FailedLogs
  PROVE  /\ \A i \in 1..(Len(l) - 1) : l[i] \notin {"completed", "failed"}
         /\ "completed" \notin ToSet(l) /\ "failed" \in ToSet(l)
         /\ l # <<>> /\ Last(l) = "failed"
<1>1. CASE l = <<"failed">>
  BY <1>1 DEF ToSet, Last
<1>2. CASE l = <<"started", "failed">>
  BY <1>2 DEF ToSet, Last
<1>3. CASE l = <<"started", "prepared", "failed">>
  BY <1>3 DEF ToSet, Last
<1> QED BY <1>1, <1>2, <1>3 DEF FailedLogs

\* An open log has no verdict.
LEMMA OpenLogEnds ==
  ASSUME NEW l \in OpenLogs
  PROVE  /\ \A i \in 1..(Len(l) - 1) : l[i] \notin {"completed", "failed"}
         /\ "completed" \notin ToSet(l) /\ "failed" \notin ToSet(l)
<1>1. CASE l = <<>>
  BY <1>1 DEF ToSet, Last
<1>2. CASE l = <<"started">>
  BY <1>2 DEF ToSet, Last
<1>3. CASE l = <<"started", "prepared">>
  BY <1>3 DEF ToSet, Last
<1> QED BY <1>1, <1>2, <1>3 DEF OpenLogs

\* A completed log ends with its completion, the only verdict in it.
LEMMA CompletedLogEnds ==
  LET l == CompletedLog
  IN  /\ \A i \in 1..(Len(l) - 1) : l[i] \notin {"completed", "failed"}
      /\ "completed" \in ToSet(l) /\ "failed" \notin ToSet(l)
      /\ l # <<>> /\ Last(l) = "completed"
BY DEF ToSet, Last, CompletedLog

\* What an event does to the log, the screen and the failures.
LEMMA EmitLogs ==
  ASSUME RunShape, NEW d \in DocIds, NEW event, Emit(d, event), Append(log[d], event) \in Logs
  PROVE  /\ log' \in [DocIds -> Logs] /\ log'[d] = Append(log[d], event)
         /\ \A e \in DocIds \ {d} : log'[e] = log[e]
BY DEF RunShape, Emit

\* An event is shown on the screen as it is logged.
LEMMA EmitShows ==
  ASSUME RunShape, ScreenOK, exit = "none", exit' = "none", NEW d \in DocIds, NEW event, Emit(d, event),
         log[d] \in OpenLogs, Append(log[d], event) \in Logs,
         event = "failed" => Append(log[d], event) \in FailedLogs,
         event = "completed" => Append(log[d], event) = CompletedLog,
         event \notin {"failed", "completed"} => Append(log[d], event) \in OpenLogs
  PROVE  ScreenOK'
<1>1. /\ log' \in [DocIds -> Logs] /\ log'[d] = Append(log[d], event)
      /\ \A e \in DocIds \ {d} : log'[e] = log[e]
  BY EmitLogs
<1>2. ui.term[d] = "none"
  BY LogsDiffer DEF ScreenOK, TermOf
<1>3. ui' = HandleAll(ui, d, event)
  BY <1>2 DEF Emit, Handle
<1>4. d \in 0..NDocs
  BY DocsFinite DEF DocIds
<1>5. CASE event = "failed"
  <2>1. ui' = [ui EXCEPT !.term[d] = "failed", !.active = @ \ {d}, !.lines = @ \cup {d}]
    BY <1>3, <1>5 DEF HandleAll
  <2>2. TermOf(log'[d]) = "failed"
    BY <1>1, <1>5 DEF TermOf
  <2> QED BY <1>1, <1>4, <2>1, <2>2 DEF ScreenOK
<1>6. CASE event = "completed"
  <2>1. ui' = [ui EXCEPT !.term[d] = "completed", !.active = @ \ {d}, !.lines = @]
    BY <1>3, <1>6 DEF HandleAll
  <2>2. TermOf(log'[d]) = "completed"
    BY <1>1, <1>6, LogsDiffer DEF TermOf
  <2> QED BY <1>1, <2>1, <2>2 DEF ScreenOK
<1>7. CASE event \notin {"failed", "completed"}
  <2>1. ui' = [ui EXCEPT !.active = @ \cup {d}]
    BY <1>3, <1>7 DEF HandleAll
  <2>2. TermOf(log'[d]) = "none"
    BY <1>1, <1>7, LogsDiffer DEF TermOf
  <2> QED BY <1>1, <1>2, <2>1, <2>2 DEF ScreenOK
<1> QED BY <1>5, <1>6, <1>7

\* The list of failures is finite.
LEMMA ListFinite == ASSUME RunShape PROVE IsFiniteSet(ToSet(fails)) /\ ToSet(fails) \subseteq DocIds /\ Len(fails) \in Nat
<1>1. ToSet(fails) \subseteq DocIds
  BY DEF RunShape, ToSet
<1> QED BY <1>1, DocsFinite, FS_Subset DEF RunShape

\* What Append adds to a sequence, to its set and to its prefixes.
LEMMA AppendSet ==
  ASSUME NEW S, NEW s \in Seq(S), NEW x \in S
  PROVE  /\ Append(s, x) \in Seq(S) /\ Len(Append(s, x)) = Len(s) + 1
         /\ ToSet(Append(s, x)) = ToSet(s) \cup {x}
         /\ SubSeq(Append(s, x), 1, Len(s) + 1) = Append(s, x)
         /\ \A k \in 0..Len(s) : SubSeq(Append(s, x), 1, k) = SubSeq(s, 1, k)
<1>1. /\ Append(s, x) \in Seq(S) /\ Len(Append(s, x)) = Len(s) + 1
      /\ Append(s, x)[Len(s) + 1] = x /\ \A i \in 1..Len(s) : Append(s, x)[i] = s[i]
  OBVIOUS
<1>2. ToSet(Append(s, x)) = ToSet(s) \cup {x}
  BY <1>1 DEF ToSet
<1>3. SubSeq(Append(s, x), 1, Len(s) + 1) = Append(s, x)
  BY <1>1
<1>4. ASSUME NEW k \in 0..Len(s) PROVE SubSeq(Append(s, x), 1, k) = SubSeq(s, 1, k)
  BY <1>1
<1> QED BY <1>1, <1>2, <1>3, <1>4

\* A document that fails enters its log and the list of failures together.
LEMMA FailureAdded ==
  ASSUME RunShape, FailuresListed, ScreenOK, exit = "none", exit' = "none", NEW d \in DocIds, DocumentFailed(d),
         log[d] \in OpenLogs
  PROVE  /\ log' \in [DocIds -> Logs] /\ log'[d] = Append(log[d], "failed") /\ log'[d] \in FailedLogs
         /\ \A e \in DocIds \ {d} : log'[e] = log[e]
         /\ fails' = Append(fails, d) /\ fails' \in Seq(DocIds) /\ d \notin ToSet(fails)
         /\ ToSet(fails') = {e \in DocIds : log'[e] \in FailedLogs}
         /\ ToSet(fails') = ToSet(fails) \cup {d}
         /\ Len(fails') = Len(fails) + 1 /\ Len(fails') = Cardinality(ToSet(fails'))
         /\ ScreenOK'
<1>1. Append(log[d], "failed") \in FailedLogs
  BY LogsGrow DEF OpenLogs, FailedLogs
<1>2. Append(log[d], "failed") \in Logs
  BY <1>1 DEF Logs
<1>3. /\ log' \in [DocIds -> Logs] /\ log'[d] = Append(log[d], "failed")
      /\ \A e \in DocIds \ {d} : log'[e] = log[e]
  BY <1>2, EmitLogs DEF DocumentFailed
<1>4. ScreenOK'
  BY <1>1, <1>2, EmitShows DEF DocumentFailed
<1>5. fails' = Append(fails, d) /\ fails \in Seq(DocIds)
  BY DEF DocumentFailed, RunShape
<1>6. fails' \in Seq(DocIds) /\ ToSet(fails') = ToSet(fails) \cup {d} /\ Len(fails') = Len(fails) + 1
  BY <1>5, AppendSet
<1>7. d \notin ToSet(fails)
  BY LogsDiffer DEF FailuresListed
<1>8. ToSet(fails') = {e \in DocIds : log'[e] \in FailedLogs}
  BY <1>1, <1>3, <1>6 DEF FailuresListed
<1>9. Len(fails') = Cardinality(ToSet(fails'))
  BY <1>6, <1>7, ListFinite, FS_AddElement DEF FailuresListed
<1> QED BY <1>1, <1>3, <1>4, <1>5, <1>6, <1>7, <1>8, <1>9

\* The run has no exit code before its report.
LEMMA NotYetExited == ASSUME RunInv, cpc # "report" PROVE exit = "none"
BY DEF RunInv, ExitOK

\* The document being worked on has no verdict yet.
LEMMA CurrentIsOpen ==
  ASSUME RunInv, cpc \in AtWork
  PROVE  /\ cur \in DocIds /\ cur \notin doomed /\ log[cur] = CommandProgress /\ log[cur] \in OpenLogs
         /\ verdict = "none" /\ exit = "none"
<1>1. cur \in DocIds /\ cur \notin doomed /\ log[cur] = CommandProgress
  BY DEF RunInv, InOrder
<1>2. CommandProgress \in OpenLogs
  BY DEF CommandProgress, OpenLogs, AtWork
<1>3. cpc \notin After
  BY DEF AtWork, After
<1> QED BY <1>1, <1>2, <1>3, NotYetExited DEF RunInv, CommandVerdicts, After

\* A document of the loop fails, and the loop goes on.
LEMMA LoopFailure ==
  ASSUME RunInv, cpc \in AtWork, DocumentFailed(cur), held' = "none", cpc' = "loop", cur' = cur + 1,
         UNCHANGED <<lane, doomed, worker, exit, verdict>>
  PROVE  RunInv'
<1>1. /\ cur \in DocIds /\ cur \notin doomed /\ log[cur] \in OpenLogs /\ verdict = "none" /\ exit = "none"
  BY CurrentIsOpen
<1>2. /\ log' \in [DocIds -> Logs] /\ log'[cur] \in FailedLogs
      /\ \A e \in DocIds \ {cur} : log'[e] = log[e]
      /\ fails' = Append(fails, cur) /\ fails' \in Seq(DocIds)
      /\ ToSet(fails') = {e \in DocIds : log'[e] \in FailedLogs}
      /\ Len(fails') = Len(fails) + 1 /\ Len(fails') = Cardinality(ToSet(fails'))
      /\ ScreenOK'
  BY <1>1, FailureAdded DEF RunInv
<1>3. cur' \in 1..(NDocs + 1)
  BY <1>1, DocsFinite DEF DocIds
<1>4. RunShape'
  BY <1>2, <1>3 DEF RunInv, RunShape
<1>5. Announced'
  BY DEF Announced, BeforeLoop
<1>6. InOrder'
  <2>1. ASSUME NEW d \in DocIds
        PROVE  /\ d \in doomed => log'[d] = <<"failed">>
               /\ d \notin doomed /\ d < cur' => TermOf(log'[d]) # "none"
               /\ d \notin doomed /\ d = cur' => log'[d] = <<>>
               /\ d \notin doomed /\ d > cur' => log'[d] = <<>>
    <3>1. CASE d = cur
      BY <1>1, <1>2, <3>1, DocsFinite DEF TermOf
    <3>2. CASE d # cur
      BY <1>1, <1>2, <3>2, DocsFinite DEF RunInv, InOrder
    <3> QED BY <3>1, <3>2
  <2> QED BY <2>1 DEF InOrder, CommandProgress, AtWork
<1>7. FailuresListed'
  <2>1. Cardinality(doomed) \in 0..Len(fails)
    <3>1. IsFiniteSet(doomed)
      BY DocsFinite, FS_Subset DEF RunInv, RunShape
    <3>2. Cardinality(doomed) \in Nat
      BY <3>1, FS_CardinalityType
    <3> QED BY <3>2 DEF RunInv, FailuresListed, RunShape
  <2>2. SubSeq(fails', 1, Cardinality(doomed)) = SubSeq(fails, 1, Cardinality(doomed))
    BY <1>1, <1>2, <2>1, AppendSet DEF RunInv, RunShape
  <2>3. Cardinality(doomed) <= Len(fails')
    BY <1>2, <2>1
  <2> QED BY <1>2, <2>2, <2>3 DEF RunInv, FailuresListed
<1>8. CommandVerdicts'
  BY <1>1 DEF RunInv, CommandVerdicts, AtWork, BeforeLoop, After
<1>9. ExitOK'
  BY <1>1 DEF ExitOK
<1> QED BY <1>2, <1>4, <1>5, <1>6, <1>7, <1>8, <1>9 DEF RunInv

\* The run is over: what is known of the documents stays.
LEMMA RunReturns ==
  ASSUME RunInv, exit = "none", exit' = "none", cpc \notin After, UNCHANGED <<lane, doomed, fails, log, ui>>, cur' \in 1..(NDocs + 1),
         held' \in {"none", "fits"}, NEW v \in {"refused", "listed", "ok", "fatal"}, Return(v),
         v \in {"ok", "listed"} => (\A d \in DocIds : TermOf(log[d]) # "none") /\ worker' # "persistent",
         v = "ok" => fails = <<>>,
         v = "fatal" => lane = "hybrid" \/ client' = "broken",
         worker' # "none" => lane = "hybrid"
  PROVE  RunInv'
<1>1. RunShape'
  BY DEF RunInv, RunShape, Return, After
<1>2. Announced' /\ InOrder'
  BY DEF Return, Announced, InOrder, BeforeLoop, AtWork
<1>3. FailuresListed' /\ ScreenOK'
  BY DEF RunInv, FailuresListed, ScreenOK
<1>4. CommandVerdicts'
  BY DEF Return, CommandVerdicts, After, BeforeLoop
<1> QED BY <1>1, <1>2, <1>3, <1>4 DEF RunInv, ExitOK

\* A document fails on its own, or takes the run with it.
LEMMA DocumentErrsKeeps ==
  ASSUME RunInv, cpc \in AtWork, DocumentErrs(client'), UNCHANGED <<lane, doomed, worker, exit>>
  PROVE  RunInv'
<1>1. CASE /\ lane = "vlm" /\ client' = "broken" /\ held' = "none"
           /\ Return("fatal") /\ Quiet /\ UNCHANGED <<fails, cur>>
  <2>1. exit = "none" /\ cpc \notin After
    BY CurrentIsOpen DEF AtWork, After
  <2>2. cur' \in 1..(NDocs + 1) /\ (worker' # "none" => lane = "hybrid") /\ UNCHANGED <<lane, doomed, fails, log, ui>>
    BY <1>1 DEF RunInv, RunShape, CommandVerdicts, Quiet
  <2> QED BY <1>1, <2>1, <2>2, RunReturns
<1>2. CASE /\ DocumentFailed(cur) /\ held' = "none" /\ cpc' = "loop" /\ cur' = cur + 1 /\ UNCHANGED verdict
  BY <1>2, LoopFailure
<1> QED BY <1>1, <1>2 DEF DocumentErrs

\* A step of the current document that says nothing.
LEMMA QuietStep ==
  ASSUME RunInv, cpc \in AtWork, cpc' \in AtWork, CommandProgress' = CommandProgress, Quiet, held' \in {"none", "fits"},
         UNCHANGED <<lane, cur, doomed, fails, worker, verdict, exit>>
  PROVE  RunInv'
<1>1. verdict = "none" /\ exit = "none"
  BY CurrentIsOpen
<1>2. RunShape'
  BY DEF RunInv, RunShape, Quiet
<1>3. Announced' /\ ExitOK'
  BY <1>1 DEF Announced, ExitOK, BeforeLoop, AtWork
<1>4. InOrder'
  BY DEF RunInv, InOrder, Quiet
<1>5. FailuresListed' /\ ScreenOK'
  BY DEF RunInv, FailuresListed, ScreenOK, Quiet
<1>6. CommandVerdicts'
  BY <1>1 DEF RunInv, CommandVerdicts, AtWork, BeforeLoop, After
<1> QED BY <1>2, <1>3, <1>4, <1>5, <1>6 DEF RunInv

\* A step of the current document that succeeds and says so.
LEMMA SpokenStep ==
  ASSUME RunInv, cpc \in AtWork \cup {"loop"}, cur \in DocIds, cur \notin doomed,
         NEW event, Emit(cur, event), log[cur] \in OpenLogs, held' \in {"none", "fits"},
         UNCHANGED <<lane, doomed, fails, worker, verdict, exit>>,
         \/ /\ event \notin {"failed", "completed"} /\ Append(log[cur], event) = CommandProgress' /\ CommandProgress' \in OpenLogs
            /\ cur' = cur /\ cpc' \in AtWork
         \/ /\ event = "completed" /\ Append(log[cur], event) = CompletedLog
            /\ cur' = cur + 1 /\ cpc' = "loop"
  PROVE  RunInv'
<1>1. verdict = "none" /\ exit = "none"
  BY NotYetExited DEF RunInv, CommandVerdicts, AtWork, After
<1>2. Append(log[cur], event) \in Logs
  BY DEF Logs
<1>3. /\ log' \in [DocIds -> Logs] /\ log'[cur] = Append(log[cur], event)
      /\ \A e \in DocIds \ {cur} : log'[e] = log[e]
  BY <1>2, EmitLogs DEF RunInv
<1>4. ScreenOK'
  BY <1>1, <1>2, EmitShows DEF RunInv
<1>5. cur' \in 1..(NDocs + 1)
  BY DocsFinite DEF DocIds
<1>6. RunShape'
  BY <1>3, <1>5 DEF RunInv, RunShape
<1>7. Announced' /\ ExitOK'
  BY <1>1 DEF Announced, ExitOK, BeforeLoop, AtWork
<1>8. log'[cur] \notin FailedLogs /\ log[cur] \notin FailedLogs
  BY <1>3, LogsDiffer
<1>9. FailuresListed'
  <2>1. {d \in DocIds : log'[d] \in FailedLogs} = {d \in DocIds : log[d] \in FailedLogs}
    BY <1>3, <1>8
  <2> QED BY <2>1 DEF RunInv, FailuresListed
<1>10. InOrder'
  <2>1. CASE cur' = cur /\ cpc' \in AtWork /\ Append(log[cur], event) = CommandProgress'
    <3> DEFINE now == Append(log[cur], event)
    <3>1. /\ cpc' \in {"loop"} \cup AtWork /\ now = CommandProgress' /\ cur' = cur /\ doomed' = doomed /\ cur \in DocIds /\ cur \notin doomed
          /\ log'[cur] = now /\ \A e \in DocIds \ {cur} : log'[e] = log[e]
      BY <1>3, <2>1
    <3> HIDE DEF now
    <3>2. \A d \in DocIds :
             /\ d \in doomed => log[d] = <<"failed">>
             /\ d \notin doomed /\ d < cur => TermOf(log[d]) # "none"
             /\ d \notin doomed /\ d > cur => log[d] = <<>>
      BY DEF RunInv, InOrder
    <3>3. cur \in Nat /\ ~(cur < cur) /\ ~(cur > cur)
      BY DocsFinite DEF DocIds
    <3>4. \A d \in DocIds :
             /\ d \in doomed => log'[d] = <<"failed">>
             /\ d \notin doomed /\ d < cur => TermOf(log'[d]) # "none"
             /\ d \notin doomed /\ d = cur => log'[d] = now
             /\ d \notin doomed /\ d > cur => log'[d] = <<>>
      <4>1. ASSUME NEW d \in DocIds, d # cur
            PROVE  /\ d \in doomed => log'[d] = <<"failed">>
                   /\ d \notin doomed /\ d < cur => TermOf(log'[d]) # "none"
                   /\ d \notin doomed /\ d > cur => log'[d] = <<>>
        BY <3>1, <3>2, <4>1
      <4> QED BY <3>1, <3>3, <4>1
    <3> QED BY <3>1, <3>4 DEF InOrder
  <2>2. CASE cur' = cur + 1 /\ cpc' = "loop" /\ Append(log[cur], event) = CompletedLog
    <3>1. ASSUME NEW d \in DocIds
          PROVE  /\ d \in doomed => log'[d] = <<"failed">>
                 /\ d \notin doomed /\ d < cur' => TermOf(log'[d]) # "none"
                 /\ d \notin doomed /\ d = cur' => log'[d] = <<>>
                 /\ d \notin doomed /\ d > cur' => log'[d] = <<>>
      <4>1. CASE d = cur
        BY <1>3, <2>2, <4>1, DocsFinite DEF TermOf
      <4>2. CASE d # cur
        BY <1>3, <2>2, <4>2, DocsFinite DEF RunInv, InOrder
      <4> QED BY <4>1, <4>2
    <3> QED BY <2>2, <3>1 DEF InOrder, CommandProgress, AtWork
  <2> QED BY <2>1, <2>2
<1>11. CommandVerdicts'
  BY <1>1 DEF RunInv, CommandVerdicts, AtWork, BeforeLoop, After
<1> QED BY <1>4, <1>6, <1>7, <1>9, <1>10, <1>11 DEF RunInv

\* A run starts with nothing logged.
LEMMA RunStarts == CommandInit => RunInv
<1> SUFFICES ASSUME CommandInit PROVE RunInv
  OBVIOUS
<1>1. <<>> \in Logs /\ <<>> \notin FailedLogs /\ TermOf(<<>>) = "none"
  BY LogsDiffer DEF Logs, OpenLogs, TermOf
<1>2. fails = <<>> /\ doomed = {} /\ \A d \in DocIds : log[d] = <<>>
  BY DEF CommandInit
<1>3. RunShape
  BY <1>1, DocsFinite DEF CommandInit, RunShape, BeforeLoop
<1>4. Announced /\ InOrder /\ CommandVerdicts /\ ExitOK
  BY DEF CommandInit, Announced, InOrder, CommandVerdicts, ExitOK, BeforeLoop, AtWork, After
<1>5. FailuresListed
  <2>1. ToSet(fails) = {} /\ {d \in DocIds : log[d] \in FailedLogs} = {} /\ Len(fails) = 0 /\ Cardinality({}) = 0
    BY <1>1, <1>2, FS_EmptySet DEF ToSet
  <2>2. SubSeq(<<>>, 1, 0) = <<>>
    OBVIOUS
  <2>3. ToSet(SubSeq(fails, 1, 0)) = {}
    BY <1>2, <2>1, <2>2
  <2>4. Cardinality(doomed) = 0 /\ Cardinality(ToSet(fails)) = 0 /\ Cardinality(doomed) <= Len(fails)
    <3>1. Cardinality(doomed) = 0 /\ Len(fails) = 0
      BY <1>2, <2>1
    <3>2. Cardinality(doomed) <= Len(fails)
      BY <3>1
    <3>3. ToSet(fails) = {}
      BY <2>1
    <3>4. Cardinality(ToSet(fails)) = 0
      BY <3>3, <2>1, FS_EmptySet
    <3> QED BY <3>1, <3>2, <3>4
  <2>5. doomed = ToSet(SubSeq(fails, 1, Cardinality(doomed)))
    BY <1>2, <2>3, <2>4
  <2> QED BY <2>1, <2>4, <2>5 DEF FailuresListed
<1>6. ScreenOK
  BY <1>1 DEF CommandInit, ScreenOK
<1> QED BY <1>3, <1>4, <1>5, <1>6 DEF RunInv

\* An input may change on the disk at any time.
LEMMA FileChangesKeeps == ASSUME RunInv, UNCHANGED <<lane, cpc, cur, doomed, fails, client, worker, held, log, ui, verdict, exit>> PROVE RunInv'
<1>1. RunShape' /\ Announced' /\ CommandVerdicts'
  BY DEF RunInv, RunShape, Announced, CommandVerdicts
<1>2. InOrder'
  BY DEF RunInv, InOrder, CommandProgress
<1>3. FailuresListed' /\ ScreenOK' /\ ExitOK'
  BY DEF RunInv, FailuresListed, ScreenOK, ExitOK
<1> QED BY <1>1, <1>2, <1>3 DEF RunInv

\* Before the loop the list is the announced documents.
LEMMA ListIsDoomed == ASSUME RunInv, cpc \in BeforeLoop PROVE ToSet(fails) = doomed
<1>1. \A d \in DocIds : log[d] \in FailedLogs <=> d \in doomed
  BY LogsDiffer DEF RunInv, Announced, FailedLogs, OpenLogs
<1> QED BY <1>1 DEF RunInv, FailuresListed, RunShape

\* A step before the loop that says nothing.
LEMMA EarlyQuiet ==
  ASSUME RunInv, cpc \in BeforeLoop, cpc' \in BeforeLoop \ {"plan"}, cur' \in 1..(NDocs + 1),
         UNCHANGED <<lane, doomed, fails, client, worker, held, log, ui, verdict, exit>>,
         cpc' = "preflight" => doomed = {} \/ (cpc = "preflight" /\ cur' >= cur),
         cpc' = "validate" => lane = "hybrid"
  PROVE  RunInv'
<1>1. exit = "none" /\ verdict = "none"
  BY NotYetExited DEF RunInv, CommandVerdicts, BeforeLoop, After
<1>2. RunShape'
  BY DEF RunInv, RunShape
<1>3. Announced'
  <2>1. cpc' = "preflight" => \A d \in doomed : d < cur'
    <3> SUFFICES ASSUME cpc' = "preflight", NEW d \in doomed PROVE d < cur'
      OBVIOUS
    <3>1. cpc = "preflight" /\ cur' >= cur /\ d < cur
      BY DEF RunInv, Announced
    <3>2. d \in Nat /\ cur \in Nat /\ cur' \in Nat
      BY DocsFinite DEF RunInv, RunShape
    <3> QED BY <3>1, <3>2
  <2> QED BY <2>1 DEF RunInv, Announced
<1>4. InOrder' /\ ExitOK'
  BY <1>1 DEF InOrder, ExitOK, BeforeLoop, AtWork
<1>5. FailuresListed' /\ ScreenOK'
  BY DEF RunInv, FailuresListed, ScreenOK
<1>6. CommandVerdicts'
  BY <1>1 DEF RunInv, CommandVerdicts, BeforeLoop, After
<1> QED BY <1>2, <1>3, <1>4, <1>5, <1>6 DEF RunInv

\* A document is announced.
LEMMA EarlyFailure ==
  ASSUME RunInv, cpc \in {"preflight", "validate"}, cur <= NDocs, cur \notin doomed, DocumentFailed(cur),
         doomed' = doomed \cup {cur}, cur' = cur + 1, UNCHANGED <<lane, cpc, client, worker, held, verdict, exit>>
  PROVE  RunInv'
<1>1. cpc \in BeforeLoop /\ cur \in DocIds /\ cur \in Nat
  BY DocsFinite DEF RunInv, RunShape, BeforeLoop, DocIds
<1>2. exit = "none" /\ verdict = "none"
  BY NotYetExited DEF RunInv, CommandVerdicts, BeforeLoop, After
<1>3. log[cur] = <<>> /\ log[cur] \in OpenLogs
  BY <1>1 DEF RunInv, Announced, OpenLogs
<1>4. /\ log' \in [DocIds -> Logs] /\ log'[cur] = <<"failed">>
      /\ \A e \in DocIds \ {cur} : log'[e] = log[e]
      /\ fails' = Append(fails, cur) /\ fails' \in Seq(DocIds)
      /\ ToSet(fails') = {e \in DocIds : log'[e] \in FailedLogs}
      /\ ToSet(fails') = ToSet(fails) \cup {cur}
      /\ Len(fails') = Len(fails) + 1 /\ Len(fails') = Cardinality(ToSet(fails'))
      /\ ScreenOK'
  BY <1>1, <1>2, <1>3, FailureAdded, LogsGrow DEF RunInv
<1>5. RunShape'
  <2>1. cur' \in 1..(NDocs + 1) /\ doomed' \subseteq DocIds
    BY <1>1, DocsFinite DEF RunInv, RunShape, DocIds
  <2> QED BY <1>4, <2>1 DEF RunInv, RunShape
<1>6. Announced'
  <2>1. \A d \in DocIds : log'[d] = IF d \in doomed' THEN <<"failed">> ELSE <<>>
    BY <1>1, <1>4 DEF RunInv, Announced
  <2>2. cpc' = "preflight" => \A d \in doomed' : d < cur'
    <3> SUFFICES ASSUME cpc' = "preflight", NEW d \in doomed' PROVE d < cur'
      OBVIOUS
    <3>1. d = cur \/ d < cur
      BY <1>1 DEF RunInv, Announced
    <3>2. d \in Nat
      BY <1>1, DocsFinite DEF RunInv, RunShape
    <3> QED BY <1>1, <3>1, <3>2
  <2> QED BY <2>1, <2>2 DEF Announced
<1>7. InOrder' /\ ExitOK'
  BY <1>2 DEF InOrder, ExitOK, AtWork
<1>8. FailuresListed'
  <2>1. doomed' = ToSet(fails') /\ Cardinality(doomed') = Len(fails')
    BY <1>1, <1>4, ListIsDoomed
  <2>2. SubSeq(fails', 1, Len(fails')) = fails'
    BY <1>1, <1>4, AppendSet DEF RunInv, RunShape
  <2>3. Len(fails') \in Nat
    BY <1>4
  <2>4. doomed' = ToSet(SubSeq(fails', 1, Cardinality(doomed'))) /\ Cardinality(doomed') <= Len(fails')
    <3> DEFINE c == Cardinality(doomed')
    <3>1. c = Len(fails')
      BY <2>1
    <3> HIDE DEF c
    <3>2. c <= Len(fails')
      BY <2>3, <3>1
    <3>3. SubSeq(fails', 1, c) = fails'
      BY <2>2, <3>1
    <3>4. doomed' = ToSet(SubSeq(fails', 1, c))
      BY <2>1, <3>3
    <3> QED BY <3>2, <3>4 DEF c
  <2> QED BY <1>4, <2>4 DEF FailuresListed
<1>9. CommandVerdicts'
  BY <1>1, <1>2 DEF RunInv, CommandVerdicts, After, BeforeLoop
<1> QED BY <1>4, <1>5, <1>6, <1>7, <1>8, <1>9 DEF RunInv

\* The documents are planned.
LEMMA PlanKeeps == ASSUME RunInv, PlanRun PROVE RunInv'
<1>1. /\ cpc = "plan" /\ cpc \in BeforeLoop /\ exit = "none" /\ cpc \notin After /\ cur = 1 /\ doomed = {}
      /\ worker = "none" /\ cur \in 1..(NDocs + 1) /\ held \in {"none", "fits"}
      /\ UNCHANGED <<lane, cur, doomed, fails, client, worker, held, log, ui, exit>>
  BY NotYetExited DEF PlanRun, BeforeLoop, After, RunInv, Announced, CommandVerdicts, RunShape
<1>2. CASE cpc' = "preflight" /\ UNCHANGED verdict
  BY <1>1, <1>2, EarlyQuiet DEF BeforeLoop
<1>3. CASE Return("refused")
  BY <1>1, <1>3, RunReturns
<1> QED BY <1>2, <1>3 DEF PlanRun

\* A document is announced as failed before the run, or passes.
LEMMA PreflightKeeps == ASSUME RunInv, Preflight PROVE RunInv'
<1>1. /\ cpc = "preflight" /\ cpc \in BeforeLoop /\ cur <= NDocs /\ cur \in 1..(NDocs + 1) /\ cur' = cur + 1
      /\ UNCHANGED <<lane, cpc, client, worker, held, verdict, exit>>
  BY DEF Preflight, BeforeLoop, RunInv, RunShape
<1>2. cur \notin doomed
  BY <1>1, DocsFinite DEF RunInv, Announced
<1>3. CASE DocumentFailed(cur) /\ doomed' = doomed \cup {cur}
  BY <1>1, <1>2, <1>3, EarlyFailure
<1>4. CASE Quiet /\ UNCHANGED <<fails, doomed>>
  <2>1. cur' \in 1..(NDocs + 1) /\ cur' >= cur /\ UNCHANGED <<log, ui>>
    BY <1>1, <1>4, DocsFinite DEF Quiet
  <2> QED BY <1>1, <1>4, <2>1, EarlyQuiet DEF BeforeLoop
<1> QED BY <1>3, <1>4 DEF Preflight

\* All documents were announced, and the run returns its list.
LEMMA AllDoomed ==
  ASSUME RunInv, cpc \in BeforeLoop, doomed = DocIds, Return("listed"), cur' = 1,
         UNCHANGED <<lane, doomed, fails, client, worker, held, log, ui, exit>>
  PROVE  RunInv'
<1>1. exit = "none" /\ cpc \notin After /\ worker = "none" /\ held \in {"none", "fits"} /\ 1 \in 1..(NDocs + 1)
  BY NotYetExited, DocsFinite DEF RunInv, CommandVerdicts, BeforeLoop, After, RunShape
<1>2. \A d \in DocIds : TermOf(log[d]) # "none"
  BY DEF RunInv, Announced, TermOf, FailedLogs
<1> QED BY <1>1, <1>2, RunReturns

\* The loop begins.
LEMMA LoopStarts ==
  ASSUME RunInv, cpc \in BeforeLoop, cpc' = "loop", cur' = 1, worker' # "none" => lane = "hybrid",
         UNCHANGED <<lane, doomed, fails, client, held, log, ui, exit, verdict>>
  PROVE  RunInv'
<1>1. exit = "none" /\ verdict = "none" /\ 1 \in 1..(NDocs + 1)
  BY NotYetExited, DocsFinite DEF RunInv, CommandVerdicts, BeforeLoop, After, RunShape
<1>2. RunShape'
  BY <1>1 DEF RunInv, RunShape
<1>3. Announced' /\ ExitOK'
  BY <1>1 DEF Announced, ExitOK, BeforeLoop
<1>4. InOrder'
  BY DocsFinite DEF RunInv, Announced, InOrder, CommandProgress, AtWork, DocIds
<1>5. FailuresListed' /\ ScreenOK'
  BY DEF RunInv, FailuresListed, ScreenOK
<1>6. CommandVerdicts'
  BY <1>1 DEF RunInv, CommandVerdicts, BeforeLoop, After
<1> QED BY <1>2, <1>3, <1>4, <1>5, <1>6 DEF RunInv

\* The preflight ends.
LEMMA PreflightDoneKeeps == ASSUME RunInv, PreflightDone PROVE RunInv'
<1>1. /\ cpc = "preflight" /\ cpc \in BeforeLoop /\ cur' = 1 /\ 1 \in 1..(NDocs + 1) /\ worker = "none"
      /\ UNCHANGED <<lane, doomed, fails, client, worker, held, log, ui, exit>>
  BY DocsFinite DEF PreflightDone, BeforeLoop, RunInv, CommandVerdicts
<1>2. CASE doomed = DocIds /\ Return("listed")
  BY <1>1, <1>2, AllDoomed
<1>3. CASE lane = "hybrid" /\ cpc' = "validate" /\ UNCHANGED verdict
  BY <1>1, <1>3, EarlyQuiet DEF BeforeLoop
<1>4. CASE cpc' = "loop" /\ UNCHANGED verdict
  BY <1>1, <1>4, LoopStarts
<1> QED BY <1>2, <1>3, <1>4 DEF PreflightDone

\* The hybrid lane validates its configuration.
LEMMA ValidateKeeps == ASSUME RunInv, ValidateHybrid PROVE RunInv'
<1>1. /\ cpc = "validate" /\ cpc \in BeforeLoop /\ cur <= NDocs /\ cur \in 1..(NDocs + 1) /\ cur' = cur + 1
      /\ UNCHANGED <<lane, cpc, client, worker, held, verdict, exit>> /\ lane = "hybrid"
  BY DEF ValidateHybrid, BeforeLoop, RunInv, RunShape, CommandVerdicts
<1>2. CASE cur \notin doomed /\ DocumentFailed(cur) /\ doomed' = doomed \cup {cur}
  BY <1>1, <1>2, EarlyFailure
<1>3. CASE Quiet /\ UNCHANGED <<fails, doomed>>
  <2>1. cur' \in 1..(NDocs + 1) /\ UNCHANGED <<log, ui>>
    BY <1>1, <1>3, DocsFinite DEF Quiet
  <2> QED BY <1>1, <1>3, <2>1, EarlyQuiet DEF BeforeLoop
<1> QED BY <1>2, <1>3 DEF ValidateHybrid

\* The hybrid lane takes its worker, or ends where nothing is left to do.
LEMMA ChooseWorkerKeeps == ASSUME RunInv, ChooseWorker PROVE RunInv'
<1>1. /\ cpc = "validate" /\ cpc \in BeforeLoop /\ cpc \notin After /\ cur' = 1 /\ 1 \in 1..(NDocs + 1)
      /\ worker = "none" /\ lane = "hybrid" /\ exit = "none" /\ held \in {"none", "fits"}
      /\ UNCHANGED <<lane, doomed, fails, client, held, log, ui, exit>>
  BY NotYetExited, DocsFinite DEF ChooseWorker, BeforeLoop, After, RunInv, CommandVerdicts, RunShape
<1>2. CASE doomed = DocIds /\ Return("listed") /\ UNCHANGED worker
  BY <1>1, <1>2, AllDoomed
<1>3. CASE cpc' = "loop" /\ UNCHANGED verdict
  BY <1>1, <1>3, LoopStarts
<1>4. CASE Return("fatal") /\ UNCHANGED worker
  BY <1>1, <1>4, RunReturns
<1> QED BY <1>2, <1>3, <1>4 DEF ChooseWorker

\* The next document starts.
LEMMA StartKeeps == ASSUME RunInv, StartDocument PROVE RunInv'
<1>1. /\ cpc = "loop" /\ cur \in DocIds /\ cur \notin doomed /\ log[cur] = <<>> /\ held \in {"none", "fits"}
      /\ Emit(cur, "started") /\ cpc' = "open" /\ UNCHANGED <<lane, cur, doomed, fails, worker, held, verdict, exit>>
  BY DEF StartDocument, RunInv, InOrder, RunShape, DocIds, CommandProgress
<1>2. CommandProgress' = <<"started">>
  BY <1>1 DEF CommandProgress
<1> QED BY <1>1, <1>2, SpokenStep, LogsGrow DEF AtWork, OpenLogs

\* A document announced as failed is passed over.
LEMMA SkipKeeps == ASSUME RunInv, SkipDoomed PROVE RunInv'
<1>1. /\ cpc = "loop" /\ cur \in DocIds /\ cur \in doomed /\ cur' = cur + 1 /\ cur' \in 1..(NDocs + 1)
      /\ UNCHANGED <<lane, cpc, doomed, fails, client, worker, held, log, ui, verdict, exit>>
  BY DocsFinite DEF SkipDoomed, RunInv, RunShape, DocIds
<1>2. InOrder'
  <2>1. ASSUME NEW d \in DocIds
        PROVE  /\ d \in doomed => log[d] = <<"failed">>
               /\ d \notin doomed /\ d < cur' => TermOf(log[d]) # "none"
               /\ d \notin doomed /\ d = cur' => log[d] = <<>>
               /\ d \notin doomed /\ d > cur' => log[d] = <<>>
    <3>1. CASE d = cur
      BY <1>1, <3>1, DocsFinite DEF RunInv, InOrder
    <3>2. CASE d # cur
      BY <1>1, <3>2, DocsFinite DEF RunInv, InOrder
    <3> QED BY <3>1, <3>2
  <2> QED BY <1>1, <2>1 DEF InOrder, CommandProgress, AtWork
<1>3. RunShape' /\ Announced' /\ CommandVerdicts'
  BY <1>1 DEF RunInv, RunShape, Announced, CommandVerdicts, BeforeLoop
<1>4. FailuresListed' /\ ScreenOK' /\ ExitOK'
  BY <1>1 DEF RunInv, FailuresListed, ScreenOK, ExitOK
<1> QED BY <1>2, <1>3, <1>4 DEF RunInv

\* The input is opened.
LEMMA OpenKeeps == ASSUME RunInv, OpenInput PROVE RunInv'
<1>1. cpc = "open" /\ cpc \in AtWork /\ held \in {"none", "fits"} /\ UNCHANGED <<lane, doomed, client, worker, exit>>
  BY DEF OpenInput, AtWork, RunInv, RunShape
<1>2. CASE cpc' = "copy" /\ Quiet /\ UNCHANGED <<cur, fails, held, verdict>>
  BY <1>1, <1>2, QuietStep DEF AtWork, CommandProgress
<1>3. CASE DocumentErrs(client)
  BY <1>1, <1>3, DocumentErrsKeeps
<1> QED BY <1>2, <1>3 DEF OpenInput

\* It is copied, up to its limit.
LEMMA CopyKeeps == ASSUME RunInv, CopyInput PROVE RunInv'
<1>1. cpc = "copy" /\ cpc \in AtWork /\ UNCHANGED <<lane, doomed, client, worker, exit>>
  BY DEF CopyInput, AtWork
<1>2. CASE cpc' = "prepare" /\ held' = "fits" /\ Quiet /\ UNCHANGED <<cur, fails, verdict>>
  BY <1>1, <1>2, QuietStep DEF AtWork, CommandProgress
<1>3. CASE DocumentErrs(client)
  BY <1>1, <1>3, DocumentErrsKeeps
<1> QED BY <1>2, <1>3 DEF CopyInput

\* It is prepared.
LEMMA CommandPrepareKeeps == ASSUME RunInv, PrepareDocument PROVE RunInv'
<1>1. cpc = "prepare" /\ cpc \in AtWork /\ held \in {"none", "fits"} /\ UNCHANGED <<lane, doomed, client, worker, exit>>
  BY DEF PrepareDocument, AtWork, RunInv, RunShape
<1>2. CASE /\ Emit(cur, "prepared") /\ UNCHANGED <<cur, fails, held, verdict>>
           /\ cpc' = CASE lane = "vlm" -> "connect" [] lane = "hybrid" -> "parse" [] OTHER -> "complete"
  <2>1. cpc' \in {"connect", "parse", "complete"}
    BY <1>2
  <2>2. CommandProgress' = <<"started", "prepared">>
    BY <2>1 DEF CommandProgress
  <2>3. cur \in DocIds /\ cur \notin doomed /\ log[cur] = <<"started">>
    BY <1>1, CurrentIsOpen DEF CommandProgress
  <2> QED BY <1>1, <1>2, <2>1, <2>2, <2>3, SpokenStep, LogsGrow DEF AtWork, OpenLogs
<1>3. CASE DocumentErrs(client)
  BY <1>1, <1>3, DocumentErrsKeeps
<1> QED BY <1>2, <1>3 DEF PrepareDocument

\* The direct lane connects its client.
LEMMA ConnectKeeps == ASSUME RunInv, Connect PROVE RunInv'
<1>1. cpc = "connect" /\ cpc \in AtWork /\ held \in {"none", "fits"} /\ UNCHANGED <<lane, doomed, worker, exit>>
  BY DEF Connect, AtWork, RunInv, RunShape
<1>2. CASE cpc' = "parse" /\ Quiet /\ UNCHANGED <<cur, fails, held, verdict>>
  BY <1>1, <1>2, QuietStep DEF AtWork, CommandProgress
<1>3. CASE client' = "broken" /\ DocumentErrs("broken")
  BY <1>1, <1>3, DocumentErrsKeeps
<1>4. CASE client' = client /\ DocumentErrs(client)
  BY <1>1, <1>4, DocumentErrsKeeps
<1> QED BY <1>2, <1>3, <1>4 DEF Connect

\* It is parsed.
LEMMA ParseKeeps == ASSUME RunInv, ParseDocument PROVE RunInv'
<1>1. cpc = "parse" /\ cpc \in AtWork /\ held \in {"none", "fits"} /\ UNCHANGED <<lane, doomed, client, worker, exit>>
  BY DEF ParseDocument, AtWork, RunInv, RunShape
<1>2. CASE cpc' = "complete" /\ Quiet /\ UNCHANGED <<cur, fails, held, verdict>>
  BY <1>1, <1>2, QuietStep DEF AtWork, CommandProgress
<1>3. CASE DocumentErrs(client)
  BY <1>1, <1>3, DocumentErrsKeeps
<1> QED BY <1>2, <1>3 DEF ParseDocument

\* It is published and says so.
LEMMA CompleteKeeps == ASSUME RunInv, CompleteDocument PROVE RunInv'
<1>1. /\ cpc = "complete" /\ cpc \in AtWork /\ Emit(cur, "completed") /\ held' = "none" /\ cpc' = "loop" /\ cur' = cur + 1
      /\ UNCHANGED <<lane, doomed, fails, worker, verdict, exit>>
  BY DEF CompleteDocument, AtWork
<1>2. cur \in DocIds /\ cur \notin doomed /\ log[cur] = <<"started", "prepared">>
  BY <1>1, CurrentIsOpen DEF CommandProgress
<1> QED BY <1>1, <1>2, SpokenStep, LogsGrow DEF OpenLogs

\* The loop ends.
LEMMA LoopDoneKeeps == ASSUME RunInv, LoopDone PROVE RunInv'
<1>1. /\ cpc = "loop" /\ cur > NDocs /\ exit = "none" /\ cpc \notin After /\ cur \in 1..(NDocs + 1) /\ held \in {"none", "fits"}
      /\ UNCHANGED <<lane, cur, doomed, fails, client, held, log, ui, exit>>
  BY NotYetExited DEF LoopDone, RunInv, RunShape, After
<1>2. \A d \in DocIds : TermOf(log[d]) # "none"
  <2> SUFFICES ASSUME NEW d \in DocIds PROVE TermOf(log[d]) # "none"
    OBVIOUS
  <2>1. d < cur
    BY <1>1, DocsFinite DEF DocIds
  <2>2. CASE d \in doomed
    BY <1>1, <2>2 DEF RunInv, InOrder, TermOf, FailedLogs
  <2> QED BY <1>1, <2>1, <2>2 DEF RunInv, InOrder
<1>3. Listed \in {"ok", "listed"} /\ (Listed = "ok" => fails = <<>>)
  BY DEF Listed
<1>4. worker # "none" => lane = "hybrid"
  BY DEF RunInv, CommandVerdicts
<1>5. CASE worker = "persistent" /\ worker' = "stopped" /\ Return(Listed)
  BY <1>1, <1>2, <1>3, <1>4, <1>5, RunReturns
<1>6. CASE worker = "persistent" /\ worker' = "stopped" /\ Return("fatal")
  BY <1>1, <1>4, <1>6, RunReturns
<1>7. CASE worker # "persistent" /\ Return(Listed) /\ UNCHANGED worker
  BY <1>1, <1>2, <1>3, <1>4, <1>7, RunReturns
<1> QED BY <1>5, <1>6, <1>7 DEF LoopDone

\* The worker is shut down.
LEMMA DrainKeeps == ASSUME RunInv, Drain PROVE RunInv'
<1>1. /\ cpc = "drain" /\ cpc' = "report" /\ exit = "none"
      /\ UNCHANGED <<lane, cur, doomed, fails, client, worker, held, log, ui, verdict, exit>>
  BY NotYetExited DEF Drain
<1>2. RunShape'
  BY <1>1 DEF RunInv, RunShape, After
<1>3. Announced' /\ InOrder' /\ ExitOK'
  BY <1>1 DEF Announced, InOrder, ExitOK, BeforeLoop, AtWork
<1>4. FailuresListed' /\ ScreenOK'
  BY <1>1 DEF RunInv, FailuresListed, ScreenOK
<1>5. CommandVerdicts'
  BY <1>1 DEF RunInv, CommandVerdicts, BeforeLoop, After
<1> QED BY <1>2, <1>3, <1>4, <1>5 DEF RunInv

\* What the events say, by the set of events.
LEMMA EventsTell ==
  ASSUME RunInv, NEW d \in DocIds
  PROVE  /\ TermOf(log[d]) = "completed" <=> "completed" \in ToSet(log[d])
         /\ TermOf(log[d]) = "failed" <=> "failed" \in ToSet(log[d])
         /\ TermOf(log[d]) = "failed" <=> log[d] \in FailedLogs
         /\ TermOf(log[d]) # "none" => log[d] # <<>> /\ Last(log[d]) \in {"completed", "failed"}
         /\ TermOf(log[d]) # "none" => (Last(log[d]) = "failed" <=> log[d] \in FailedLogs)
         /\ \A i \in 1..(Len(log[d]) - 1) : log[d][i] \notin {"completed", "failed"}
         /\ "completed" \in ToSet(log[d]) => log[d] = CompletedLog
<1>1. log[d] \in OpenLogs \cup FailedLogs \cup {CompletedLog}
  BY DEF RunInv, RunShape, Logs
<1>2. CASE log[d] \in OpenLogs
  BY <1>2, OpenLogEnds, LogsDiffer DEF TermOf
<1>3. CASE log[d] \in FailedLogs
  BY <1>3, FailedLogEnds, LogsDiffer DEF TermOf
<1>4. CASE log[d] = CompletedLog
  BY <1>4, CompletedLogEnds, LogsDiffer DEF TermOf
<1> QED BY <1>1, <1>2, <1>3, <1>4

\* The report: the exit code, and the summary on the screen.
LEMMA ReportKeeps == ASSUME RunInv, ReportRun PROVE RunInv'
<1>1. /\ cpc = "report" /\ exit = "none" /\ exit' = (IF verdict = "ok" THEN "0" ELSE "1")
      /\ UNCHANGED <<lane, cpc, cur, doomed, fails, client, worker, held, log, verdict>>
  BY DEF ReportRun
<1>2. /\ \A d \in DocIds : ui.term[d] = TermOf(log[d])
      /\ \A d \in DocIds : ui.term[d] = "failed" => d \in ui.lines
      /\ DOMAIN ui = {"active", "term", "lines", "summary"}
  BY <1>1 DEF RunInv, ScreenOK
<1>3. /\ ui'.active = {}
      /\ ui'.lines = (IF verdict # "ok" /\ ~TypedFailure THEN ui.lines \cup {0} ELSE ui.lines)
      /\ ui'.summary = <<Cardinality({d \in DocIds : ui.term[d] = "completed"}),
                         Cardinality({d \in DocIds : ui.term[d] = "failed"})>>
  BY <1>2 DEF ReportRun
<1>4. {d \in DocIds : ui.term[d] = "completed"} = {d \in DocIds : "completed" \in ToSet(log[d])}
  BY <1>2, EventsTell
<1>5. {d \in DocIds : ui.term[d] = "failed"} = ToSet(fails)
  BY <1>2, EventsTell DEF RunInv, FailuresListed
<1>6. ui'.summary = <<Cardinality({d \in DocIds : "completed" \in ToSet(log[d])}), Len(fails)>>
  BY <1>3, <1>4, <1>5 DEF RunInv, FailuresListed
<1>7. verdict # "ok" => ui'.lines # {}
  <2>1. CASE ~TypedFailure
    BY <1>3, <2>1
  <2>2. CASE TypedFailure
    <3>1. PICK d \in DocIds : "failed" \in ToSet(log[d])
      BY <2>2 DEF TypedFailure
    <3>2. d \in ui.lines
      BY <1>2, <3>1, EventsTell
    <3> QED BY <1>3, <3>2
  <2> QED BY <2>1, <2>2
<1>8. ExitOK'
  BY <1>1, <1>3, <1>6, <1>7 DEF ExitOK
<1>9. RunShape' /\ Announced' /\ InOrder'
  BY <1>1 DEF RunInv, RunShape, Announced, InOrder, BeforeLoop, AtWork
<1>10. FailuresListed' /\ ScreenOK' /\ CommandVerdicts'
  BY <1>1 DEF RunInv, FailuresListed, ScreenOK, CommandVerdicts, BeforeLoop, After
<1> QED BY <1>8, <1>9, <1>10 DEF RunInv

\* Every step of a run keeps its invariant.
LEMMA RunStepKeeps == RunInv /\ [CommandNext]_runVars => RunInv'
<1> SUFFICES ASSUME RunInv, [CommandNext]_runVars PROVE RunInv'
  OBVIOUS
<1>1. ASSUME NEW d \in DocIds, FileChanges(d) PROVE RunInv'
  BY <1>1, FileChangesKeeps DEF FileChanges
<1>2. CASE UNCHANGED runVars
  BY <1>2, FileChangesKeeps DEF runVars
<1>3. CASE CommandStep
  BY <1>3, PlanKeeps, PreflightKeeps, PreflightDoneKeeps, ValidateKeeps, ChooseWorkerKeeps, StartKeeps, SkipKeeps,
     OpenKeeps, CopyKeeps, CommandPrepareKeeps, ConnectKeeps, ParseKeeps, CompleteKeeps, LoopDoneKeeps, DrainKeeps, ReportKeeps
     DEF CommandStep
<1> QED BY <1>1, <1>2, <1>3 DEF CommandNext

\* A command line run, for any number of documents: what each has logged is what the run
\* has done with it, and the list of failures is that of the logs (command/direct.rs, mod.rs).
THEOREM CommandInvariant == CommandSpec => []RunInv
BY RunStarts, RunStepKeeps, PTL DEF CommandSpec

\* The failures, events, exit code and summary of a run agree with each other and with
\* what was published, and no document is held past its limit.
THEOREM CommandIsHonest == CommandSpec => [](CommandHonest /\ HeldWithinLimits)
<1>1. RunInv => CommandHonest /\ HeldWithinLimits
  <2> SUFFICES ASSUME RunInv PROVE CommandHonest /\ HeldWithinLimits
    OBVIOUS
  <2>1. HeldWithinLimits
    BY DEF RunInv, RunShape, HeldWithinLimits
  <2>2. ASSUME verdict \in {"ok", "listed"}
        PROVE  /\ \A d \in DocIds : Ended(d)
               /\ ToSet(fails) = {d \in DocIds : Last(log[d]) = "failed"}
               /\ worker # "persistent"
    <3>1. \A d \in DocIds : TermOf(log[d]) # "none"
      BY <2>2 DEF RunInv, CommandVerdicts
    <3>2. {d \in DocIds : Last(log[d]) = "failed"} = {d \in DocIds : log[d] \in FailedLogs}
      BY <3>1, EventsTell
    <3> QED BY <2>2, <3>1, <3>2, EventsTell DEF RunInv, FailuresListed, Ended, CommandVerdicts
  <2>3. \A d \in DocIds :
          /\ \A i \in 1..(Len(log[d]) - 1) : log[d][i] \notin {"completed", "failed"}
          /\ "completed" \in ToSet(log[d]) => log[d] = <<"started", "prepared", "completed">>
    BY EventsTell DEF CompletedLog
  <2> QED BY <2>1, <2>2, <2>3 DEF CommandHonest, RunInv, FailuresListed, CommandVerdicts, ExitOK
<1> QED BY <1>1, CommandInvariant, PTL

-----------------------------------------------------------------------------
(* A run against a remote server.  The invariant tells where the tasks of   *)
(* past, present and future waves are, what each was told last, and that    *)
(* no URL of another origin is held.                                        *)

TaskOver == {"completed", "reported"}
Late == {"extract", "preview"}
Flying == {"poll", "download"}
ArchiveKept == {"zip", "failed"}
TaskPcs == {"planned"} \cup Flying \cup ArchiveKept \cup Late \cup TaskOver
ServerStates == {"unknown", "pending", "processing", "completed", "failed"}
TaskEvents == ServerStates \cup {"submitted", "downloading", "extracting", "warning"}
AnyUrl == Origins \cup Urls \cup {[u EXCEPT !.scheme = "https"] : u \in Urls}

RemoteShape ==
    /\ origin \in Origins
    /\ rpc \in {"start", "health", "wave", "publish", "done", "refused", "dropped"}
    /\ width \in Nat /\ width <= LocalLimit /\ first \in Tasks
    /\ rpc \in {"wave", "publish"} => width >= 1
    /\ job \in [Tasks -> [pc : TaskPcs, status : AnyUrl, result : AnyUrl]]
    /\ server \in [Tasks -> ServerStates]
    /\ taskLog \in [Tasks -> Seq(TaskEvents)]

\* Every URL the run holds has the origin of the API URL.
AtHome ==
    /\ contacted \subseteq {OriginOf(origin)}
    /\ \A t \in Tasks : SameOrigin(origin, job[t].status) /\ SameOrigin(origin, job[t].result)

\* Tasks before the wave have ended, tasks after it have not begun, and the
\* archives of the wave are taken in turn, after its last download.
InTurn ==
    /\ \A t \in Tasks : t < first => job[t].pc \in TaskOver
    /\ \A t \in Tasks : t >= first + width => job[t].pc = "planned"
    /\ \A s, t \in Tasks : s < t /\ job[t].pc \in Late \cup TaskOver => job[s].pc \in TaskOver
    /\ rpc \in {"start", "health", "refused"} => width = 0 /\ first = 1
    /\ rpc = "wave" => \A t \in Tasks : job[t].pc \notin Late
    /\ rpc = "publish" => \A t \in Tasks : t < first + width => job[t].pc \notin {"planned"} \cup Flying
    /\ rpc = "done" => \A t \in Tasks : job[t].pc \in TaskOver
    /\ \A s, t \in Tasks : job[t].pc \in Late => job[s].pc \notin Flying

\* The failures are the tasks reported so far, in order.
FailuresKept ==
    /\ failures \in Seq(Tasks)
    /\ \A i, j \in DOMAIN failures : i < j => failures[i] < failures[j]
    /\ ToSet(failures) = {t \in Tasks : job[t].pc = "reported"}

\* The last event of a task that ended says how; only what the server
\* completed is downloaded.
TasksTold ==
    \A t \in Tasks :
       /\ job[t].pc = "reported" => taskLog[t] # <<>> /\ Last(taskLog[t]) = "failed"
       /\ job[t].pc = "completed" => taskLog[t] # <<>> /\ Last(taskLog[t]) = "completed"
       /\ job[t].pc \in {"download", "zip", "extract", "preview", "completed"} => server[t] = "completed"

RemoteInv == RemoteShape /\ AtHome /\ InTurn /\ FailuresKept /\ TasksTold

\* There is a task at least, and room for one in a wave.
LEMMA TasksAre == NTasks \in Nat /\ NTasks >= 1 /\ LocalLimit \in Nat /\ LocalLimit >= 1 /\ Tasks \subseteq Nat
BY RemoteAssumption DEF Tasks

\* The least of three numbers.
LEMMA LeastOfThree ==
  ASSUME NEW a \in Int, NEW b \in Int, NEW c \in Int
  PROVE  Min({a, b, c}) \in {a, b, c} /\ Min({a, b, c}) <= a /\ Min({a, b, c}) <= b /\ Min({a, b, c}) <= c
<1>1. \E x \in {a, b, c} : \A y \in {a, b, c} : x <= y
  <2>1. CASE a <= b /\ a <= c
    BY <2>1
  <2>2. CASE b <= a /\ b <= c
    BY <2>2
  <2>3. CASE c <= a /\ c <= b
    BY <2>3
  <2> QED BY <2>1, <2>2, <2>3
<1> QED BY <1>1 DEF Min

\* The least of two numbers.
LEMMA LeastOfTwo ==
  ASSUME NEW a \in Int, NEW b \in Int
  PROVE  Min({a, b}) = IF a <= b THEN a ELSE b
<1>1. \E x \in {a, b} : \A y \in {a, b} : x <= y
  <2>1. CASE a <= b
    BY <2>1
  <2>2. CASE b <= a
    BY <2>2
  <2> QED BY <2>1, <2>2
<1>2. Min({a, b}) \in {a, b} /\ Min({a, b}) <= a /\ Min({a, b}) <= b
  BY <1>1 DEF Min
<1> QED BY <1>2

\* The tasks of the wave, and its last one.
LEMMA WaveTasks ==
  ASSUME RemoteShape
  PROVE  \A t \in Tasks : t \in Wave <=> first <= t /\ t < first + width
<1>1. first \in Nat /\ width \in Nat /\ first + width - 1 \in Int /\ NTasks \in Int
  BY TasksAre DEF RemoteShape
<1>2. Min({first + width - 1, NTasks}) = IF first + width - 1 <= NTasks THEN first + width - 1 ELSE NTasks
  BY <1>1, LeastOfTwo
<1> QED BY <1>1, <1>2, TasksAre DEF Wave, Tasks

\* The last task of a wave.
LEMMA WaveEnd ==
  ASSUME RemoteShape, rpc = "publish"
  PROVE  Max(Wave) = IF first + width - 1 <= NTasks THEN first + width - 1 ELSE NTasks
<1>1. first \in Nat /\ width \in Nat /\ first + width - 1 \in Int /\ NTasks \in Int /\ width >= 1 /\ first <= NTasks
  BY TasksAre DEF RemoteShape, Tasks
<1> DEFINE m == IF first + width - 1 <= NTasks THEN first + width - 1 ELSE NTasks
<1>2. Min({first + width - 1, NTasks}) = m
  BY <1>1, LeastOfTwo
<1>3. m \in Nat /\ first <= m
  BY <1>1
<1>4. Wave = first .. m
  BY <1>2 DEF Wave
<1> HIDE DEF m
<1>5. m \in first .. m /\ \A y \in first .. m : m >= y
  BY <1>1, <1>3
<1>6. Max(first .. m) \in first .. m /\ Max(first .. m) >= m
  BY <1>5 DEF Max
<1>7. Max(first .. m) = m
  BY <1>1, <1>3, <1>6
<1> QED BY <1>4, <1>7 DEF m

\* A URL that was made canonical has the origin of the API URL.
LEMMA HomeUrls ==
  ASSUME NEW u \in Urls, Canonical(u) # {}, NEW v, v = CHOOSE w \in Canonical(u) : TRUE
  PROVE  v \in AnyUrl /\ SameOrigin(origin, v)
<1>1. v \in Canonical(u)
  OBVIOUS
<1>2. CASE SameOrigin(origin, u)
  BY <1>1, <1>2 DEF Canonical, AnyUrl
<1>3. CASE ~ SameOrigin(origin, u)
  <2>1. v \in {w \in {[u EXCEPT !.scheme = "https"]} : SameOrigin(origin, w)}
    BY <1>1, <1>3 DEF Canonical
  <2> QED BY <2>1 DEF AnyUrl
<1> QED BY <1>2, <1>3

\* URLs of one origin have one origin.
LEMMA SameIsHome == ASSUME NEW u, SameOrigin(origin, u) PROVE OriginOf(u) = OriginOf(origin)
BY DEF SameOrigin, OriginOf

\* A request to a URL of that origin goes home.
LEMMA ContactHome ==
  ASSUME RemoteShape, AtHome, NEW u, SameOrigin(origin, u), Contact(u)
  PROVE  contacted' \subseteq {OriginOf(origin)}
BY SameIsHome DEF AtHome, Contact

\* An event is the last of its task, and of no other.
LEMMA EventTold ==
  ASSUME RemoteShape, NEW t \in Tasks, NEW e \in TaskEvents, EmitTask(t, e)
  PROVE  /\ taskLog' \in [Tasks -> Seq(TaskEvents)] /\ \A s \in Tasks \ {t} : taskLog'[s] = taskLog[s]
         /\ taskLog'[t] # <<>> /\ Last(taskLog'[t]) = e
<1>1. taskLog[t] \in Seq(TaskEvents)
  BY DEF RemoteShape
<1>2. Append(taskLog[t], e) \in Seq(TaskEvents) /\ Len(Append(taskLog[t], e)) = Len(taskLog[t]) + 1
      /\ Append(taskLog[t], e)[Len(taskLog[t]) + 1] = e
  BY <1>1
<1>3. taskLog'[t] = Append(taskLog[t], e) /\ \A s \in Tasks \ {t} : taskLog'[s] = taskLog[s]
  BY DEF EmitTask, RemoteShape
<1>4. Append(taskLog[t], e) # <<>>
  BY <1>1
<1>5. Last(taskLog'[t]) = e
  BY <1>2, <1>3 DEF Last
<1> QED BY <1>2, <1>3, <1>4, <1>5 DEF EmitTask, RemoteShape

\* A task moves: only its own record changes.
LEMMA PcMoves ==
  ASSUME RemoteShape, NEW t \in Tasks, NEW q \in TaskPcs, job' = [job EXCEPT ![t].pc = q]
  PROVE  /\ job' \in [Tasks -> [pc : TaskPcs, status : AnyUrl, result : AnyUrl]]
         /\ job'[t].pc = q /\ \A s \in Tasks \ {t} : job'[s] = job[s]
         /\ \A s \in Tasks : job'[s].status = job[s].status /\ job'[s].result = job[s].result
BY DEF RemoteShape

\* What turns require of a task's move.
LEMMA TurnKept ==
  ASSUME RemoteShape, InTurn, NEW t \in Tasks, \A s \in Tasks \ {t} : job'[s] = job[s],
         UNCHANGED <<rpc, width, first>>, first <= t, t < first + width,
         \/ /\ rpc = "wave" /\ job'[t].pc \in Flying \cup ArchiveKept /\ job[t].pc \notin Late \cup TaskOver
         \/ /\ rpc = "publish" /\ job'[t].pc \in Late \cup TaskOver /\ job[t].pc \notin TaskOver
            /\ \A s \in Tasks : s < t => job[s].pc \in TaskOver
  PROVE  InTurn'
<1>1. t \in Nat /\ first \in Nat /\ width \in Nat
  BY TasksAre DEF RemoteShape
<1>2. \A s \in Tasks : s \in Nat
  BY TasksAre
<1>3. CASE rpc = "wave" /\ job'[t].pc \in Flying \cup ArchiveKept /\ job[t].pc \notin Late \cup TaskOver
  <2>1. \A s \in Tasks : job'[s].pc \notin Late
    BY <1>3 DEF InTurn, Flying, ArchiveKept, Late
  <2>2. \A s \in Tasks : s < first' => job'[s].pc \in TaskOver
    BY <1>1, <1>2 DEF InTurn
  <2>3. \A s \in Tasks : s >= first' + width' => job'[s].pc = "planned"
    BY <1>1, <1>2 DEF InTurn
  <2>4. ASSUME NEW r \in Tasks, NEW s \in Tasks, r < s, job'[s].pc \in Late \cup TaskOver PROVE job'[r].pc \in TaskOver
    <3>1. s # t
      BY <1>3, <2>4 DEF Flying, ArchiveKept, Late, TaskOver
    <3>2. job[r].pc \in TaskOver
      BY <2>4, <3>1 DEF InTurn
    <3>3. r # t
      BY <1>3, <3>2
    <3> QED BY <3>2, <3>3
  <2> QED BY <1>3, <2>1, <2>2, <2>3, <2>4 DEF InTurn
<1>4. CASE /\ rpc = "publish" /\ job'[t].pc \in Late \cup TaskOver /\ job[t].pc \notin TaskOver
           /\ \A s \in Tasks : s < t => job[s].pc \in TaskOver
  <2>1. \A s \in Tasks : job[s].pc \notin Flying
    <3> SUFFICES ASSUME NEW s \in Tasks PROVE job[s].pc \notin Flying
      OBVIOUS
    <3>1. CASE s < first + width
      BY <1>4, <3>1 DEF InTurn
    <3>2. CASE s >= first + width
      BY <3>2 DEF InTurn, Flying
    <3>3. s \in Nat /\ first + width \in Nat
      BY <1>1, <1>2
    <3> QED BY <3>1, <3>2, <3>3
  <2>2. \A s \in Tasks : job'[s].pc \notin Flying
    BY <1>4, <2>1 DEF Flying, Late, TaskOver
  <2>3. \A s \in Tasks : s < first' => job'[s].pc \in TaskOver
    BY <1>1, <1>2 DEF InTurn
  <2>4. \A s \in Tasks : s >= first' + width' => job'[s].pc = "planned"
    BY <1>1, <1>2 DEF InTurn
  <2>5. ASSUME NEW r \in Tasks, NEW s \in Tasks, r < s, job'[s].pc \in Late \cup TaskOver PROVE job'[r].pc \in TaskOver
    <3>1. CASE s = t
      BY <1>1, <1>2, <1>4, <2>5, <3>1
    <3>2. CASE s # t
      <4>1. job[r].pc \in TaskOver
        BY <2>5, <3>2 DEF InTurn
      <4> QED BY <1>4, <4>1
    <3> QED BY <3>1, <3>2
  <2>6. \A s \in Tasks : s < first' + width' => job'[s].pc \notin {"planned"} \cup Flying
    BY <1>4 DEF InTurn, Late, TaskOver, Flying
  <2> QED BY <1>4, <2>2, <2>3, <2>4, <2>5, <2>6 DEF InTurn
<1> QED BY <1>3, <1>4

\* Where a task that moves can be.
LEMMA InTheWave ==
  ASSUME RemoteShape, InTurn, NEW t \in Tasks, job[t].pc \notin {"planned"} \cup TaskOver
  PROVE  first <= t /\ t < first + width
<1>1. t \in Nat /\ first \in Nat /\ width \in Nat
  BY TasksAre DEF RemoteShape
<1> QED BY <1>1 DEF InTurn

\* A step of one task leaves what the others were told.
LEMMA OthersTold ==
  ASSUME TasksTold, NEW t \in Tasks, \A s \in Tasks \ {t} : job'[s] = job[s] /\ taskLog'[s] = taskLog[s] /\ server'[s] = server[s],
         /\ job'[t].pc = "reported" => taskLog'[t] # <<>> /\ Last(taskLog'[t]) = "failed"
         /\ job'[t].pc = "completed" => taskLog'[t] # <<>> /\ Last(taskLog'[t]) = "completed"
         /\ job'[t].pc \in {"download", "zip", "extract", "preview", "completed"} => server'[t] = "completed"
  PROVE  TasksTold'
BY DEF TasksTold

\* A task of the wave moves on, or fails, without being reported.
LEMMA WaveTaskMoves ==
  ASSUME RemoteInv, rpc = "wave", NEW t \in Tasks, first <= t, t < first + width,
         job[t].pc \notin Late \cup TaskOver, NEW q \in Flying \cup ArchiveKept, job' = [job EXCEPT ![t].pc = q],
         q \in {"download", "zip"} => server[t] = "completed",
         taskLog' \in [Tasks -> Seq(TaskEvents)], \A s \in Tasks \ {t} : taskLog'[s] = taskLog[s],
         contacted' \subseteq {OriginOf(origin)}, UNCHANGED <<origin, rpc, width, first, server, failures>>
  PROVE  RemoteInv'
<1>1. q \in TaskPcs /\ q \notin Late \cup TaskOver
  BY DEF TaskPcs, Flying, ArchiveKept, Late, TaskOver
<1>2. /\ job' \in [Tasks -> [pc : TaskPcs, status : AnyUrl, result : AnyUrl]]
      /\ job'[t].pc = q /\ \A s \in Tasks \ {t} : job'[s] = job[s]
      /\ \A s \in Tasks : job'[s].status = job[s].status /\ job'[s].result = job[s].result
  BY <1>1, PcMoves DEF RemoteInv
<1>3. RemoteShape'
  BY <1>2 DEF RemoteInv, RemoteShape
<1>4. AtHome'
  <2>1. \A s \in Tasks : SameOrigin(origin, job'[s].status) /\ SameOrigin(origin, job'[s].result)
    BY <1>2 DEF RemoteInv, AtHome
  <2>2. origin' = origin
    OBVIOUS
  <2> QED BY <2>1, <2>2 DEF AtHome
<1>5. InTurn'
  BY <1>2, TurnKept DEF RemoteInv
<1>6. FailuresKept'
  <2>1. {s \in Tasks : job'[s].pc = "reported"} = {s \in Tasks : job[s].pc = "reported"}
    BY <1>1, <1>2 DEF TaskOver
  <2> QED BY <2>1 DEF RemoteInv, FailuresKept
<1>7. TasksTold'
  BY <1>1, <1>2, OthersTold DEF RemoteInv, Flying, ArchiveKept, TaskOver
<1> QED BY <1>3, <1>4, <1>5, <1>6, <1>7 DEF RemoteInv

\* An archive moves on, or its task ends, in its turn.
LEMMA TurnMoves ==
  ASSUME RemoteInv, rpc = "publish", NEW t \in Tasks, first <= t, t < first + width,
         \A s \in Tasks : s < t => job[s].pc \in TaskOver,
         job[t].pc \notin TaskOver, NEW q \in Late \cup TaskOver, job' = [job EXCEPT ![t].pc = q],
         q # "reported" => server[t] = "completed",
         taskLog' \in [Tasks -> Seq(TaskEvents)], \A s \in Tasks \ {t} : taskLog'[s] = taskLog[s],
         q = "reported" => taskLog'[t] # <<>> /\ Last(taskLog'[t]) = "failed" /\ failures' = Append(failures, t),
         q # "reported" => failures' = failures,
         q = "completed" => taskLog'[t] # <<>> /\ Last(taskLog'[t]) = "completed",
         UNCHANGED <<origin, rpc, width, first, server, contacted>>
  PROVE  RemoteInv'
<1>1. q \in TaskPcs
  BY DEF TaskPcs, Late, TaskOver
<1>2. /\ job' \in [Tasks -> [pc : TaskPcs, status : AnyUrl, result : AnyUrl]]
      /\ job'[t].pc = q /\ \A s \in Tasks \ {t} : job'[s] = job[s]
      /\ \A s \in Tasks : job'[s].status = job[s].status /\ job'[s].result = job[s].result
  BY <1>1, PcMoves DEF RemoteInv
<1>3. RemoteShape'
  BY <1>2 DEF RemoteInv, RemoteShape
<1>4. AtHome'
  <2>1. \A s \in Tasks : SameOrigin(origin, job'[s].status) /\ SameOrigin(origin, job'[s].result)
    BY <1>2 DEF RemoteInv, AtHome
  <2>2. origin' = origin /\ contacted' \subseteq {OriginOf(origin)}
    BY DEF RemoteInv, AtHome
  <2> QED BY <2>1, <2>2 DEF AtHome
<1>5. InTurn'
  BY <1>2, TurnKept DEF RemoteInv
<1>6. FailuresKept'
  <2>1. CASE q # "reported"
    <3>1. {s \in Tasks : job'[s].pc = "reported"} = {s \in Tasks : job[s].pc = "reported"}
      BY <1>2, <2>1 DEF TaskOver
    <3> QED BY <2>1, <3>1 DEF RemoteInv, FailuresKept
  <2>2. CASE q = "reported"
    <3>1. {s \in Tasks : job'[s].pc = "reported"} = {s \in Tasks : job[s].pc = "reported"} \cup {t}
      BY <1>2, <2>2
    <3>2. failures \in Seq(Tasks) /\ failures' = Append(failures, t)
      BY <2>2 DEF RemoteInv, FailuresKept
    <3>3. /\ failures' \in Seq(Tasks) /\ Len(failures') = Len(failures) + 1 /\ failures'[Len(failures) + 1] = t
          /\ \A i \in 1..Len(failures) : failures'[i] = failures[i]
      BY <3>2
    <3>4. ToSet(failures') = ToSet(failures) \cup {t}
      BY <3>2, AppendSet
    <3>5. \A i \in 1..Len(failures) : failures[i] < t
      <4> SUFFICES ASSUME NEW i \in 1..Len(failures) PROVE failures[i] < t
        OBVIOUS
      <4>1. failures[i] \in ToSet(failures) /\ failures[i] \in Tasks
        BY <3>2 DEF ToSet
      <4>2. job[failures[i]].pc = "reported"
        BY <4>1 DEF RemoteInv, FailuresKept
      <4>3. failures[i] # t
        BY <4>2 DEF TaskOver
      <4>4. ~ (t < failures[i])
        BY <4>1, <4>2 DEF RemoteInv, InTurn, TaskOver
      <4> QED BY <4>1, <4>3, <4>4, TasksAre
    <3>6. \A i, j \in DOMAIN failures' : i < j => failures'[i] < failures'[j]
      <4> SUFFICES ASSUME NEW i \in 1..Len(failures'), NEW j \in 1..Len(failures'), i < j PROVE failures'[i] < failures'[j]
        BY <3>3
      <4>1. CASE j = Len(failures) + 1
        <5>1. i \in 1..Len(failures)
          BY <3>2, <3>3, <4>1
        <5> QED BY <3>3, <3>5, <4>1, <5>1
      <4>2. CASE j # Len(failures) + 1
        <5>1. i \in 1..Len(failures) /\ j \in 1..Len(failures)
          BY <3>2, <3>3, <4>2
        <5> QED BY <3>2, <3>3, <5>1 DEF RemoteInv, FailuresKept
      <4> QED BY <4>1, <4>2
    <3> QED BY <3>1, <3>3, <3>4, <3>6 DEF RemoteInv, FailuresKept
  <2> QED BY <2>1, <2>2
<1>7. TasksTold'
  BY <1>2, OthersTold DEF RemoteInv, Late, TaskOver
<1> QED BY <1>3, <1>4, <1>5, <1>6, <1>7 DEF RemoteInv


\* A run starts with every task planned.
LEMMA RemoteStarts == RemoteInit => RemoteInv
<1> SUFFICES ASSUME RemoteInit PROVE RemoteInv
  OBVIOUS
<1>1. /\ \A t \in Tasks : job[t] = [pc |-> "planned", status |-> origin, result |-> origin]
      /\ \A t \in Tasks : t \in Nat /\ t >= 1
      /\ 1 \in Tasks /\ origin \in AnyUrl
  BY TasksAre DEF RemoteInit, Tasks, AnyUrl
<1>2. RemoteShape
  BY <1>1, TasksAre DEF RemoteInit, RemoteShape, TaskPcs, ServerStates
<1>3. AtHome
  BY <1>1 DEF RemoteInit, AtHome, SameOrigin
<1>4. InTurn
  BY <1>1 DEF RemoteInit, InTurn, Late, TaskOver, Flying
<1>5. FailuresKept
  <2>1. failures = <<>> /\ ToSet(<<>>) = {} /\ DOMAIN <<>> = {} /\ <<>> \in Seq(Tasks)
    BY DEF RemoteInit, ToSet
  <2> QED BY <1>1, <2>1 DEF FailuresKept
<1>6. TasksTold
  BY <1>1 DEF RemoteInit, TasksTold
<1> QED BY <1>2, <1>3, <1>4, <1>5, <1>6 DEF RemoteInv

\* Nothing a task, its log or the list of failures says changes.
LEMMA RunMoves ==
  ASSUME RemoteInv, UNCHANGED <<origin, first, job, server, taskLog, failures>>, contacted' \subseteq {OriginOf(origin)},
         \/ rpc' \in {"dropped"} /\ width' = width
         \/ rpc \in {"start", "health"} /\ rpc' \in {"health", "refused"} /\ width' = width
         \/ rpc = "health" /\ rpc' = "wave" /\ width' \in Nat /\ width' >= 1 /\ width' <= LocalLimit
         \/ rpc = "wave" /\ rpc' = "publish" /\ width' = width /\ \A t \in Wave : job[t].pc \in ArchiveKept
  PROVE  RemoteInv'
<1>1. RemoteShape'
  BY DEF RemoteInv, RemoteShape
<1>2. AtHome'
  <2>1. origin' = origin /\ job' = job
    OBVIOUS
  <2> QED BY <2>1 DEF RemoteInv, AtHome
<1>3. InTurn'
  <2>1. \A t \in Tasks : t \in Nat /\ t >= 1
    BY DEF Tasks
  <2>2. CASE rpc' \in {"dropped"} /\ width' = width
    BY <2>2 DEF RemoteInv, InTurn
  <2>3. CASE rpc \in {"start", "health"} /\ rpc' \in {"health", "refused"} /\ width' = width
    BY <2>3 DEF RemoteInv, InTurn
  <2>4. CASE rpc = "health" /\ rpc' = "wave" /\ width' \in Nat /\ width' >= 1 /\ width' <= LocalLimit
    <3>1. width = 0 /\ first = 1
      BY <2>4 DEF RemoteInv, InTurn
    <3>2. \A t \in Tasks : job[t].pc = "planned"
      BY <2>1, <3>1 DEF RemoteInv, InTurn
    <3> QED BY <2>1, <2>4, <3>1, <3>2 DEF InTurn, Late, TaskOver, Flying
  <2>5. CASE rpc = "wave" /\ rpc' = "publish" /\ width' = width /\ \A t \in Wave : job[t].pc \in ArchiveKept
    <3>1. ASSUME NEW t \in Tasks, t < first + width PROVE job[t].pc \notin {"planned"} \cup Flying
      <4>1. t \in Nat /\ first \in Nat
        BY <2>1, TasksAre DEF RemoteInv, RemoteShape
      <4>2. CASE t < first
        BY <4>2 DEF RemoteInv, InTurn, TaskOver, Flying
      <4>3. CASE first <= t
        <5>1. job[t].pc \in ArchiveKept
          BY <2>5, <3>1, <4>3, WaveTasks DEF RemoteInv
        <5> QED BY <5>1 DEF ArchiveKept, Flying
      <4> QED BY <4>1, <4>2, <4>3
    <3> QED BY <2>5, <3>1 DEF RemoteInv, InTurn
  <2> QED BY <2>2, <2>3, <2>4, <2>5
<1>4. FailuresKept' /\ TasksTold'
  BY DEF RemoteInv, FailuresKept, TasksTold
<1> QED BY <1>1, <1>2, <1>3, <1>4 DEF RemoteInv

\* The API URL is checked.
LEMMA StartKeepsRemote == ASSUME RemoteInv, StartRemote PROVE RemoteInv'
<1>1. contacted' \subseteq {OriginOf(origin)}
  BY DEF RemoteInv, AtHome, StartRemote
<1> QED BY <1>1, RunMoves DEF StartRemote

\* The server says how many tasks it takes.
LEMMA HealthKeeps == ASSUME RemoteInv, Health PROVE RemoteInv'
<1>1. SameOrigin(origin, origin)
  BY DEF SameOrigin
<1>2. contacted' \subseteq {OriginOf(origin)}
  BY <1>1, ContactHome DEF RemoteInv, Health
<1>3. CASE \E m \in ServerLimits : m > 0 /\ width' = Min({LocalLimit, m, NTasks}) /\ rpc' = "wave"
  <2>1. PICK m \in ServerLimits : m > 0 /\ width' = Min({LocalLimit, m, NTasks}) /\ rpc' = "wave"
    BY <1>3
  <2>2. m \in Int
    BY RemoteAssumption
  <2>3. width' \in {LocalLimit, m, NTasks} /\ width' <= LocalLimit
    BY <2>1, <2>2, LeastOfThree, TasksAre
  <2>4. width' \in Nat /\ width' >= 1
    BY <2>1, <2>2, <2>3, TasksAre
  <2> QED BY <1>2, <2>1, <2>3, <2>4, RunMoves DEF Health
<1>4. CASE rpc' = "refused" /\ UNCHANGED width
  BY <1>2, <1>4, RunMoves DEF Health
<1> QED BY <1>3, <1>4 DEF Health

\* The wave has every archive it will have.
LEMMA StagedKeeps == ASSUME RemoteInv, WaveStaged PROVE RemoteInv'
<1>1. contacted' \subseteq {OriginOf(origin)}
  BY DEF RemoteInv, AtHome, WaveStaged
<1> QED BY <1>1, RunMoves DEF WaveStaged, ArchiveKept

\* The run may be dropped.
LEMMA DropKeeps == ASSUME RemoteInv, DropRemote PROVE RemoteInv'
<1>1. contacted' \subseteq {OriginOf(origin)}
  BY DEF RemoteInv, AtHome, DropRemote
<1> QED BY <1>1, RunMoves DEF DropRemote

\* The server's own steps touch tasks it has not completed.
LEMMA ServerKeeps ==
  ASSUME RemoteInv, NEW t \in Tasks, ServerMoves(t) \/ ServerFails(t)
  PROVE  RemoteInv'
<1>1. /\ server' \in [Tasks -> ServerStates] /\ \A s \in Tasks : server[s] = "completed" => server'[s] = "completed"
      /\ UNCHANGED <<origin, rpc, width, first, job, taskLog, failures, contacted>>
  BY DEF RemoteInv, RemoteShape, ServerMoves, ServerFails, ServerStates
<1>2. RemoteShape'
  BY <1>1 DEF RemoteInv, RemoteShape
<1>3. AtHome'
  BY <1>1 DEF RemoteInv, AtHome
<1>4. InTurn' /\ FailuresKept'
  BY <1>1 DEF RemoteInv, InTurn, FailuresKept
<1>5. TasksTold'
  BY <1>1 DEF RemoteInv, TasksTold
<1> QED BY <1>2, <1>3, <1>4, <1>5 DEF RemoteInv

\* A task is submitted, or fails.
LEMMA RemoteSubmitKeeps == ASSUME RemoteInv, NEW t \in Tasks, Submit(t) PROVE RemoteInv'
<1>1. /\ rpc = "wave" /\ first <= t /\ t < first + width /\ job[t].pc = "planned"
      /\ server' = [server EXCEPT ![t] = "pending"] /\ UNCHANGED <<origin, rpc, width, first, failures>>
  BY WaveTasks DEF RemoteInv, Submit
<1>2. SameOrigin(origin, origin)
  BY DEF SameOrigin
<1>3. contacted' \subseteq {OriginOf(origin)}
  BY <1>2, ContactHome DEF RemoteInv, Submit
<1>4. /\ server' \in [Tasks -> ServerStates] /\ \A s \in Tasks \ {t} : server'[s] = server[s]
  BY <1>1 DEF RemoteInv, RemoteShape, ServerStates
<1>5. ASSUME job' \in [Tasks -> [pc : TaskPcs, status : AnyUrl, result : AnyUrl]], job'[t].pc \in {"poll", "failed"},
             \A s \in Tasks \ {t} : job'[s] = job[s],
             SameOrigin(origin, job'[t].status) /\ SameOrigin(origin, job'[t].result),
             taskLog' \in [Tasks -> Seq(TaskEvents)], \A s \in Tasks \ {t} : taskLog'[s] = taskLog[s]
      PROVE  RemoteInv'
  <2>1. RemoteShape'
    BY <1>1, <1>4, <1>5 DEF RemoteInv, RemoteShape
  <2>2. AtHome'
    <3>1. \A s \in Tasks : SameOrigin(origin, job'[s].status) /\ SameOrigin(origin, job'[s].result)
      BY <1>5 DEF RemoteInv, AtHome
    <3>2. origin' = origin
      BY <1>1
    <3> QED BY <1>3, <3>1, <3>2 DEF AtHome
  <2>3. InTurn'
    <3>1. job'[t].pc \in Flying \cup ArchiveKept /\ job[t].pc \notin Late \cup TaskOver
      BY <1>1, <1>5 DEF Flying, ArchiveKept, Late, TaskOver
    <3> QED BY <1>1, <1>5, <3>1, TurnKept DEF RemoteInv
  <2>4. FailuresKept'
    <3>1. {s \in Tasks : job'[s].pc = "reported"} = {s \in Tasks : job[s].pc = "reported"}
      BY <1>1, <1>5
    <3> QED BY <1>1, <3>1 DEF RemoteInv, FailuresKept
  <2>5. TasksTold'
    BY <1>4, <1>5, OthersTold DEF RemoteInv
  <2> QED BY <2>1, <2>2, <2>3, <2>4, <2>5 DEF RemoteInv
<1>6. CASE Fail(t) /\ UNCHANGED taskLog
  <2>1. "failed" \in TaskPcs
    BY DEF TaskPcs, ArchiveKept
  <2>2. /\ job' \in [Tasks -> [pc : TaskPcs, status : AnyUrl, result : AnyUrl]]
        /\ job'[t].pc = "failed" /\ \A s \in Tasks \ {t} : job'[s] = job[s]
        /\ \A s \in Tasks : job'[s].status = job[s].status /\ job'[s].result = job[s].result
    BY <1>6, <2>1, PcMoves DEF RemoteInv, Fail
  <2>3. SameOrigin(origin, job'[t].status) /\ SameOrigin(origin, job'[t].result)
    BY <2>2 DEF RemoteInv, AtHome
  <2> QED BY <1>5, <1>6, <2>2, <2>3 DEF RemoteInv, RemoteShape
<1>7. ASSUME NEW s \in Urls, NEW r \in Urls, Canonical(s) # {}, Canonical(r) # {},
             job' = [job EXCEPT ![t] = [pc |-> "poll", status |-> CHOOSE u \in Canonical(s) : TRUE,
                                        result |-> CHOOSE u \in Canonical(r) : TRUE]],
             EmitTask(t, "submitted")
      PROVE  RemoteInv'
  <2> DEFINE a == CHOOSE u \in Canonical(s) : TRUE
             b == CHOOSE u \in Canonical(r) : TRUE
  <2>1. a \in AnyUrl /\ SameOrigin(origin, a) /\ b \in AnyUrl /\ SameOrigin(origin, b)
    BY <1>7, HomeUrls
  <2>2. job' = [job EXCEPT ![t] = [pc |-> "poll", status |-> a, result |-> b]]
    BY <1>7
  <2> HIDE DEF a, b
  <2>3. "poll" \in TaskPcs /\ "submitted" \in TaskEvents
    BY DEF TaskPcs, Flying, TaskEvents
  <2>4. /\ job' \in [Tasks -> [pc : TaskPcs, status : AnyUrl, result : AnyUrl]]
        /\ job'[t] = [pc |-> "poll", status |-> a, result |-> b] /\ \A x \in Tasks \ {t} : job'[x] = job[x]
    BY <2>1, <2>2, <2>3 DEF RemoteInv, RemoteShape
  <2>5. taskLog' \in [Tasks -> Seq(TaskEvents)] /\ \A x \in Tasks \ {t} : taskLog'[x] = taskLog[x]
    BY <1>7, <2>3, EventTold DEF RemoteInv
  <2>6. job'[t].pc \in {"poll", "failed"} /\ SameOrigin(origin, job'[t].status) /\ SameOrigin(origin, job'[t].result)
    BY <2>1, <2>4
  <2> QED BY <1>5, <2>4, <2>5, <2>6
<1>8. \/ \E s, r \in Urls :
             /\ Canonical(s) # {} /\ Canonical(r) # {}
             /\ job' = [job EXCEPT ![t] = [pc |-> "poll", status |-> CHOOSE u \in Canonical(s) : TRUE,
                                        result |-> CHOOSE u \in Canonical(r) : TRUE]]
             /\ EmitTask(t, "submitted")
      \/ Fail(t) /\ UNCHANGED taskLog
  BY DEF Submit
<1> QED BY <1>6, <1>7, <1>8

\* It is polled, and its events told.
LEMMA PollKeeps == ASSUME RemoteInv, NEW t \in Tasks, Poll(t) PROVE RemoteInv'
<1>1. /\ rpc = "wave" /\ job[t].pc = "poll" /\ UNCHANGED <<origin, rpc, width, first, server, failures>>
  BY DEF Poll
<1>2. first <= t /\ t < first + width
  BY <1>1, InTheWave DEF RemoteInv, TaskOver
<1>3. contacted' \subseteq {OriginOf(origin)}
  BY ContactHome DEF RemoteInv, AtHome, Poll
<1>4. job[t].pc \notin Late \cup TaskOver
  BY <1>1 DEF Late, TaskOver
<1>5. taskLog \in [Tasks -> Seq(TaskEvents)] /\ job = [job EXCEPT ![t].pc = "poll"]
  BY <1>1 DEF RemoteInv, RemoteShape
<1>6. ServerStates \subseteq TaskEvents /\ server[t] \in ServerStates /\ "downloading" \in TaskEvents
  BY DEF TaskEvents, RemoteInv, RemoteShape
<1>7. "poll" \in Flying \cup ArchiveKept /\ "download" \in Flying \cup ArchiveKept /\ "failed" \in Flying \cup ArchiveKept
  BY DEF Flying, ArchiveKept
<1>8. CASE EmitTask(t, server[t]) /\ UNCHANGED job
  <2>1. taskLog' \in [Tasks -> Seq(TaskEvents)] /\ \A s \in Tasks \ {t} : taskLog'[s] = taskLog[s]
    BY <1>6, <1>8, EventTold DEF RemoteInv
  <2> QED BY <1>1, <1>2, <1>3, <1>4, <1>5, <1>7, <1>8, <2>1, WaveTaskMoves
<1>9. CASE UNCHANGED <<job, taskLog>>
  BY <1>1, <1>2, <1>3, <1>4, <1>5, <1>7, <1>9, WaveTaskMoves
<1>10. CASE server[t] = "completed" /\ job' = [job EXCEPT ![t].pc = "download"] /\ EmitTask(t, "downloading")
  <2>1. taskLog' \in [Tasks -> Seq(TaskEvents)] /\ \A s \in Tasks \ {t} : taskLog'[s] = taskLog[s]
    BY <1>6, <1>10, EventTold DEF RemoteInv
  <2> QED BY <1>1, <1>2, <1>3, <1>4, <1>7, <1>10, <2>1, WaveTaskMoves
<1>11. CASE Fail(t) /\ UNCHANGED taskLog
  BY <1>1, <1>2, <1>3, <1>4, <1>5, <1>7, <1>11, WaveTaskMoves DEF Fail
<1> QED BY <1>8, <1>9, <1>10, <1>11 DEF Poll

\* The poll ends with an error or at its deadline.
LEMMA PollEndsKeeps == ASSUME RemoteInv, NEW t \in Tasks, PollEnds(t) PROVE RemoteInv'
<1>1. first <= t /\ t < first + width
  BY InTheWave DEF RemoteInv, TaskOver, PollEnds
<1>2. job[t].pc \notin Late \cup TaskOver /\ "failed" \in Flying \cup ArchiveKept /\ taskLog \in [Tasks -> Seq(TaskEvents)]
      /\ contacted \subseteq {OriginOf(origin)}
  BY DEF Late, TaskOver, ArchiveKept, PollEnds, RemoteInv, RemoteShape, AtHome
<1> QED BY <1>1, <1>2, WaveTaskMoves DEF PollEnds, Fail

\* A redirect is refused.
LEMMA RedirectedKeeps == ASSUME RemoteInv, NEW t \in Tasks, Redirected(t) PROVE RemoteInv'
<1>1. /\ rpc = "wave" /\ job[t].pc \in Flying /\ UNCHANGED <<origin, rpc, width, first, server, taskLog, failures>>
  BY DEF Redirected, Flying
<1>2. first <= t /\ t < first + width
  BY <1>1, InTheWave DEF RemoteInv, TaskOver, Flying
<1>3. job[t].pc \notin Late \cup TaskOver /\ "failed" \in Flying \cup ArchiveKept /\ taskLog \in [Tasks -> Seq(TaskEvents)]
      /\ contacted \subseteq {OriginOf(origin)}
  BY <1>1 DEF Late, TaskOver, ArchiveKept, Flying, RemoteInv, RemoteShape, AtHome
<1>4. ASSUME NEW u \in Urls, Follow(u), Contact(u), UNCHANGED job PROVE RemoteInv'
  <2>1. contacted' \subseteq {OriginOf(origin)}
    BY <1>4, ContactHome DEF RemoteInv, Follow
  <2>2. job' = [job EXCEPT ![t].pc = job[t].pc]
    BY <1>4 DEF RemoteInv, RemoteShape
  <2>3. job[t].pc \in {"download", "zip"} => server[t] = "completed"
    BY DEF RemoteInv, TasksTold
  <2> QED BY <1>1, <1>2, <1>3, <2>1, <2>2, <2>3, WaveTaskMoves
<1>5. CASE Fail(t) /\ UNCHANGED contacted
  BY <1>1, <1>2, <1>3, <1>5, WaveTaskMoves DEF Fail
<1> QED BY <1>4, <1>5 DEF Redirected

\* The archive is downloaded, or its download fails.
LEMMA DownloadKeeps == ASSUME RemoteInv, NEW t \in Tasks, Download(t) PROVE RemoteInv'
<1>1. /\ rpc = "wave" /\ job[t].pc = "download" /\ UNCHANGED <<origin, rpc, width, first, server, taskLog, failures>>
  BY DEF Download
<1>2. first <= t /\ t < first + width
  BY <1>1, InTheWave DEF RemoteInv, TaskOver
<1>3. job[t].pc \notin Late \cup TaskOver /\ {"zip", "failed"} \subseteq Flying \cup ArchiveKept /\ taskLog \in [Tasks -> Seq(TaskEvents)]
      /\ server[t] = "completed"
  BY <1>1 DEF Late, TaskOver, ArchiveKept, Flying, RemoteInv, RemoteShape, TasksTold
<1>4. contacted' \subseteq {OriginOf(origin)}
  BY ContactHome DEF RemoteInv, AtHome, Download
<1>5. \E q \in {"zip", "failed"} : job' = [job EXCEPT ![t].pc = q]
  BY DEF Download, Fail
<1> QED BY <1>1, <1>2, <1>3, <1>4, <1>5, WaveTaskMoves

\* A task whose turn it is: those before it have ended.
LEMMA TurnIs ==
  ASSUME RemoteInv, NEW t \in Tasks, Turn(t)
  PROVE  /\ rpc = "publish" /\ first <= t /\ t < first + width
         /\ \A s \in Tasks : s < t => job[s].pc \in TaskOver
<1>1. first <= t /\ t < first + width
  BY WaveTasks DEF RemoteInv, Turn
<1>2. ASSUME NEW s \in Tasks, s < t PROVE job[s].pc \in TaskOver
  <2>1. s \in Nat /\ t \in Nat /\ first \in Nat
    BY TasksAre DEF RemoteInv, RemoteShape
  <2>2. CASE s < first
    BY <2>2 DEF RemoteInv, InTurn
  <2>3. CASE first <= s
    <3>1. s \in first .. (t - 1)
      BY <1>2, <2>1, <2>3
    <3> QED BY <3>1 DEF Turn, TaskOver
  <2> QED BY <2>1, <2>2, <2>3
<1> QED BY <1>1, <1>2 DEF Turn

\* So have those before a task that is being published.
LEMMA OpenIs ==
  ASSUME RemoteInv, NEW t \in Tasks, job[t].pc \in Late
  PROVE  /\ first <= t /\ t < first + width /\ \A s \in Tasks : s < t => job[s].pc \in TaskOver
         /\ job[t].pc \notin TaskOver /\ server[t] = "completed"
<1>1. job[t].pc \notin {"planned"} \cup TaskOver
  BY DEF Late, TaskOver
<1>2. first <= t /\ t < first + width
  BY <1>1, InTheWave DEF RemoteInv
<1>3. \A s \in Tasks : s < t => job[s].pc \in TaskOver
  BY DEF RemoteInv, InTurn
<1>4. server[t] = "completed"
  BY DEF RemoteInv, TasksTold, Late
<1> QED BY <1>1, <1>2, <1>3, <1>4

\* The failure of a task is reported in its turn.
LEMMA RemoteReportKeeps == ASSUME RemoteInv, NEW t \in Tasks, Report(t) PROVE RemoteInv'
<1>1. /\ rpc = "publish" /\ first <= t /\ t < first + width /\ \A s \in Tasks : s < t => job[s].pc \in TaskOver
  BY TurnIs DEF Report
<1>2. "failed" \in TaskEvents /\ "reported" \in Late \cup TaskOver /\ job[t].pc \notin TaskOver
  BY DEF TaskEvents, ServerStates, TaskOver, Report
<1>3. /\ taskLog' \in [Tasks -> Seq(TaskEvents)] /\ \A s \in Tasks \ {t} : taskLog'[s] = taskLog[s]
      /\ taskLog'[t] # <<>> /\ Last(taskLog'[t]) = "failed"
  BY <1>2, EventTold DEF RemoteInv, Report
<1> QED BY <1>1, <1>2, <1>3, TurnMoves DEF Report

\* The archive is opened in its turn.
LEMMA ExtractKeeps == ASSUME RemoteInv, NEW t \in Tasks, Extract(t) PROVE RemoteInv'
<1>1. /\ rpc = "publish" /\ first <= t /\ t < first + width /\ \A s \in Tasks : s < t => job[s].pc \in TaskOver
  BY TurnIs DEF Extract
<1>2. "extracting" \in TaskEvents /\ "extract" \in Late \cup TaskOver /\ job[t].pc \notin TaskOver /\ server[t] = "completed"
  BY DEF TaskEvents, Late, TaskOver, Extract, RemoteInv, TasksTold
<1>3. /\ taskLog' \in [Tasks -> Seq(TaskEvents)] /\ \A s \in Tasks \ {t} : taskLog'[s] = taskLog[s]
  BY <1>2, EventTold DEF RemoteInv, Extract
<1> QED BY <1>1, <1>2, <1>3, TurnMoves DEF Extract

\* It is extracted, or fails.
LEMMA ExtractedKeeps == ASSUME RemoteInv, NEW t \in Tasks, Extracted(t) PROVE RemoteInv'
<1>1. job[t].pc \in Late /\ rpc = "publish" /\ UNCHANGED <<origin, rpc, width, first, server, contacted>>
  BY DEF Extracted, Late
<1>2. /\ first <= t /\ t < first + width /\ \A s \in Tasks : s < t => job[s].pc \in TaskOver
      /\ job[t].pc \notin TaskOver /\ server[t] = "completed"
  BY <1>1, OpenIs
<1>3. CASE job' = [job EXCEPT ![t].pc = "preview"] /\ UNCHANGED <<failures, taskLog>>
  <2>1. taskLog' \in [Tasks -> Seq(TaskEvents)] /\ "preview" \in Late \cup TaskOver
    BY <1>3 DEF RemoteInv, RemoteShape, Late
  <2> QED BY <1>1, <1>2, <1>3, <2>1, TurnMoves
<1>4. CASE job' = [job EXCEPT ![t].pc = "reported"] /\ failures' = Append(failures, t) /\ EmitTask(t, "failed")
  <2>1. "failed" \in TaskEvents /\ "reported" \in Late \cup TaskOver
    BY DEF TaskEvents, ServerStates, TaskOver
  <2>2. /\ taskLog' \in [Tasks -> Seq(TaskEvents)] /\ \A s \in Tasks \ {t} : taskLog'[s] = taskLog[s]
        /\ taskLog'[t] # <<>> /\ Last(taskLog'[t]) = "failed"
    BY <1>4, <2>1, EventTold DEF RemoteInv
  <2> QED BY <1>1, <1>2, <1>4, <2>1, <2>2, TurnMoves
<1> QED BY <1>3, <1>4 DEF Extracted

\* It is previewed, and completed whatever the preview says.
LEMMA PreviewedKeeps == ASSUME RemoteInv, NEW t \in Tasks, Previewed(t) PROVE RemoteInv'
<1>1. /\ job[t].pc \in Late /\ rpc = "publish" /\ UNCHANGED <<origin, rpc, width, first, server, failures, contacted>>
      /\ job' = [job EXCEPT ![t].pc = "completed"]
  BY DEF Previewed, Late
<1>2. /\ first <= t /\ t < first + width /\ \A s \in Tasks : s < t => job[s].pc \in TaskOver
      /\ job[t].pc \notin TaskOver /\ server[t] = "completed"
  BY <1>1, OpenIs
<1>3. "completed" \in Late \cup TaskOver /\ "completed" \in TaskEvents /\ "warning" \in TaskEvents
  BY DEF TaskOver, TaskEvents, ServerStates
<1>4. CASE EmitTask(t, "completed")
  <2>1. /\ taskLog' \in [Tasks -> Seq(TaskEvents)] /\ \A s \in Tasks \ {t} : taskLog'[s] = taskLog[s]
        /\ taskLog'[t] # <<>> /\ Last(taskLog'[t]) = "completed"
    BY <1>3, <1>4, EventTold DEF RemoteInv
  <2> QED BY <1>1, <1>2, <1>3, <2>1, TurnMoves
<1>5. CASE taskLog' = [taskLog EXCEPT ![t] = @ \o <<"warning", "completed">>]
  <2> DEFINE l == taskLog[t]
             m == l \o <<"warning", "completed">>
  <2>1. l \in Seq(TaskEvents) /\ <<"warning", "completed">> \in Seq(TaskEvents) /\ Len(<<"warning", "completed">>) = 2
    BY <1>3 DEF RemoteInv, RemoteShape
  <2>2. m \in Seq(TaskEvents) /\ Len(m) = Len(l) + 2 /\ m[Len(l) + 2] = "completed"
    BY <2>1
  <2>3. taskLog'[t] = m /\ taskLog' \in [Tasks -> Seq(TaskEvents)] /\ \A s \in Tasks \ {t} : taskLog'[s] = taskLog[s]
    BY <1>5, <2>2 DEF RemoteInv, RemoteShape
  <2>4. m # <<>> /\ Last(m) = "completed"
    BY <2>1, <2>2 DEF Last
  <2> QED BY <1>1, <1>2, <1>3, <2>3, <2>4, TurnMoves
<1> QED BY <1>4, <1>5 DEF Previewed

\* Sorting a list that is in order keeps what it must.
LEMMA OrderKept ==
  ASSUME NEW s \in Seq(Tasks), \A i, j \in DOMAIN s : i < j => s[i] < s[j]
  PROVE  /\ InTaskOrder(s) \in Seq(Tasks) /\ ToSet(InTaskOrder(s)) = ToSet(s)
         /\ \A i, j \in DOMAIN InTaskOrder(s) : i < j => InTaskOrder(s)[i] < InTaskOrder(s)[j]
<1> DEFINE D == DOMAIN s
           OK(p) == \A i, j \in D : i < j => s[p[i]] <= s[p[j]]
           same == [i \in D |-> i]
           ranking == CHOOSE p \in Bijection(D, D) : OK(p)
<1>1. D = 1..Len(s) /\ Len(s) \in Nat /\ \A i \in D : s[i] \in Tasks /\ s[i] \in Nat /\ i \in Nat
  <2>1. D = 1..Len(s) /\ Len(s) \in Nat
    OBVIOUS
  <2>2. \A i \in D : s[i] \in Tasks /\ i \in Nat
    BY <2>1
  <2> QED BY <2>1, <2>2, TasksAre
<1>2. same \in Bijection(D, D)
  BY DEF Bijection, Injection, Surjection, IsInjective
<1>3. OK(same)
  BY <1>1
<1>4. ranking \in Bijection(D, D) /\ OK(ranking)
  <2> HIDE DEF D, OK, same
  <2> QED BY <1>2, <1>3
<1>5. InTaskOrder(s) = [i \in D |-> s[ranking[i]]]
  BY DEF InTaskOrder
<1> HIDE DEF ranking
<1>6. /\ ranking \in [D -> D] /\ \A i, j \in D : ranking[i] = ranking[j] => i = j
      /\ \A k \in D : \E i \in D : ranking[i] = k
  BY <1>4 DEF Bijection, Injection, Surjection, IsInjective
<1>7. InTaskOrder(s) \in Seq(Tasks) /\ DOMAIN InTaskOrder(s) = D
  BY <1>1, <1>5, <1>6
<1>8. ToSet(InTaskOrder(s)) = ToSet(s)
  <2> HIDE DEF D
  <2>1. ToSet(InTaskOrder(s)) = {s[ranking[i]] : i \in D}
    BY <1>5 DEF ToSet
  <2>2. ToSet(s) = {s[k] : k \in D}
    BY DEF ToSet, D
  <2> QED BY <1>6, <2>1, <2>2
<1>9. ASSUME NEW i \in D, NEW j \in D, i < j PROVE s[ranking[i]] < s[ranking[j]]
  <2>1. s[ranking[i]] <= s[ranking[j]]
    BY <1>4, <1>9
  <2>2. ranking[i] # ranking[j] /\ ranking[i] \in D /\ ranking[j] \in D
    <3>1. i \in Nat /\ j \in Nat /\ i # j
      BY <1>1, <1>9
    <3> QED BY <1>6, <3>1
  <2>3. s[ranking[i]] # s[ranking[j]]
    <3>1. ranking[i] < ranking[j] \/ ranking[j] < ranking[i]
      BY <1>1, <2>2
    <3>2. s[ranking[i]] \in Nat /\ s[ranking[j]] \in Nat
      BY <1>1, <2>2
    <3> QED BY <2>2, <3>1, <3>2
  <2> QED BY <1>1, <2>1, <2>2, <2>3
<1> QED BY <1>5, <1>7, <1>8, <1>9

\* The wave is published, and the next one begins or the run ends.
LEMMA PublishedKeeps == ASSUME RemoteInv, WavePublished PROVE RemoteInv'
<1>1. /\ rpc = "publish" /\ \A t \in Wave : job[t].pc \in TaskOver
      /\ UNCHANGED <<origin, width, job, server, taskLog, contacted>>
  BY DEF WavePublished, TaskOver
<1>2. first \in Nat /\ width \in Nat /\ width >= 1 /\ first <= NTasks /\ \A t \in Tasks : t \in Nat /\ t <= NTasks
  BY <1>1, TasksAre DEF RemoteInv, RemoteShape, Tasks
<1>3. Max(Wave) = IF first + width - 1 <= NTasks THEN first + width - 1 ELSE NTasks
  BY <1>1, WaveEnd DEF RemoteInv
<1>4. \A t \in Tasks : t < first + width => job[t].pc \in TaskOver
  BY <1>1, <1>2, WaveTasks DEF RemoteInv, InTurn
<1>5. AtHome' /\ TasksTold'
  <2>1. origin' = origin /\ job' = job /\ contacted' = contacted /\ taskLog' = taskLog /\ server' = server
    BY <1>1
  <2> QED BY <2>1 DEF RemoteInv, AtHome, TasksTold
<1>6. CASE Max(Wave) = NTasks /\ rpc' = "done" /\ failures' = InTaskOrder(failures) /\ UNCHANGED first
  <2>1. RemoteShape'
    BY <1>1, <1>6 DEF RemoteInv, RemoteShape
  <2>2. \A t \in Tasks : job[t].pc \in TaskOver
    BY <1>2, <1>3, <1>4, <1>6, TasksAre
  <2>3. InTurn'
    BY <1>1, <1>6, <2>2 DEF RemoteInv, InTurn
  <2>4. FailuresKept'
    <3>1. failures \in Seq(Tasks) /\ \A i, j \in DOMAIN failures : i < j => failures[i] < failures[j]
      BY DEF RemoteInv, FailuresKept
    <3>2. /\ failures' \in Seq(Tasks) /\ ToSet(failures') = ToSet(failures)
          /\ \A i, j \in DOMAIN failures' : i < j => failures'[i] < failures'[j]
      BY <1>6, <3>1, OrderKept
    <3> QED BY <1>1, <3>2 DEF RemoteInv, FailuresKept
  <2> QED BY <1>5, <2>1, <2>3, <2>4 DEF RemoteInv
<1>7. CASE Max(Wave) # NTasks /\ rpc' = "wave" /\ first' = Max(Wave) + 1 /\ UNCHANGED failures
  <2>1. first' = first + width /\ first' <= NTasks
    BY <1>2, <1>3, <1>7, TasksAre
  <2>2. first' \in Tasks
    BY <1>2, <2>1, TasksAre DEF Tasks
  <2>3. RemoteShape'
    BY <1>1, <1>2, <1>7, <2>2 DEF RemoteInv, RemoteShape
  <2>4. InTurn'
    <3>1. \A t \in Tasks : t < first' => job[t].pc \in TaskOver
      BY <1>4, <2>1
    <3>2. \A t \in Tasks : t >= first' + width => job[t].pc = "planned"
      BY <1>2, <2>1 DEF RemoteInv, InTurn
    <3>3. \A t \in Tasks : job[t].pc \in TaskOver \cup {"planned"}
      BY <1>2, <1>4 DEF RemoteInv, InTurn
    <3>4. \A t \in Tasks : job[t].pc \notin Late
      BY <3>3 DEF TaskOver, Late
    <3>5. \A s, t \in Tasks : s < t /\ job[t].pc \in Late \cup TaskOver => job[s].pc \in TaskOver
      BY DEF RemoteInv, InTurn
    <3> QED BY <1>1, <1>7, <3>1, <3>2, <3>4, <3>5 DEF InTurn
  <2>5. FailuresKept'
    BY <1>1, <1>7 DEF RemoteInv, FailuresKept
  <2> QED BY <1>5, <2>3, <2>4, <2>5 DEF RemoteInv
<1> QED BY <1>6, <1>7 DEF WavePublished

\* A stuttering step.
LEMMA RemoteStays == ASSUME RemoteInv, UNCHANGED remoteVars PROVE RemoteInv'
<1>1. /\ origin' = origin /\ rpc' = rpc /\ width' = width /\ first' = first /\ job' = job /\ server' = server
      /\ taskLog' = taskLog /\ failures' = failures /\ contacted' = contacted
  BY DEF remoteVars
<1>2. RemoteShape' /\ TasksTold'
  BY <1>1 DEF RemoteInv, RemoteShape, TasksTold
<1>3. AtHome' /\ InTurn' /\ FailuresKept'
  BY <1>1 DEF RemoteInv, AtHome, InTurn, FailuresKept
<1> QED BY <1>2, <1>3 DEF RemoteInv

\* A run against a remote server, for any number of tasks and any width of a wave: tasks
\* end in order, failures are those reported, and every URL it holds is of the origin of
\* its API URL (mineru_api/runner.rs, http.rs).
THEOREM RemoteInvariant == RemoteSpec => []RemoteInv
<1>1. RemoteInit => RemoteInv
  BY RemoteStarts
<1>2. RemoteInv /\ [RemoteNext]_remoteVars => RemoteInv'
  <2> SUFFICES ASSUME RemoteInv, [RemoteNext]_remoteVars PROVE RemoteInv'
    OBVIOUS
  <2>1. ASSUME NEW t \in Tasks,
               Submit(t) \/ PollEnds(t) \/ Download(t) \/ Report(t) \/ Extract(t) \/ Extracted(t) \/ Previewed(t)
        PROVE  RemoteInv'
    BY <2>1, RemoteSubmitKeeps, PollEndsKeeps, DownloadKeeps, RemoteReportKeeps, ExtractKeeps, ExtractedKeeps, PreviewedKeeps
  <2>2. CASE RemoteStep
    BY <2>1, <2>2, StartKeepsRemote, HealthKeeps, StagedKeeps, PublishedKeeps DEF RemoteStep
  <2>3. ASSUME NEW t \in Tasks, ServerMoves(t) \/ ServerFails(t) \/ Poll(t) \/ Redirected(t) PROVE RemoteInv'
    BY <2>3, ServerKeeps, PollKeeps, RedirectedKeeps
  <2>4. CASE DropRemote
    BY <2>4, DropKeeps
  <2>5. CASE UNCHANGED remoteVars
    BY <2>5, RemoteStays
  <2> QED BY <2>2, <2>3, <2>4, <2>5 DEF RemoteNext
<1> QED BY <1>1, <1>2, PTL DEF RemoteSpec

\* What the invariant says of a run.
LEMMA RemoteInvTells == RemoteInv => RunHonest /\ KeyStaysHome
<1> SUFFICES ASSUME RemoteInv PROVE RunHonest /\ KeyStaysHome
  OBVIOUS
<1>1. KeyStaysHome
  BY DEF RemoteInv, AtHome, KeyStaysHome
<1>2. ASSUME rpc = "done"
      PROVE  /\ ToSet(failures) = {t \in Tasks : job[t].pc = "reported"}
             /\ \A i \in 1..(Len(failures) - 1) : failures[i] < failures[i + 1]
             /\ \A t \in Tasks : Last(taskLog[t]) = IF t \in ToSet(failures) THEN "failed" ELSE "completed"
  <2>1. ToSet(failures) = {t \in Tasks : job[t].pc = "reported"}
    BY DEF RemoteInv, FailuresKept
  <2>2. ASSUME NEW i \in 1..(Len(failures) - 1) PROVE failures[i] < failures[i + 1]
    <3>1. i \in DOMAIN failures /\ i + 1 \in DOMAIN failures /\ i < i + 1
      BY DEF RemoteInv, FailuresKept
    <3> QED BY <3>1 DEF RemoteInv, FailuresKept
  <2>3. ASSUME NEW t \in Tasks PROVE Last(taskLog[t]) = IF t \in ToSet(failures) THEN "failed" ELSE "completed"
    <3>1. job[t].pc \in TaskOver
      BY <1>2 DEF RemoteInv, InTurn
    <3> QED BY <2>1, <3>1 DEF RemoteInv, TasksTold, TaskOver
  <2> QED BY <2>1, <2>2, <2>3
<1>3. \A t \in Tasks : job[t].pc = "completed" => server[t] = "completed"
  BY DEF RemoteInv, TasksTold
<1>4. first \in Nat /\ width \in Nat /\ width <= LocalLimit /\ \A t \in Tasks : t \in Nat
  BY TasksAre DEF RemoteInv, RemoteShape
<1>5. Cardinality(InFlight) <= width
  <2> DEFINE W == first .. (first + width - 1)
  <2>1. InFlight \subseteq W
    <3> SUFFICES ASSUME NEW t \in InFlight PROVE t \in W
      OBVIOUS
    <3>1. t \in Tasks /\ job[t].pc \notin {"planned"} \cup TaskOver
      BY DEF InFlight, TaskOver
    <3>2. first <= t /\ t < first + width
      BY <3>1, InTheWave DEF RemoteInv
    <3> QED BY <1>4, <3>1, <3>2
  <2>2. IsFiniteSet(W) /\ Cardinality(W) = IF first > first + width - 1 THEN 0 ELSE (first + width - 1) - first + 1
    <3>1. first \in Int /\ first + width - 1 \in Int
      BY <1>4
    <3> QED BY <3>1, FS_Interval
  <2>3. Cardinality(W) = width
    BY <1>4, <2>2
  <2> HIDE DEF W
  <2>4. Cardinality(InFlight) <= Cardinality(W)
    BY <2>1, <2>2, FS_Subset
  <2> QED BY <2>3, <2>4
<1>6. LET extracting == {t \in Tasks : job[t].pc \in {"extract", "preview"}}
      IN  Cardinality(extracting) <= 1 /\ (extracting # {} => InFlight = {})
  <2> DEFINE E == {t \in Tasks : job[t].pc \in {"extract", "preview"}}
  <2>1. CASE E = {}
    BY <2>1, FS_EmptySet
  <2>2. CASE E # {}
    <3>1. PICK t \in Tasks : job[t].pc \in Late
      BY <2>2 DEF Late
    <3>2. ASSUME NEW s \in E PROVE s = t
      <4>1. s \in Tasks /\ job[s].pc \in Late /\ s \in Nat /\ t \in Nat
        BY <1>4 DEF Late
      <4>2. job[s].pc \notin TaskOver /\ job[t].pc \notin TaskOver
        BY <3>1, <4>1 DEF Late, TaskOver
      <4>3. ~ (s < t) /\ ~ (t < s)
        BY <3>1, <4>1, <4>2 DEF RemoteInv, InTurn
      <4> QED BY <4>1, <4>3
    <3>3. E = {t}
      BY <2>2, <3>2
    <3>4. Cardinality(E) = 1
      BY <3>3, FS_Singleton
    <3>5. InFlight = {}
      BY <3>1 DEF InFlight, RemoteInv, InTurn, Flying
    <3> HIDE DEF E
    <3>6. Cardinality(E) <= 1
      BY <3>4
    <3> QED BY <3>5, <3>6 DEF E
  <2> QED BY <2>1, <2>2
<1> QED BY <1>1, <1>2, <1>3, <1>4, <1>5, <1>6 DEF RunHonest

\* The report of a run names the tasks that failed, in order, with events that say how each
\* ended, and the API key goes to no other origin.
THEOREM RemoteIsHonest == RemoteSpec => [](RunHonest /\ KeyStaysHome)
<1> QED BY RemoteInvariant, RemoteInvTells, PTL

-----------------------------------------------------------------------------
(* Every run is honest, for every instance of the five programs: the        *)
(* command line run, the remote run, the hybrid document, the tasks facade  *)
(* and the official client (command/direct.rs, mod.rs; mineru_api/          *)
(* runner.rs, http.rs; official_route.rs; tasks.rs; official_api/client.rs).*)
THEOREM RunsAreHonest ==
  CommandSpec /\ RemoteSpec /\ RouteSpec /\ FacadeSpec /\ ClientSpec => []RunsHonest
<1>1. (RunHonest /\ KeyStaysHome) /\ (CommandHonest /\ HeldWithinLimits) /\ (PagesWhole /\ ImagesBounded) /\ VerdictTrue
      /\ (IngestBounded /\ AnswersHonest) /\ ClientHonest => RunsHonest
  BY DEF RunsHonest
<1> QED BY <1>1, CommandIsHonest, RemoteIsHonest, PagesAreWhole, VerdictsAreTrue, FacadeIsHonest, ClientIsHonest, PTL
=============================================================================
