----------------------- MODULE PersistentWorkerProofs -----------------------
(***************************************************************************)
(* Machine-checked proofs about PersistentWorker, for any number of calls, *)
(* child processes and unread frames.                                      *)
(*                                                                         *)
(* Neither CallsSound nor ChildrenSound is inductive.  That the permit is  *)
(* free when a call takes it needs Permit (whoever holds a request or its  *)
(* directory has the permit, unless the directory is only being removed),  *)
(* Handover (who holds a request at each stage of its life) and Stager     *)
(* (where the blocking thread of a call can be); that a result is the caller's own needs Frames      *)
(* (what the unread output of the child can hold); that shutdown leaves no *)
(* child needs Owner (owner task, owner slot and session agree).           *)
(***************************************************************************)
EXTENDS PersistentWorker, FiniteSetTheorems, TLAPS

\* The caller has the permit and no command of it is out.
Holding == {"check", "stage", "spawn", "locked", "send"}

\* The owner has a request.
Serving == {"ensure", "hello", "ready", "write", "read", "kill", "reply", "release", "clear"}

\* The permit is given back before the directory where the owner ends an
\* iteration with an error, and where a call is late after staging.
Held(r) ==
  \/ pc[r] \in Holding \/ r \in chan
  \/ current = r /\ opc # "clear"
  \/ temp[r] /\ pc[r] # "late" /\ ~(current = r /\ opc = "clear")

Answered == {r \in Calls : response[r] # "pending"}

\* The types, without the bounds that follow from the other parts.
SlotTypes ==
  /\ closed \in BOOLEAN /\ signal \in BOOLEAN /\ handle \in BOOLEAN /\ taken \in BOOLEAN
  /\ permit \in Calls \cup {None} /\ chan \in SUBSET Calls
  /\ down \in {"up", "signal", "take", "join", "returned"}
CallTypes ==
  /\ pc \in [Calls -> {"new", "subscribe", "acquire", "check", "stage", "late", "spawn",
                       "locked", "send", "wait", "done"}]
  /\ result \in [Calls -> {"none", "ok", "err"}]
  /\ expired \in [Calls -> BOOLEAN] /\ canceled \in [Calls -> BOOLEAN]
  /\ response \in [Calls -> {"pending", "ok", "err", "dropped"}]
  /\ temp \in [Calls -> BOOLEAN]
  /\ stager \in [Calls -> {"none", "queued", "writing", "ready", "failed"}]
OwnerTypes ==
  /\ opc \in {"none", "top", "recv", "stop", "drop", "ended"} \cup Serving
  /\ current \in Calls \cup {None} /\ reply \in {"ok", "err"}
  /\ session \in 0..MaxChildren /\ sequence \in Nat \ {0}
ChildTypes ==
  /\ spawned \in 0..MaxChildren /\ procs \in SUBSET (1..MaxChildren)
  /\ work \in [call: Calls \cup {None}, sequence: Nat]
  /\ stdout \in Seq(Frame) /\ Len(stdout) <= MaxFrames
  /\ written \in SUBSET Calls
Types == SlotTypes /\ CallTypes /\ OwnerTypes /\ ChildTypes

\* The permit is with whoever holds a request or its directory, to use it.
Permit == \A r \in Calls : Held(r) => permit = r

\* A request is with its caller, in the channel, with the owner or answered,
\* and its directory exists from staging until the last of them drops it.
Handover ==
  \A r \in Calls :
    /\ pc[r] \notin {"wait", "done"} => r \notin chan /\ current # r /\ response[r] = "pending"
    /\ response[r] # "pending" => r \notin chan /\ (current = r => opc \in {"release", "clear"})
    /\ current = r /\ opc \in {"release", "clear"} => response[r] = "err"
    /\ result[r] = "ok" => response[r] = "ok" /\ pc[r] = "done"
    /\ ~(r \in chan /\ current = r)
    /\ pc[r] \in {"late", "spawn", "locked", "send"} \/ r \in chan \/ current = r => temp[r]

\* A stager works for a call that waits for it, or was left alone by a call that
\* has ended; no call has a second directory.
Stager ==
  \A r \in Calls :
    /\ pc[r] = "stage" => stager[r] # "none"
    /\ stager[r] # "none" => pc[r] \in {"stage", "done"} /\ ~temp[r]
    /\ stager[r] \in {"ready", "failed"} => pc[r] = "stage"
    /\ temp[r] => pc[r] \in {"late", "spawn", "locked", "send", "wait", "done"}
    /\ temp[r] /\ pc[r] \in {"wait", "done"} => r \in chan \/ current = r \/ response[r] = "ok"

\* The owner is spawned once, before the shutdown has looked for it, and the
\* only child process is the one of its session.
Owner ==
  /\ current # None <=> opc \in Serving
  /\ opc = "none" <=> ~taken
  /\ handle => taken
  /\ down \in {"up", "signal", "take"} => (taken => handle)
  /\ closed <=> down # "up"
  /\ \A r \in Calls : pc[r] = "locked" => ~taken /\ down \notin {"join", "returned"}
  /\ down = "returned" => opc \in {"none", "ended"}
  /\ opc \in {"none", "drop", "ended"} => session = NoSession
  /\ procs \subseteq {session}

\* The child works on the owner's request, which has no answer yet; what it has
\* written answers that request at most once, or an earlier one.
Frames ==
  /\ work.call # None =>
       /\ opc \in {"read", "kill"} /\ work.call = current /\ work.sequence = sequence
       /\ \A i \in 1..Len(stdout) : stdout[i].sequence # sequence
  /\ \A i \in 1..Len(stdout) :
       /\ stdout[i].sequence <= sequence
       /\ stdout[i].sequence = sequence => opc \in {"read", "kill"}
       /\ stdout[i].status = "ok" => stdout[i].call \in written
  /\ reply = "ok" => opc = "reply" /\ current \in written

\* Every request number that was used up belongs to a call that was answered.
Numbers == sequence <= Cardinality(Answered) + (IF opc = "reply" THEN 2 ELSE 1)

IInv == Types /\ Permit /\ Handover /\ Stager /\ Owner /\ Frames /\ AnswerIsMine /\ Numbers

USE WorkerAssumption
    DEF Holding, Serving, NoSession, slotVars, callVars, ownerVars, childVars,
        SlotTypes, CallTypes, OwnerTypes, ChildTypes

\* The calls that were answered can be counted.
LEMMA AnsweredFinite == IsFiniteSet(Answered) /\ Cardinality(Answered) \in Nat
<1>1. Answered \subseteq Calls
  BY DEF Answered
<1> QED BY <1>1, FS_Subset, FS_CardinalityType

\* Every step keeps the inductive invariant.
LEMMA StepKeepsIInv ==
  IInv /\ [Next]_vars => IInv'
<1> SUFFICES ASSUME IInv, [Next]_vars PROVE IInv'
  OBVIOUS
<1> USE DEF IInv
<1>1. ASSUME NEW r \in Calls, Begin(r) PROVE IInv'
  <2>1. Types'
    <3>1. SlotTypes'
      BY <1>1 DEF Begin, Fail, Goto, PermitWithout, Types
    <3>2. CallTypes'
      BY <1>1 DEF Begin, Fail, Goto, PermitWithout, Types
    <3>3. OwnerTypes' /\ ChildTypes'
      BY <1>1 DEF Begin, Fail, Goto, PermitWithout, Types
    <3> QED BY <3>1, <3>2, <3>3 DEF Types
  <2>2. Permit'
    BY <1>1 DEF Begin, Fail, Goto, PermitWithout, Permit, Held, Handover, Owner, Types
  <2>3. Handover'
    BY <1>1 DEF Begin, Fail, Goto, PermitWithout, Handover, Permit, Held, Owner, Types
  <2>4. Owner'
    BY <1>1 DEF Begin, Fail, Goto, PermitWithout, Owner, Permit, Held, OwnerLockFree, Handover,
       Types
  <2>5. Frames' /\ AnswerIsMine' /\ Numbers'
    BY <1>1 DEF Begin, Fail, Goto, PermitWithout, Frames, AnswerIsMine, Numbers, Owner,
       Handover, Frame, Answered, Types
  <2>6. Stager'
    BY <1>1 DEF Begin, Fail, Goto, PermitWithout, Stager, Handover, Owner, Types
  <2> QED BY <2>1, <2>2, <2>3, <2>4, <2>5, <2>6
<1>2. ASSUME NEW r \in Calls, Subscribe(r) PROVE IInv'
  <2>1. Types'
    <3>1. SlotTypes'
      BY <1>2 DEF Subscribe, Fail, Goto, PermitWithout, Types
    <3>2. CallTypes'
      BY <1>2 DEF Subscribe, Fail, Goto, PermitWithout, Types
    <3>3. OwnerTypes' /\ ChildTypes'
      BY <1>2 DEF Subscribe, Fail, Goto, PermitWithout, Types
    <3> QED BY <3>1, <3>2, <3>3 DEF Types
  <2>2. Permit'
    BY <1>2 DEF Subscribe, Fail, Goto, PermitWithout, Permit, Held, Handover, Owner, Types
  <2>3. Handover'
    BY <1>2 DEF Subscribe, Fail, Goto, PermitWithout, Handover, Permit, Held, Owner, Types
  <2>4. Owner'
    BY <1>2 DEF Subscribe, Fail, Goto, PermitWithout, Owner, Permit, Held, OwnerLockFree,
       Handover, Types
  <2>5. Frames' /\ AnswerIsMine' /\ Numbers'
    BY <1>2 DEF Subscribe, Fail, Goto, PermitWithout, Frames, AnswerIsMine, Numbers, Owner,
       Handover, Frame, Answered, Types
  <2>6. Stager'
    BY <1>2 DEF Subscribe, Fail, Goto, PermitWithout, Stager, Handover, Owner, Types
  <2> QED BY <2>1, <2>2, <2>3, <2>4, <2>5, <2>6
<1>3. ASSUME NEW r \in Calls, Acquire(r) PROVE IInv'
  <2>1. Types'
    <3>1. SlotTypes'
      BY <1>3 DEF Acquire, Types
    <3>2. CallTypes'
      BY <1>3 DEF Acquire, Types
    <3>3. OwnerTypes' /\ ChildTypes'
      BY <1>3 DEF Acquire, Types
    <3> QED BY <3>1, <3>2, <3>3 DEF Types
  <2>2. Permit'
    BY <1>3 DEF Acquire, Permit, Held, Handover, Owner, Types
  <2>3. Handover'
    BY <1>3 DEF Acquire, Handover, Permit, Held, Owner, Types
  <2>4. Owner'
    BY <1>3 DEF Acquire, Owner, Permit, Held, OwnerLockFree, Handover, Types
  <2>5. Frames' /\ AnswerIsMine' /\ Numbers'
    BY <1>3 DEF Acquire, Frames, AnswerIsMine, Numbers, Owner, Handover, Frame, Answered, Types
  <2>6. Stager'
    BY <1>3 DEF Acquire, Stager, Handover, Owner, Types
  <2> QED BY <2>1, <2>2, <2>3, <2>4, <2>5, <2>6
<1>4. ASSUME NEW r \in Calls, AcquireFails(r) PROVE IInv'
  <2>1. Types'
    <3>1. SlotTypes'
      BY <1>4 DEF AcquireFails, Fail, PermitWithout, Types
    <3>2. CallTypes'
      BY <1>4 DEF AcquireFails, Fail, PermitWithout, Types
    <3>3. OwnerTypes' /\ ChildTypes'
      BY <1>4 DEF AcquireFails, Fail, PermitWithout, Types
    <3> QED BY <3>1, <3>2, <3>3 DEF Types
  <2>2. Permit'
    BY <1>4 DEF AcquireFails, Fail, PermitWithout, Permit, Held, Handover, Owner, Types
  <2>3. Handover'
    BY <1>4 DEF AcquireFails, Fail, PermitWithout, Handover, Permit, Held, Owner, Types
  <2>4. Owner'
    BY <1>4 DEF AcquireFails, Fail, PermitWithout, Owner, Permit, Held, OwnerLockFree,
       Handover, Types
  <2>5. Frames' /\ AnswerIsMine' /\ Numbers'
    BY <1>4 DEF AcquireFails, Fail, PermitWithout, Frames, AnswerIsMine, Numbers, Owner,
       Handover, Frame, Answered, Types
  <2>6. Stager'
    BY <1>4 DEF AcquireFails, Fail, PermitWithout, Stager, Handover, Owner, Types
  <2> QED BY <2>1, <2>2, <2>3, <2>4, <2>5, <2>6
<1>5. ASSUME NEW r \in Calls, Check(r) PROVE IInv'
  <2>1. Types'
    <3>1. SlotTypes'
      BY <1>5 DEF Check, Fail, Goto, PermitWithout, Types
    <3>2. CallTypes'
      BY <1>5 DEF Check, Fail, Goto, PermitWithout, Types
    <3>3. OwnerTypes' /\ ChildTypes'
      BY <1>5 DEF Check, Fail, Goto, PermitWithout, Types
    <3> QED BY <3>1, <3>2, <3>3 DEF Types
  <2>2. Permit'
    BY <1>5 DEF Check, Fail, Goto, PermitWithout, Permit, Held, Handover, Owner, Types
  <2>3. Handover'
    BY <1>5 DEF Check, Fail, Goto, PermitWithout, Handover, Permit, Held, Owner, Types
  <2>4. Owner'
    BY <1>5 DEF Check, Fail, Goto, PermitWithout, Owner, Permit, Held, OwnerLockFree, Handover,
       Types
  <2>5. Frames' /\ AnswerIsMine' /\ Numbers'
    BY <1>5 DEF Check, Fail, Goto, PermitWithout, Frames, AnswerIsMine, Numbers, Owner,
       Handover, Frame, Answered, Types
  <2>6. Stager'
    BY <1>5 DEF Check, Fail, Goto, PermitWithout, Stager, Handover, Owner, Types
  <2> QED BY <2>1, <2>2, <2>3, <2>4, <2>5, <2>6
<1>6. ASSUME NEW r \in Calls, Staged(r) PROVE IInv'
  <2>1. Types'
    <3>1. SlotTypes'
      BY <1>6 DEF Staged, PermitWithout, Types
    <3>2. CallTypes'
      BY <1>6 DEF Staged, PermitWithout, Types
    <3>3. OwnerTypes' /\ ChildTypes'
      BY <1>6 DEF Staged, PermitWithout, Types
    <3> QED BY <3>1, <3>2, <3>3 DEF Types
  <2>2. Permit'
    BY <1>6 DEF Staged, PermitWithout, Permit, Held, Handover, Owner, Types
  <2>3. Handover'
    BY <1>6 DEF Staged, PermitWithout, Handover, Permit, Held, Owner, Types
  <2>4. Owner'
    BY <1>6 DEF Staged, PermitWithout, Owner, Permit, Held, OwnerLockFree, Handover, Types
  <2>5. Frames' /\ AnswerIsMine' /\ Numbers'
    BY <1>6 DEF Staged, PermitWithout, Frames, AnswerIsMine, Numbers, Owner, Handover,
       Frame, Answered, Types
  <2>6. Stager'
    BY <1>6 DEF Staged, PermitWithout, Stager, Handover, Owner, Types
  <2> QED BY <2>1, <2>2, <2>3, <2>4, <2>5, <2>6
<1>39. ASSUME NEW r \in Calls, Late(r) PROVE IInv'
  <2>1. Types'
    <3>1. SlotTypes'
      BY <1>39 DEF Late, Fail, PermitWithout, Types
    <3>2. CallTypes'
      BY <1>39 DEF Late, Fail, PermitWithout, Types
    <3>3. OwnerTypes' /\ ChildTypes'
      BY <1>39 DEF Late, Fail, PermitWithout, Types
    <3> QED BY <3>1, <3>2, <3>3 DEF Types
  <2>2. Permit'
    BY <1>39 DEF Late, Fail, PermitWithout, Permit, Held, Handover, Owner, Types
  <2>3. Handover'
    BY <1>39 DEF Late, Fail, PermitWithout, Handover, Permit, Held, Owner, Types
  <2>4. Owner'
    BY <1>39 DEF Late, Fail, PermitWithout, Owner, Permit, Held, OwnerLockFree, Handover, Types
  <2>5. Frames' /\ AnswerIsMine' /\ Numbers'
    BY <1>39 DEF Late, Fail, PermitWithout, Frames, AnswerIsMine, Numbers, Owner, Handover,
       Frame, Answered, Types
  <2>6. Stager'
    BY <1>39 DEF Late, Fail, PermitWithout, Stager, Handover, Owner, Types
  <2> QED BY <2>1, <2>2, <2>3, <2>4, <2>5, <2>6
<1>7. ASSUME NEW r \in Calls, StageFails(r) PROVE IInv'
  <2>1. Types'
    <3>1. SlotTypes'
      BY <1>7 DEF StageFails, DropStager, Fail, PermitWithout, Types
    <3>2. CallTypes'
      BY <1>7 DEF StageFails, DropStager, Fail, PermitWithout, Types
    <3>3. OwnerTypes' /\ ChildTypes'
      BY <1>7 DEF StageFails, DropStager, Fail, PermitWithout, Types
    <3> QED BY <3>1, <3>2, <3>3 DEF Types
  <2>2. Permit'
    BY <1>7 DEF StageFails, DropStager, Fail, PermitWithout, Permit, Held, Handover, Owner, Types
  <2>3. Handover'
    BY <1>7 DEF StageFails, DropStager, Fail, PermitWithout, Handover, Permit, Held, Owner, Types
  <2>4. Owner'
    BY <1>7 DEF StageFails, DropStager, Fail, PermitWithout, Owner, Permit, Held, OwnerLockFree, Handover,
       Types
  <2>5. Frames' /\ AnswerIsMine' /\ Numbers'
    BY <1>7 DEF StageFails, DropStager, Fail, PermitWithout, Frames, AnswerIsMine, Numbers, Owner,
       Handover, Frame, Answered, Types
  <2>6. Stager'
    BY <1>7 DEF StageFails, DropStager, Fail, PermitWithout, Stager, Handover, Owner, Types
  <2> QED BY <2>1, <2>2, <2>3, <2>4, <2>5, <2>6
<1>8. ASSUME NEW r \in Calls, SpawnLock(r) PROVE IInv'
  <2>1. Types'
    <3>1. SlotTypes'
      BY <1>8 DEF SpawnLock, Fail, Goto, PermitWithout, OwnerLockFree, MaySpawn, Types
    <3>2. CallTypes'
      BY <1>8 DEF SpawnLock, Fail, Goto, PermitWithout, OwnerLockFree, MaySpawn, Types
    <3>3. OwnerTypes' /\ ChildTypes'
      BY <1>8 DEF SpawnLock, Fail, Goto, PermitWithout, OwnerLockFree, MaySpawn, Types
    <3> QED BY <3>1, <3>2, <3>3 DEF Types
  <2>2. Permit'
    BY <1>8 DEF SpawnLock, Fail, Goto, PermitWithout, OwnerLockFree, MaySpawn, Permit, Held,
       Handover, Owner, Types
  <2>3. Handover'
    BY <1>8 DEF SpawnLock, Fail, Goto, PermitWithout, OwnerLockFree, MaySpawn, Handover,
       Permit, Held, Owner, Types
  <2>4. Owner'
    BY <1>8 DEF SpawnLock, Fail, Goto, PermitWithout, OwnerLockFree, MaySpawn, Owner, Permit,
       Held, Handover, Types
  <2>5. Frames' /\ AnswerIsMine' /\ Numbers'
    BY <1>8 DEF SpawnLock, Fail, Goto, PermitWithout, OwnerLockFree, MaySpawn, Frames,
       AnswerIsMine, Numbers, Owner, Handover, Frame, Answered, Types
  <2>6. Stager'
    BY <1>8 DEF SpawnLock, Fail, Goto, PermitWithout, OwnerLockFree, MaySpawn, Stager, Handover, Owner, Types
  <2> QED BY <2>1, <2>2, <2>3, <2>4, <2>5, <2>6
<1>9. ASSUME NEW r \in Calls, SpawnOwner(r) PROVE IInv'
  <2>1. Types'
    <3>1. SlotTypes'
      BY <1>9 DEF SpawnOwner, Goto, Types
    <3>2. CallTypes'
      BY <1>9 DEF SpawnOwner, Goto, Types
    <3>3. OwnerTypes'
      BY <1>9 DEF SpawnOwner, Goto, Types
    <3>4. ChildTypes'
      BY <1>9 DEF SpawnOwner, Goto, Types
    <3> QED BY <3>1, <3>2, <3>3, <3>4 DEF Types
  <2>2. Permit'
    BY <1>9 DEF SpawnOwner, Goto, Permit, Held, Handover, Owner, Types
  <2>3. Handover'
    BY <1>9 DEF SpawnOwner, Goto, Handover, Permit, Held, Owner, Types
  <2>4. Owner'
    BY <1>9 DEF SpawnOwner, Goto, Owner, Permit, Held, OwnerLockFree, Handover, Types
  <2>5. Frames'
    BY <1>9 DEF SpawnOwner, Goto, Frames, Owner, Handover, Frame, Types
  <2>6. AnswerIsMine'
    BY <1>9 DEF SpawnOwner, Goto, AnswerIsMine, Frames, Types
  <2>7. Numbers'
    BY <1>9 DEF SpawnOwner, Goto, Numbers, Answered, Handover, Owner, Types
  <2>8. Stager'
    BY <1>9 DEF SpawnOwner, Goto, Stager, Handover, Owner, Types
  <2> QED BY <2>1, <2>2, <2>3, <2>4, <2>5, <2>6, <2>7, <2>8
<1>10. ASSUME NEW r \in Calls, Send(r) PROVE IInv'
  <2>1. Types'
    <3>1. SlotTypes'
      BY <1>10 DEF Send, Fail, Goto, PermitWithout, Types
    <3>2. CallTypes'
      BY <1>10 DEF Send, Fail, Goto, PermitWithout, Types
    <3>3. OwnerTypes' /\ ChildTypes'
      BY <1>10 DEF Send, Fail, Goto, PermitWithout, Types
    <3> QED BY <3>1, <3>2, <3>3 DEF Types
  <2>2. Permit'
    BY <1>10 DEF Send, Fail, Goto, PermitWithout, Permit, Held, Handover, Owner, Types
  <2>3. Handover'
    BY <1>10 DEF Send, Fail, Goto, PermitWithout, Handover, Permit, Held, Owner, Types
  <2>4. Owner'
    BY <1>10 DEF Send, Fail, Goto, PermitWithout, Owner, Permit, Held, OwnerLockFree, Handover,
       Types
  <2>5. Frames' /\ AnswerIsMine' /\ Numbers'
    BY <1>10 DEF Send, Fail, Goto, PermitWithout, Frames, AnswerIsMine, Numbers, Owner,
       Handover, Frame, Answered, Types
  <2>6. Stager'
    BY <1>10 DEF Send, Fail, Goto, PermitWithout, Stager, Handover, Owner, Types
  <2> QED BY <2>1, <2>2, <2>3, <2>4, <2>5, <2>6
<1>11. ASSUME NEW r \in Calls, SendExpires(r) PROVE IInv'
  <2>1. Types'
    <3>1. SlotTypes'
      BY <1>11 DEF SendExpires, Fail, PermitWithout, Types
    <3>2. CallTypes'
      BY <1>11 DEF SendExpires, Fail, PermitWithout, Types
    <3>3. OwnerTypes' /\ ChildTypes'
      BY <1>11 DEF SendExpires, Fail, PermitWithout, Types
    <3> QED BY <3>1, <3>2, <3>3 DEF Types
  <2>2. Permit'
    BY <1>11 DEF SendExpires, Fail, PermitWithout, Permit, Held, Handover, Owner, Types
  <2>3. Handover'
    BY <1>11 DEF SendExpires, Fail, PermitWithout, Handover, Permit, Held, Owner, Types
  <2>4. Owner'
    BY <1>11 DEF SendExpires, Fail, PermitWithout, Owner, Permit, Held, OwnerLockFree,
       Handover, Types
  <2>5. Frames' /\ AnswerIsMine' /\ Numbers'
    BY <1>11 DEF SendExpires, Fail, PermitWithout, Frames, AnswerIsMine, Numbers, Owner,
       Handover, Frame, Answered, Types
  <2>6. Stager'
    BY <1>11 DEF SendExpires, Fail, PermitWithout, Stager, Handover, Owner, Types
  <2> QED BY <2>1, <2>2, <2>3, <2>4, <2>5, <2>6
<1>12. ASSUME NEW r \in Calls, Receive(r) PROVE IInv'
  <2>1. Types'
    <3>1. SlotTypes'
      BY <1>12 DEF Receive, Types
    <3>2. CallTypes'
      BY <1>12 DEF Receive, Types
    <3>3. OwnerTypes' /\ ChildTypes'
      BY <1>12 DEF Receive, Types
    <3> QED BY <3>1, <3>2, <3>3 DEF Types
  <2>2. Permit'
    BY <1>12 DEF Receive, Permit, Held, Handover, Owner, Types
  <2>3. Handover'
    BY <1>12 DEF Receive, Handover, Permit, Held, Owner, Types
  <2>4. Owner'
    BY <1>12 DEF Receive, Owner, Permit, Held, OwnerLockFree, Handover, Types
  <2>5. Frames' /\ AnswerIsMine' /\ Numbers'
    BY <1>12 DEF Receive, Frames, AnswerIsMine, Numbers, Owner, Handover, Frame, Answered, Types
  <2>6. Stager'
    BY <1>12 DEF Receive, Stager, Handover, Owner, Types
  <2> QED BY <2>1, <2>2, <2>3, <2>4, <2>5, <2>6
<1>13. ASSUME NEW r \in Calls, WaitExpires(r) PROVE IInv'
  <2>1. Types'
    <3>1. SlotTypes'
      BY <1>13 DEF WaitExpires, Types
    <3>2. CallTypes'
      BY <1>13 DEF WaitExpires, Types
    <3>3. OwnerTypes' /\ ChildTypes'
      BY <1>13 DEF WaitExpires, Types
    <3> QED BY <3>1, <3>2, <3>3 DEF Types
  <2>2. Permit'
    BY <1>13 DEF WaitExpires, Permit, Held, Handover, Owner, Types
  <2>3. Handover'
    BY <1>13 DEF WaitExpires, Handover, Permit, Held, Owner, Types
  <2>4. Owner'
    BY <1>13 DEF WaitExpires, Owner, Permit, Held, OwnerLockFree, Handover, Types
  <2>5. Frames' /\ AnswerIsMine' /\ Numbers'
    BY <1>13 DEF WaitExpires, Frames, AnswerIsMine, Numbers, Owner, Handover, Frame, Answered,
       Types
  <2>6. Stager'
    BY <1>13 DEF WaitExpires, Stager, Handover, Owner, Types
  <2> QED BY <2>1, <2>2, <2>3, <2>4, <2>5, <2>6
<1>14. ASSUME NEW r \in Calls, Abandon(r) PROVE IInv'
  <2>1. Types'
    <3>1. SlotTypes'
      BY <1>14 DEF Abandon, DropStager, Fail, PermitWithout, Types
    <3>2. CallTypes'
      BY <1>14 DEF Abandon, DropStager, Fail, PermitWithout, Types
    <3>3. OwnerTypes' /\ ChildTypes'
      BY <1>14 DEF Abandon, DropStager, Fail, PermitWithout, Types
    <3> QED BY <3>1, <3>2, <3>3 DEF Types
  <2>2. Permit'
    BY <1>14 DEF Abandon, DropStager, Fail, PermitWithout, Permit, Held, Handover, Owner, Types
  <2>3. Handover'
    BY <1>14 DEF Abandon, DropStager, Fail, PermitWithout, Handover, Permit, Held, Owner, Types
  <2>4. Owner'
    BY <1>14 DEF Abandon, DropStager, Fail, PermitWithout, Owner, Permit, Held, OwnerLockFree, Handover,
       Types
  <2>5. Frames' /\ AnswerIsMine' /\ Numbers'
    BY <1>14 DEF Abandon, DropStager, Fail, PermitWithout, Frames, AnswerIsMine, Numbers, Owner, Handover,
       Frame, Answered, Types
  <2>6. Stager'
    BY <1>14 DEF Abandon, DropStager, Fail, PermitWithout, Stager, Handover, Owner, Types
  <2> QED BY <2>1, <2>2, <2>3, <2>4, <2>5, <2>6
<1>15. ASSUME NEW r \in Calls, DropBundle(r) PROVE IInv'
  <2>1. Types'
    <3>1. SlotTypes'
      BY <1>15 DEF DropBundle, PermitWithout, Types
    <3>2. CallTypes'
      BY <1>15 DEF DropBundle, PermitWithout, Types
    <3>3. OwnerTypes' /\ ChildTypes'
      BY <1>15 DEF DropBundle, PermitWithout, Types
    <3> QED BY <3>1, <3>2, <3>3 DEF Types
  <2>2. Permit'
    BY <1>15 DEF DropBundle, PermitWithout, Permit, Held, Handover, Owner, Types
  <2>3. Handover'
    BY <1>15 DEF DropBundle, PermitWithout, Handover, Permit, Held, Owner, Types
  <2>4. Owner'
    BY <1>15 DEF DropBundle, PermitWithout, Owner, Permit, Held, OwnerLockFree, Handover, Types
  <2>5. Frames' /\ AnswerIsMine' /\ Numbers'
    BY <1>15 DEF DropBundle, PermitWithout, Frames, AnswerIsMine, Numbers, Owner, Handover,
       Frame, Answered, Types
  <2>6. Stager'
    BY <1>15 DEF DropBundle, PermitWithout, Stager, Handover, Owner, Types
  <2> QED BY <2>1, <2>2, <2>3, <2>4, <2>5, <2>6
<1>16. ASSUME NEW r \in Calls, Expire(r) PROVE IInv'
  <2>1. Types'
    <3>1. SlotTypes'
      BY <1>16 DEF Expire, Types
    <3>2. CallTypes'
      BY <1>16 DEF Expire, Types
    <3>3. OwnerTypes' /\ ChildTypes'
      BY <1>16 DEF Expire, Types
    <3> QED BY <3>1, <3>2, <3>3 DEF Types
  <2>2. Permit'
    BY <1>16 DEF Expire, Permit, Held, Handover, Owner, Types
  <2>3. Handover'
    BY <1>16 DEF Expire, Handover, Permit, Held, Owner, Types
  <2>4. Owner'
    BY <1>16 DEF Expire, Owner, Permit, Held, OwnerLockFree, Handover, Types
  <2>5. Frames' /\ AnswerIsMine' /\ Numbers'
    BY <1>16 DEF Expire, Frames, AnswerIsMine, Numbers, Owner, Handover, Frame, Answered, Types
  <2>6. Stager'
    BY <1>16 DEF Expire, Stager, Handover, Owner, Types
  <2> QED BY <2>1, <2>2, <2>3, <2>4, <2>5, <2>6
<1>40. ASSUME NEW r \in Calls, StagerStarts(r) PROVE IInv'
  <2>1. Types'
    <3>1. SlotTypes'
      BY <1>40 DEF StagerStarts, StagerGoto, Outcomes, Types
    <3>2. CallTypes'
      BY <1>40 DEF StagerStarts, StagerGoto, Outcomes, Types
    <3>3. OwnerTypes' /\ ChildTypes'
      BY <1>40 DEF StagerStarts, StagerGoto, Outcomes, Types
    <3> QED BY <3>1, <3>2, <3>3 DEF Types
  <2>2. Permit'
    BY <1>40 DEF StagerStarts, StagerGoto, Outcomes, Permit, Held, Handover, Owner, Types
  <2>3. Handover'
    BY <1>40 DEF StagerStarts, StagerGoto, Outcomes, Handover, Permit, Held, Owner, Types
  <2>4. Owner'
    BY <1>40 DEF StagerStarts, StagerGoto, Outcomes, Owner, Permit, Held, OwnerLockFree, Handover, Types
  <2>5. Frames' /\ AnswerIsMine' /\ Numbers'
    BY <1>40 DEF StagerStarts, StagerGoto, Outcomes, Frames, AnswerIsMine, Numbers, Owner, Handover, Frame, Answered, Types
  <2>6. Stager'
    BY <1>40 DEF StagerStarts, StagerGoto, Outcomes, Stager, Handover, Owner, Types
  <2> QED BY <2>1, <2>2, <2>3, <2>4, <2>5, <2>6
<1>41. ASSUME NEW r \in Calls, StagerEnds(r) PROVE IInv'
  <2>1. Types'
    <3>1. SlotTypes'
      BY <1>41 DEF StagerEnds, StagerGoto, Outcomes, Types
    <3>2. CallTypes'
      BY <1>41 DEF StagerEnds, StagerGoto, Outcomes, Types
    <3>3. OwnerTypes' /\ ChildTypes'
      BY <1>41 DEF StagerEnds, StagerGoto, Outcomes, Types
    <3> QED BY <3>1, <3>2, <3>3 DEF Types
  <2>2. Permit'
    BY <1>41 DEF StagerEnds, StagerGoto, Outcomes, Permit, Held, Handover, Owner, Types
  <2>3. Handover'
    BY <1>41 DEF StagerEnds, StagerGoto, Outcomes, Handover, Permit, Held, Owner, Types
  <2>4. Owner'
    BY <1>41 DEF StagerEnds, StagerGoto, Outcomes, Owner, Permit, Held, OwnerLockFree, Handover, Types
  <2>5. Frames' /\ AnswerIsMine' /\ Numbers'
    BY <1>41 DEF StagerEnds, StagerGoto, Outcomes, Frames, AnswerIsMine, Numbers, Owner, Handover, Frame, Answered, Types
  <2>6. Stager'
    BY <1>41 DEF StagerEnds, StagerGoto, Outcomes, Stager, Handover, Owner, Types
  <2> QED BY <2>1, <2>2, <2>3, <2>4, <2>5, <2>6
<1>17. CASE OwnerTop
  <2>1. Types'
    <3>1. SlotTypes' /\ CallTypes'
      BY <1>17 DEF OwnerTop, OwnerGoto, Types
    <3>2. OwnerTypes'
      BY <1>17 DEF OwnerTop, OwnerGoto, Types
    <3>3. ChildTypes'
      BY <1>17 DEF OwnerTop, OwnerGoto, Types
    <3> QED BY <3>1, <3>2, <3>3 DEF Types
  <2>2. Permit' /\ Handover'
    BY <1>17 DEF OwnerTop, OwnerGoto, Permit, Handover, Held, Owner, Types
  <2>3. Owner'
    BY <1>17 DEF OwnerTop, OwnerGoto, Owner, Permit, Held, OwnerLockFree, Handover, Types
  <2>4. Frames'
    BY <1>17 DEF OwnerTop, OwnerGoto, Frames, Owner, Handover, Frame, Types
  <2>5. AnswerIsMine' /\ Numbers'
    BY <1>17 DEF OwnerTop, OwnerGoto, AnswerIsMine, Numbers, Frames, Answered, Handover, Owner,
       Types
  <2>6. Stager'
    BY <1>17 DEF OwnerTop, OwnerGoto, Stager, Handover, Owner, Types
  <2> QED BY <2>1, <2>2, <2>3, <2>4, <2>5, <2>6
<1>18. CASE OwnerRecv
  <2>1. Types'
    <3>1. SlotTypes'
      BY <1>18 DEF OwnerRecv, OwnerGoto, Received, Types
    <3>2. CallTypes'
      BY <1>18 DEF OwnerRecv, OwnerGoto, Received, Types
    <3>3. OwnerTypes'
      BY <1>18 DEF OwnerRecv, OwnerGoto, Received, Types
    <3>4. ChildTypes'
      BY <1>18 DEF OwnerRecv, OwnerGoto, Received, Types
    <3> QED BY <3>1, <3>2, <3>3, <3>4 DEF Types
  <2>2. Permit'
    BY <1>18 DEF OwnerRecv, OwnerGoto, Received, Permit, Held, Handover, Owner, Types
  <2>3. Handover'
    BY <1>18 DEF OwnerRecv, OwnerGoto, Received, Handover, Permit, Held, Owner, Types
  <2>4. Owner'
    BY <1>18 DEF OwnerRecv, OwnerGoto, Received, Owner, Permit, Held, OwnerLockFree, Handover,
       Types
  <2>5. Frames'
    BY <1>18 DEF OwnerRecv, OwnerGoto, Received, Frames, Owner, Handover, Frame, Types
  <2>6. AnswerIsMine'
    BY <1>18 DEF OwnerRecv, OwnerGoto, Received, AnswerIsMine, Frames, Types
  <2>7. Numbers'
    BY <1>18 DEF OwnerRecv, OwnerGoto, Received, Numbers, Answered, Handover, Owner, Types
  <2>8. Stager'
    BY <1>18 DEF OwnerRecv, OwnerGoto, Received, Stager, Handover, Owner, Types
  <2> QED BY <2>1, <2>2, <2>3, <2>4, <2>5, <2>6, <2>7, <2>8
<1>19. CASE EnsureSession
  <2>1. Types'
    <3>1. SlotTypes' /\ CallTypes'
      BY <1>19 DEF EnsureSession, OwnerGoto, Idle, Types
    <3>2. OwnerTypes'
      BY <1>19 DEF EnsureSession, OwnerGoto, Types
    <3>3. ChildTypes'
      <4>1. CASE session # NoSession
        BY <1>19, <4>1 DEF EnsureSession, OwnerGoto, Types
      <4>2. CASE session = NoSession
        <5>1. spawned + 1 \in 1..MaxChildren
          BY <1>19, <4>2 DEF EnsureSession, Types
        <5>2. work' \in [call: Calls \cup {None}, sequence: Nat]
          BY <1>19, <4>2 DEF EnsureSession, Idle
        <5>3. stdout' \in Seq(Frame) /\ Len(stdout') <= MaxFrames
          BY <1>19, <4>2 DEF EnsureSession
        <5>4. spawned' = spawned + 1 /\ procs' = procs \cup {spawned + 1} /\ written' = written
          BY <1>19, <4>2 DEF EnsureSession
        <5>5. spawned' \in 0..MaxChildren /\ procs' \in SUBSET (1..MaxChildren)
          BY <5>1, <5>4 DEF Types
        <5> QED
          BY <5>2, <5>3, <5>4, <5>5 DEF Types
      <4> QED BY <4>1, <4>2
    <3> QED BY <3>1, <3>2, <3>3 DEF Types
  <2>2. Permit' /\ Handover'
    BY <1>19 DEF EnsureSession, OwnerGoto, Idle, Permit, Handover, Held, Owner, Types
  <2>3. Owner'
    <3>1. CASE session # NoSession
      BY <1>19, <3>1 DEF EnsureSession, OwnerGoto, Owner, Types
    <3>2. CASE session = NoSession
      <4>1. procs = {}
        BY <3>2 DEF Owner, Types
      <4> QED
        BY <1>19, <3>2, <4>1 DEF EnsureSession, Owner, Types
    <3> QED BY <3>1, <3>2
  <2>4. Frames'
    BY <1>19 DEF EnsureSession, OwnerGoto, Idle, Frames, Owner, Handover, Frame, Types
  <2>5. AnswerIsMine'
    BY <1>19 DEF EnsureSession, OwnerGoto, Idle, AnswerIsMine, Frames, Types
  <2>6. Numbers'
    BY <1>19, AnsweredFinite DEF EnsureSession, OwnerGoto, Numbers, Answered, Types
  <2>7. Stager'
    BY <1>19 DEF EnsureSession, OwnerGoto, Idle, Stager, Handover, Owner, Types
  <2> QED BY <2>1, <2>2, <2>3, <2>4, <2>5, <2>6, <2>7
<1>20. CASE SpawnFails
  <2>1. Types'
    <3>1. SlotTypes' /\ CallTypes'
      BY <1>20 DEF SpawnFails, OwnerGoto, Types
    <3>2. OwnerTypes'
      BY <1>20 DEF SpawnFails, OwnerGoto, Types
    <3>3. ChildTypes'
      BY <1>20 DEF SpawnFails, OwnerGoto, Types
    <3> QED BY <3>1, <3>2, <3>3 DEF Types
  <2>2. Permit' /\ Handover'
    BY <1>20 DEF SpawnFails, OwnerGoto, Permit, Handover, Held, Owner, Types
  <2>3. Owner'
    BY <1>20 DEF SpawnFails, OwnerGoto, Owner, Permit, Held, OwnerLockFree, Handover, Types
  <2>4. Frames'
    BY <1>20 DEF SpawnFails, OwnerGoto, Frames, Owner, Handover, Frame, Types
  <2>5. AnswerIsMine' /\ Numbers'
    BY <1>20 DEF SpawnFails, OwnerGoto, AnswerIsMine, Numbers, Frames, Answered, Handover,
       Owner, Types
  <2>6. Stager'
    BY <1>20 DEF SpawnFails, OwnerGoto, Stager, Handover, Owner, Types
  <2> QED BY <2>1, <2>2, <2>3, <2>4, <2>5, <2>6
<1>21. CASE IoInterrupted
  <2>1. Types'
    <3>1. SlotTypes' /\ CallTypes'
      BY <1>21 DEF IoInterrupted, OwnerGoto, AfterInterrupt, Types
    <3>2. OwnerTypes'
      BY <1>21 DEF IoInterrupted, OwnerGoto, AfterInterrupt, Types
    <3>3. ChildTypes'
      BY <1>21 DEF IoInterrupted, OwnerGoto, AfterInterrupt, Types
    <3> QED BY <3>1, <3>2, <3>3 DEF Types
  <2>2. Permit' /\ Handover'
    BY <1>21 DEF IoInterrupted, OwnerGoto, AfterInterrupt, Permit, Handover, Held, Owner, Types
  <2>3. Owner'
    BY <1>21 DEF IoInterrupted, OwnerGoto, AfterInterrupt, Owner, Permit, Held, OwnerLockFree,
       Handover, Types
  <2>4. Frames'
    BY <1>21 DEF IoInterrupted, OwnerGoto, AfterInterrupt, Frames, Owner, Handover, Frame, Types
  <2>5. AnswerIsMine' /\ Numbers'
    BY <1>21 DEF IoInterrupted, OwnerGoto, AfterInterrupt, AnswerIsMine, Numbers, Frames,
       Answered, Handover, Owner, Types
  <2>6. Stager'
    BY <1>21 DEF IoInterrupted, OwnerGoto, AfterInterrupt, Stager, Handover, Owner, Types
  <2> QED BY <2>1, <2>2, <2>3, <2>4, <2>5, <2>6
<1>22. CASE Hello
  <2>1. Types'
    <3>1. SlotTypes' /\ CallTypes'
      BY <1>22 DEF Hello, OwnerGoto, Types
    <3>2. OwnerTypes'
      BY <1>22 DEF Hello, OwnerGoto, Types
    <3>3. ChildTypes'
      BY <1>22 DEF Hello, OwnerGoto, Types
    <3> QED BY <3>1, <3>2, <3>3 DEF Types
  <2>2. Permit' /\ Handover'
    BY <1>22 DEF Hello, OwnerGoto, Permit, Handover, Held, Owner, Types
  <2>3. Owner'
    BY <1>22 DEF Hello, OwnerGoto, Owner, Permit, Held, OwnerLockFree, Handover, Types
  <2>4. Frames'
    BY <1>22 DEF Hello, OwnerGoto, Frames, Owner, Handover, Frame, Types
  <2>5. AnswerIsMine' /\ Numbers'
    BY <1>22 DEF Hello, OwnerGoto, AnswerIsMine, Numbers, Frames, Answered, Handover, Owner,
       Types
  <2>6. Stager'
    BY <1>22 DEF Hello, OwnerGoto, Stager, Handover, Owner, Types
  <2> QED BY <2>1, <2>2, <2>3, <2>4, <2>5, <2>6
<1>23. CASE WriteRequest
  <2>1. Types'
    <3>1. SlotTypes' /\ CallTypes'
      BY <1>23 DEF WriteRequest, OwnerGoto, Types
    <3>2. OwnerTypes'
      BY <1>23 DEF WriteRequest, OwnerGoto, Types
    <3>3. ChildTypes'
      BY <1>23 DEF WriteRequest, OwnerGoto, Types
    <3> QED BY <3>1, <3>2, <3>3 DEF Types
  <2>2. Permit' /\ Handover'
    BY <1>23 DEF WriteRequest, OwnerGoto, Permit, Handover, Held, Owner, Types
  <2>3. Owner'
    BY <1>23 DEF WriteRequest, OwnerGoto, Owner, Permit, Held, OwnerLockFree, Handover, Types
  <2>4. Frames'
    BY <1>23 DEF WriteRequest, OwnerGoto, Frames, Owner, Handover, Frame, Types
  <2>5. AnswerIsMine' /\ Numbers'
    BY <1>23 DEF WriteRequest, OwnerGoto, AnswerIsMine, Numbers, Frames, Answered, Handover,
       Owner, Types
  <2>6. Stager'
    BY <1>23 DEF WriteRequest, OwnerGoto, Stager, Handover, Owner, Types
  <2> QED BY <2>1, <2>2, <2>3, <2>4, <2>5, <2>6
<1>24. CASE ReadResult
  <2>1. Types'
    <3>1. SlotTypes' /\ CallTypes'
      BY <1>24 DEF ReadResult, OwnerGoto, Matches, Types
    <3>2. OwnerTypes'
      BY <1>24 DEF ReadResult, OwnerGoto, Matches, Types
    <3>3. ChildTypes'
      BY <1>24 DEF ReadResult, OwnerGoto, Matches, Types
    <3> QED BY <3>1, <3>2, <3>3 DEF Types
  <2>2. Permit' /\ Handover'
    BY <1>24 DEF ReadResult, OwnerGoto, Matches, Permit, Handover, Held, Owner, Types
  <2>3. Owner'
    BY <1>24 DEF ReadResult, OwnerGoto, Matches, Owner, Permit, Held, OwnerLockFree, Handover,
       Types
  <2>4. Frames'
    <3> DEFINE rest == Tail(stdout)
    <3>1. /\ stdout' = rest /\ Len(rest) = Len(stdout) - 1
          /\ \A i \in 1..Len(rest) : i + 1 \in 1..Len(stdout) /\ rest[i] = stdout[i + 1]
      BY <1>24 DEF ReadResult, Types
    <3>2. 1 \in 1..Len(stdout) /\ Head(stdout) = stdout[1]
      BY <1>24 DEF ReadResult, Types
    <3>3. work.call = None \/ opc' = "kill" \/ stdout[1].sequence = sequence
      BY <1>24, <3>2 DEF ReadResult, OwnerGoto, Matches
    <3>4. UNCHANGED <<work, written, current>>
      BY <1>24 DEF ReadResult, OwnerGoto
    <3>5. CASE Matches(Head(stdout)) /\ session \in procs
      <4>1. work.call = None
        BY <1>24, <3>2, <3>5 DEF Frames, Matches
      <4>2. sequence' = sequence + 1 /\ opc' = "reply"
        BY <1>24, <3>5 DEF ReadResult
      <4>3. reply' = "ok" => current \in written
        BY <1>24, <3>2, <3>5 DEF ReadResult, Matches, Frames
      <4>4. \A i \in 1..Len(stdout) : stdout[i] \in Frame
        BY DEF Types
      <4>5. \A i \in 1..Len(stdout) : stdout[i].sequence \in Nat /\ stdout[i].sequence <= sequence
        BY <4>4 DEF Frames, Frame
      <4> QED BY <3>1, <3>4, <4>1, <4>2, <4>3, <4>5 DEF Frames, Types
    <3>6. CASE ~(Matches(Head(stdout)) /\ session \in procs)
      <4>1. UNCHANGED <<sequence, reply>> /\ opc' = "kill" /\ opc = "read"
        BY <1>24, <3>6 DEF ReadResult, OwnerGoto
      <4>2. \A i \in 1..Len(rest) : /\ rest[i].sequence <= sequence
                                    /\ rest[i].status = "ok" => rest[i].call \in written
        BY <3>1 DEF Frames
      <4>3. work.call # None => \A i \in 1..Len(rest) : rest[i].sequence # sequence
        BY <3>1 DEF Frames
      <4> QED BY <3>1, <3>4, <4>1, <4>2, <4>3 DEF Frames
    <3> QED BY <3>5, <3>6
  <2>5. AnswerIsMine'
    BY <1>24 DEF ReadResult, OwnerGoto, Matches, AnswerIsMine, Frames, Types
  <2>6. Numbers'
    BY <1>24, AnsweredFinite DEF ReadResult, OwnerGoto, Numbers, Answered, Types
  <2>7. Stager'
    BY <1>24 DEF ReadResult, OwnerGoto, Matches, Stager, Handover, Owner, Types
  <2> QED BY <2>1, <2>2, <2>3, <2>4, <2>5, <2>6, <2>7
<1>25. CASE ReadEof
  <2>1. Types'
    <3>1. SlotTypes' /\ CallTypes'
      BY <1>25 DEF ReadEof, OwnerGoto, Types
    <3>2. OwnerTypes'
      BY <1>25 DEF ReadEof, OwnerGoto, Types
    <3>3. ChildTypes'
      BY <1>25 DEF ReadEof, OwnerGoto, Types
    <3> QED BY <3>1, <3>2, <3>3 DEF Types
  <2>2. Permit' /\ Handover'
    BY <1>25 DEF ReadEof, OwnerGoto, Permit, Handover, Held, Owner, Types
  <2>3. Owner'
    BY <1>25 DEF ReadEof, OwnerGoto, Owner, Permit, Held, OwnerLockFree, Handover, Types
  <2>4. Frames'
    BY <1>25 DEF ReadEof, OwnerGoto, Frames, Owner, Handover, Frame, Types
  <2>5. AnswerIsMine' /\ Numbers'
    BY <1>25 DEF ReadEof, OwnerGoto, AnswerIsMine, Numbers, Frames, Answered, Handover, Owner,
       Types
  <2>6. Stager'
    BY <1>25 DEF ReadEof, OwnerGoto, Stager, Handover, Owner, Types
  <2> QED BY <2>1, <2>2, <2>3, <2>4, <2>5, <2>6
<1>26. CASE KillSession
  <2>1. Types'
    <3>1. SlotTypes' /\ CallTypes'
      BY <1>26 DEF KillSession, ProcsAfterKill, Idle, Types
    <3>2. OwnerTypes'
      BY <1>26 DEF KillSession, ProcsAfterKill, Idle, Types
    <3>3. ChildTypes'
      BY <1>26 DEF KillSession, ProcsAfterKill, Idle, Types
    <3> QED BY <3>1, <3>2, <3>3 DEF Types
  <2>2. Permit' /\ Handover'
    BY <1>26 DEF KillSession, ProcsAfterKill, Idle, Permit, Handover, Held, Owner, Types
  <2>3. Owner'
    BY <1>26 DEF KillSession, ProcsAfterKill, Idle, Owner, Permit, Held, OwnerLockFree,
       Handover, Types
  <2>4. Frames'
    BY <1>26 DEF KillSession, ProcsAfterKill, Idle, Frames, Owner, Handover, Frame, Types
  <2>5. AnswerIsMine'
    BY <1>26 DEF KillSession, ProcsAfterKill, Idle, AnswerIsMine, Frames, Types
  <2>6. Numbers'
    BY <1>26, AnsweredFinite DEF KillSession, Numbers, Answered, Types
  <2>7. Stager'
    BY <1>26 DEF KillSession, ProcsAfterKill, Idle, Stager, Handover, Owner, Types
  <2> QED BY <2>1, <2>2, <2>3, <2>4, <2>5, <2>6, <2>7
<1>27. CASE ReplyBundle
  <2>1. Types'
    <3>1. SlotTypes'
      BY <1>27 DEF ReplyBundle, PermitWithBundle, PermitWithout, Types
    <3>2. CallTypes'
      BY <1>27 DEF ReplyBundle, PermitWithBundle, PermitWithout, Types
    <3>3. OwnerTypes'
      BY <1>27 DEF ReplyBundle, PermitWithBundle, PermitWithout, Types
    <3>4. ChildTypes'
      BY <1>27 DEF ReplyBundle, PermitWithBundle, PermitWithout, Types
    <3> QED BY <3>1, <3>2, <3>3, <3>4 DEF Types
  <2>2. Permit'
    BY <1>27 DEF ReplyBundle, PermitWithBundle, PermitWithout, Permit, Held, Handover, Owner, Types
  <2>3. Handover'
    BY <1>27 DEF ReplyBundle, PermitWithBundle, PermitWithout, Handover, Permit, Held, Owner, Types
  <2>4. Owner'
    BY <1>27 DEF ReplyBundle, PermitWithBundle, PermitWithout, Owner, Permit, Held, OwnerLockFree,
       Handover, Types
  <2>5. Frames'
    BY <1>27 DEF ReplyBundle, PermitWithBundle, PermitWithout, Frames, Owner, Handover, Frame, Types
  <2>6. AnswerIsMine'
    BY <1>27 DEF ReplyBundle, PermitWithBundle, PermitWithout, AnswerIsMine, Frames, Types
  <2>7. Numbers'
    <3>1. current \in Calls /\ current \notin Answered
      BY <1>27 DEF ReplyBundle, Owner, Handover, Answered, Types
    <3>2. Answered' = Answered \cup {current}
      BY <1>27, <3>1 DEF ReplyBundle, Answered, Types
    <3>3. Cardinality(Answered') = Cardinality(Answered) + 1
      BY <3>1, <3>2, AnsweredFinite, FS_AddElement
    <3> QED BY <1>27, <3>3, AnsweredFinite DEF ReplyBundle, Numbers, Types
  <2>8. Stager'
    BY <1>27 DEF ReplyBundle, PermitWithBundle, PermitWithout, Stager, Handover, Owner, Types
  <2> QED BY <2>1, <2>2, <2>3, <2>4, <2>5, <2>6, <2>7, <2>8
<1>42. CASE ReplyError
  <2>1. Types'
    <3>1. SlotTypes'
      BY <1>42 DEF ReplyError, OwnerGoto, Types
    <3>2. CallTypes'
      BY <1>42 DEF ReplyError, OwnerGoto, Types
    <3>3. OwnerTypes'
      BY <1>42 DEF ReplyError, OwnerGoto, Types
    <3>4. ChildTypes'
      BY <1>42 DEF ReplyError, OwnerGoto, Types
    <3> QED BY <3>1, <3>2, <3>3, <3>4 DEF Types
  <2>2. Permit'
    BY <1>42 DEF ReplyError, OwnerGoto, Permit, Held, Handover, Owner, Types
  <2>3. Handover'
    BY <1>42 DEF ReplyError, OwnerGoto, Handover, Permit, Held, Owner, Types
  <2>4. Owner'
    BY <1>42 DEF ReplyError, OwnerGoto, Owner, Permit, Held, OwnerLockFree,
       Handover, Types
  <2>5. Frames'
    BY <1>42 DEF ReplyError, OwnerGoto, Frames, Owner, Handover, Frame, Types
  <2>6. AnswerIsMine'
    BY <1>42 DEF ReplyError, OwnerGoto, AnswerIsMine, Frames, Types
  <2>7. Numbers'
    <3>1. current \in Calls /\ current \notin Answered
      BY <1>42 DEF ReplyError, Owner, Handover, Answered, Types
    <3>2. Answered' = Answered \cup {current}
      BY <1>42, <3>1 DEF ReplyError, Answered, Types
    <3>3. Cardinality(Answered') = Cardinality(Answered) + 1
      BY <3>1, <3>2, AnsweredFinite, FS_AddElement
    <3> QED BY <1>42, <3>3, AnsweredFinite DEF ReplyError, OwnerGoto, Numbers, Types
  <2>8. Stager'
    BY <1>42 DEF ReplyError, OwnerGoto, Stager, Handover, Owner, Types
  <2> QED BY <2>1, <2>2, <2>3, <2>4, <2>5, <2>6, <2>7, <2>8
<1>43. CASE Release
  <2>1. Types'
    <3>1. SlotTypes'
      BY <1>43 DEF Release, OwnerGoto, PermitWithout, Types
    <3>2. CallTypes'
      BY <1>43 DEF Release, OwnerGoto, PermitWithout, Types
    <3>3. OwnerTypes'
      BY <1>43 DEF Release, OwnerGoto, PermitWithout, Types
    <3>4. ChildTypes'
      BY <1>43 DEF Release, OwnerGoto, PermitWithout, Types
    <3> QED BY <3>1, <3>2, <3>3, <3>4 DEF Types
  <2>2. Permit'
    BY <1>43 DEF Release, OwnerGoto, PermitWithout, Permit, Held, Handover, Owner, Types
  <2>3. Handover'
    BY <1>43 DEF Release, OwnerGoto, PermitWithout, Handover, Permit, Held, Owner, Types
  <2>4. Owner'
    BY <1>43 DEF Release, OwnerGoto, PermitWithout, Owner, Permit, Held, OwnerLockFree,
       Handover, Types
  <2>5. Frames'
    BY <1>43 DEF Release, OwnerGoto, PermitWithout, Frames, Owner, Handover, Frame, Types
  <2>6. AnswerIsMine'
    BY <1>43 DEF Release, OwnerGoto, PermitWithout, AnswerIsMine, Frames, Types
  <2>7. Numbers'
    BY <1>43 DEF Release, OwnerGoto, PermitWithout, Numbers, Answered, Types
  <2>8. Stager'
    BY <1>43 DEF Release, OwnerGoto, PermitWithout, Stager, Handover, Owner, Types
  <2> QED BY <2>1, <2>2, <2>3, <2>4, <2>5, <2>6, <2>7, <2>8
<1>44. CASE Clear
  <2>1. Types'
    <3>1. SlotTypes'
      BY <1>44 DEF Clear, Types
    <3>2. CallTypes'
      BY <1>44 DEF Clear, Types
    <3>3. OwnerTypes'
      BY <1>44 DEF Clear, Types
    <3>4. ChildTypes'
      BY <1>44 DEF Clear, Types
    <3> QED BY <3>1, <3>2, <3>3, <3>4 DEF Types
  <2>2. Permit'
    BY <1>44 DEF Clear, Permit, Held, Handover, Owner, Types
  <2>3. Handover'
    BY <1>44 DEF Clear, Handover, Permit, Held, Owner, Types
  <2>4. Owner'
    BY <1>44 DEF Clear, Owner, Permit, Held, OwnerLockFree,
       Handover, Types
  <2>5. Frames'
    BY <1>44 DEF Clear, Frames, Owner, Handover, Frame, Types
  <2>6. AnswerIsMine'
    BY <1>44 DEF Clear, AnswerIsMine, Frames, Types
  <2>7. Numbers'
    BY <1>44 DEF Clear, Numbers, Answered, Types
  <2>8. Stager'
    BY <1>44 DEF Clear, Stager, Handover, Owner, Types
  <2> QED BY <2>1, <2>2, <2>3, <2>4, <2>5, <2>6, <2>7, <2>8
<1>28. CASE OwnerStop
  <2>1. Types'
    <3>1. SlotTypes' /\ CallTypes'
      BY <1>28 DEF OwnerStop, ProcsAfterKill, Idle, Types
    <3>2. OwnerTypes'
      BY <1>28 DEF OwnerStop, ProcsAfterKill, Idle, Types
    <3>3. ChildTypes'
      BY <1>28 DEF OwnerStop, ProcsAfterKill, Idle, Types
    <3> QED BY <3>1, <3>2, <3>3 DEF Types
  <2>2. Permit' /\ Handover'
    BY <1>28 DEF OwnerStop, ProcsAfterKill, Idle, Permit, Handover, Held, Owner, Types
  <2>3. Owner'
    BY <1>28 DEF OwnerStop, ProcsAfterKill, Idle, Owner, Permit, Held, OwnerLockFree, Handover,
       Types
  <2>4. Frames'
    BY <1>28 DEF OwnerStop, ProcsAfterKill, Idle, Frames, Owner, Handover, Frame, Types
  <2>5. AnswerIsMine' /\ Numbers'
    BY <1>28 DEF OwnerStop, ProcsAfterKill, Idle, AnswerIsMine, Numbers, Frames, Answered,
       Handover, Owner, Types
  <2>6. Stager'
    BY <1>28 DEF OwnerStop, ProcsAfterKill, Idle, Stager, Handover, Owner, Types
  <2> QED BY <2>1, <2>2, <2>3, <2>4, <2>5, <2>6
<1>29. CASE OwnerEnds
  <2>1. Types'
    <3>1. SlotTypes'
      BY <1>29 DEF OwnerEnds, OwnerGoto, Types
    <3>2. CallTypes'
      BY <1>29 DEF OwnerEnds, OwnerGoto, Types
    <3>3. OwnerTypes'
      BY <1>29 DEF OwnerEnds, OwnerGoto, Types
    <3>4. ChildTypes'
      BY <1>29 DEF OwnerEnds, OwnerGoto, Types
    <3> QED BY <3>1, <3>2, <3>3, <3>4 DEF Types
  <2>2. Permit'
    BY <1>29 DEF OwnerEnds, OwnerGoto, Permit, Held, Handover, Owner, Types
  <2>3. Handover'
    BY <1>29 DEF OwnerEnds, OwnerGoto, Handover, Permit, Held, Owner, Types
  <2>4. Owner'
    BY <1>29 DEF OwnerEnds, OwnerGoto, Owner, Permit, Held, OwnerLockFree, Handover, Types
  <2>5. Frames'
    BY <1>29 DEF OwnerEnds, OwnerGoto, Frames, Owner, Handover, Frame, Types
  <2>6. AnswerIsMine'
    BY <1>29 DEF OwnerEnds, OwnerGoto, AnswerIsMine, Frames, Types
  <2>7. Numbers'
    <3>1. Answered \subseteq Answered' /\ Answered' \subseteq Calls
      BY <1>29 DEF OwnerEnds, OwnerGoto, Answered, Types
    <3>2. IsFiniteSet(Answered')
      BY <3>1, FS_Subset
    <3>3. /\ Cardinality(Answered) <= Cardinality(Answered')
          /\ Cardinality(Answered) \in Nat /\ Cardinality(Answered') \in Nat
      BY <3>1, <3>2, FS_Subset, FS_CardinalityType, AnsweredFinite
    <3> QED BY <1>29, <3>3 DEF OwnerEnds, OwnerGoto, Numbers, Types
  <2>8. Stager'
    BY <1>29 DEF OwnerEnds, OwnerGoto, Stager, Handover, Owner, Types
  <2> QED BY <2>1, <2>2, <2>3, <2>4, <2>5, <2>6, <2>7, <2>8
<1>30. ASSUME NEW matches \in BOOLEAN, Handshake(matches) PROVE IInv'
  <2>1. Types'
    <3>1. SlotTypes' /\ CallTypes'
      BY <1>30 DEF Handshake, OwnerGoto, Types
    <3>2. OwnerTypes'
      BY <1>30 DEF Handshake, OwnerGoto, Types
    <3>3. ChildTypes'
      BY <1>30 DEF Handshake, OwnerGoto, Types
    <3> QED BY <3>1, <3>2, <3>3 DEF Types
  <2>2. Permit' /\ Handover'
    BY <1>30 DEF Handshake, OwnerGoto, Permit, Handover, Held, Owner, Types
  <2>3. Owner'
    BY <1>30 DEF Handshake, OwnerGoto, Owner, Permit, Held, OwnerLockFree, Handover, Types
  <2>4. Frames'
    BY <1>30 DEF Handshake, OwnerGoto, Frames, Owner, Handover, Frame, Types
  <2>5. AnswerIsMine' /\ Numbers'
    BY <1>30 DEF Handshake, OwnerGoto, AnswerIsMine, Numbers, Frames, Answered, Handover,
       Owner, Types
  <2>6. Stager'
    BY <1>30 DEF Handshake, OwnerGoto, Stager, Handover, Owner, Types
  <2> QED BY <2>1, <2>2, <2>3, <2>4, <2>5, <2>6
<1>31. ASSUME NEW status \in {"ok", "error", "bad"}, ChildAnswers(status) PROVE IInv'
  <2>1. Types'
    <3>1. SlotTypes' /\ CallTypes' /\ OwnerTypes'
      BY <1>31 DEF ChildAnswers, Idle, Types
    <3>2. ChildTypes'
      <4>1. work.call \in Calls /\ work.sequence \in Nat
        BY <1>31 DEF ChildAnswers, Types
      <4> DEFINE frame == [call |-> work.call, sequence |-> work.sequence, status |-> status]
      <4>2. frame \in Frame
        BY <4>1, <1>31 DEF Frame
      <4>3. stdout' \in Seq(Frame) /\ Len(stdout') = Len(stdout) + 1
        BY <1>31, <4>2 DEF ChildAnswers, Types
      <4>4. work' \in [call: Calls \cup {None}, sequence: Nat] /\ written' \in SUBSET Calls
        BY <1>31, <4>1 DEF ChildAnswers, Idle, Types
      <4> QED BY <1>31, <4>3, <4>4 DEF ChildAnswers, Types
    <3> QED BY <3>1, <3>2 DEF Types
  <2>2. Permit' /\ Handover'
    BY <1>31 DEF ChildAnswers, Idle, Permit, Handover, Held, Owner, Types
  <2>3. Owner'
    BY <1>31 DEF ChildAnswers, Idle, Owner, Permit, Held, OwnerLockFree, Handover, Types
  <2>4. Frames'
    BY <1>31 DEF ChildAnswers, Idle, Frames, Owner, Handover, Frame, Types
  <2>5. AnswerIsMine' /\ Numbers'
    BY <1>31 DEF ChildAnswers, Idle, AnswerIsMine, Numbers, Frames, Answered, Handover, Owner,
       Types
  <2>6. Stager'
    BY <1>31 DEF ChildAnswers, Idle, Stager, Handover, Owner, Types
  <2> QED BY <2>1, <2>2, <2>3, <2>4, <2>5, <2>6
<1>32. CASE ChildRepeats
  <2>1. Types'
    <3>1. SlotTypes' /\ CallTypes' /\ OwnerTypes'
      BY <1>32 DEF ChildRepeats, Types
    <3>2. ChildTypes'
      <4>1. stdout[Len(stdout)] \in Frame
        BY <1>32 DEF ChildRepeats, Types
      <4>2. stdout' \in Seq(Frame) /\ Len(stdout') = Len(stdout) + 1
        BY <1>32, <4>1 DEF ChildRepeats, Types
      <4>3. Len(stdout') <= MaxFrames
        BY <1>32, <4>2 DEF ChildRepeats, Types
      <4> QED BY <1>32, <4>2, <4>3 DEF ChildRepeats, Types
    <3> QED BY <3>1, <3>2 DEF Types
  <2>2. Permit' /\ Handover'
    BY <1>32 DEF ChildRepeats, Permit, Handover, Held, Owner, Types
  <2>3. Owner'
    BY <1>32 DEF ChildRepeats, Owner, Permit, Held, OwnerLockFree, Handover, Types
  <2>4. Frames'
    BY <1>32 DEF ChildRepeats, Frames, Owner, Handover, Frame, Types
  <2>5. AnswerIsMine' /\ Numbers'
    BY <1>32 DEF ChildRepeats, AnswerIsMine, Numbers, Frames, Answered, Handover, Owner, Types
  <2>6. Stager'
    BY <1>32 DEF ChildRepeats, Stager, Handover, Owner, Types
  <2> QED BY <2>1, <2>2, <2>3, <2>4, <2>5, <2>6
<1>33. CASE ChildDies
  <2>1. Types'
    <3>1. SlotTypes' /\ CallTypes' /\ OwnerTypes'
      BY <1>33 DEF ChildDies, Idle, Types
    <3>2. ChildTypes'
      BY <1>33 DEF ChildDies, Idle, Types
    <3> QED BY <3>1, <3>2 DEF Types
  <2>2. Permit' /\ Handover'
    BY <1>33 DEF ChildDies, Idle, Permit, Handover, Held, Owner, Types
  <2>3. Owner'
    BY <1>33 DEF ChildDies, Idle, Owner, Permit, Held, OwnerLockFree, Handover, Types
  <2>4. Frames'
    BY <1>33 DEF ChildDies, Idle, Frames, Owner, Handover, Frame, Types
  <2>5. AnswerIsMine' /\ Numbers'
    BY <1>33 DEF ChildDies, Idle, AnswerIsMine, Numbers, Frames, Answered, Handover, Owner,
       Types
  <2>6. Stager'
    BY <1>33 DEF ChildDies, Idle, Stager, Handover, Owner, Types
  <2> QED BY <2>1, <2>2, <2>3, <2>4, <2>5, <2>6
<1>34. CASE Close
  <2>1. Types'
    <3>1. SlotTypes'
      BY <1>34 DEF Close, Types
    <3>2. CallTypes' /\ OwnerTypes' /\ ChildTypes'
      BY <1>34 DEF Close, Types
    <3> QED BY <3>1, <3>2 DEF Types
  <2>2. Permit' /\ Handover'
    BY <1>34 DEF Close, Permit, Handover, Held, Owner, Types
  <2>3. Owner'
    BY <1>34 DEF Close, Owner, Permit, Held, OwnerLockFree, Handover, Types
  <2>4. Frames' /\ AnswerIsMine' /\ Numbers'
    BY <1>34 DEF Close, Frames, AnswerIsMine, Numbers, Owner, Handover, Frame, Answered, Types
  <2>5. Stager'
    BY <1>34 DEF Close, Stager, Handover, Owner, Types
  <2> QED BY <2>1, <2>2, <2>3, <2>4, <2>5
<1>35. CASE Signal
  <2>1. Types'
    <3>1. SlotTypes'
      BY <1>35 DEF Signal, Types
    <3>2. CallTypes' /\ OwnerTypes' /\ ChildTypes'
      BY <1>35 DEF Signal, Types
    <3> QED BY <3>1, <3>2 DEF Types
  <2>2. Permit' /\ Handover'
    BY <1>35 DEF Signal, Permit, Handover, Held, Owner, Types
  <2>3. Owner'
    BY <1>35 DEF Signal, Owner, Permit, Held, OwnerLockFree, Handover, Types
  <2>4. Frames' /\ AnswerIsMine' /\ Numbers'
    BY <1>35 DEF Signal, Frames, AnswerIsMine, Numbers, Owner, Handover, Frame, Answered, Types
  <2>5. Stager'
    BY <1>35 DEF Signal, Stager, Handover, Owner, Types
  <2> QED BY <2>1, <2>2, <2>3, <2>4, <2>5
<1>36. CASE TakeHandle
  <2>1. Types'
    <3>1. SlotTypes'
      BY <1>36 DEF TakeHandle, OwnerLockFree, Types
    <3>2. CallTypes' /\ OwnerTypes' /\ ChildTypes'
      BY <1>36 DEF TakeHandle, OwnerLockFree, Types
    <3> QED BY <3>1, <3>2 DEF Types
  <2>2. Permit' /\ Handover'
    BY <1>36 DEF TakeHandle, OwnerLockFree, Permit, Handover, Held, Owner, Types
  <2>3. Owner'
    BY <1>36 DEF TakeHandle, OwnerLockFree, Owner, Permit, Held, Handover, Types
  <2>4. Frames' /\ AnswerIsMine' /\ Numbers'
    BY <1>36 DEF TakeHandle, OwnerLockFree, Frames, AnswerIsMine, Numbers, Owner, Handover,
       Frame, Answered, Types
  <2>5. Stager'
    BY <1>36 DEF TakeHandle, OwnerLockFree, Stager, Handover, Owner, Types
  <2> QED BY <2>1, <2>2, <2>3, <2>4, <2>5
<1>37. CASE Join
  <2>1. Types'
    <3>1. SlotTypes'
      BY <1>37 DEF Join, Types
    <3>2. CallTypes' /\ OwnerTypes' /\ ChildTypes'
      BY <1>37 DEF Join, Types
    <3> QED BY <3>1, <3>2 DEF Types
  <2>2. Permit' /\ Handover'
    BY <1>37 DEF Join, Permit, Handover, Held, Owner, Types
  <2>3. Owner'
    BY <1>37 DEF Join, Owner, Permit, Held, OwnerLockFree, Handover, Types
  <2>4. Frames' /\ AnswerIsMine' /\ Numbers'
    BY <1>37 DEF Join, Frames, AnswerIsMine, Numbers, Owner, Handover, Frame, Answered, Types
  <2>5. Stager'
    BY <1>37 DEF Join, Stager, Handover, Owner, Types
  <2> QED BY <2>1, <2>2, <2>3, <2>4, <2>5
<1>38. CASE UNCHANGED vars
  <2>1. Types'
    BY <1>38 DEF vars, Types
  <2>2. Permit' /\ Handover' /\ Stager' /\ Owner'
    BY <1>38 DEF vars, Permit, Held, Handover, Stager, Owner
  <2>3. Frames' /\ AnswerIsMine' /\ Numbers'
    BY <1>38 DEF vars, Frames, AnswerIsMine, Numbers, Answered
  <2> QED BY <2>1, <2>2, <2>3
<1> QED BY <1>1, <1>2, <1>3, <1>4, <1>5, <1>6, <1>7, <1>8, <1>9, <1>10, <1>11, <1>12, <1>13,
       <1>14, <1>15, <1>16, <1>17, <1>18, <1>19, <1>20, <1>21, <1>22, <1>23, <1>24, <1>25,
       <1>26, <1>27, <1>28, <1>29, <1>30, <1>31, <1>32, <1>33, <1>34, <1>35, <1>36, <1>37,
       <1>38, <1>39, <1>40, <1>41, <1>42, <1>43, <1>44 DEF Next, CallStep, StagerStep, OwnerStep, ChildStep, ShutdownStep

\* The inductive invariant holds initially.
LEMMA InitIInv == Init => IInv
<1> SUFFICES ASSUME Init PROVE IInv
  OBVIOUS
<1>1. Types
  <2>1. SlotTypes /\ CallTypes
    BY DEF Init, SlotTypes, CallTypes
  <2>2. OwnerTypes /\ ChildTypes
    BY DEF Init, OwnerTypes, Idle
  <2> QED BY <2>1, <2>2 DEF Types
<1>2. Permit /\ Handover /\ Stager
  BY DEF Init, Permit, Held, Handover, Stager
<1>3. Owner
  BY DEF Init, Owner
<1>4. Frames /\ AnswerIsMine
  BY DEF Init, Frames, AnswerIsMine, Idle
<1>5. Numbers
  BY AnsweredFinite DEF Init, Numbers
<1> QED BY <1>1, <1>2, <1>3, <1>4, <1>5 DEF IInv

\* The inductive invariant holds of every reachable state.
THEOREM WorkerInvariant == Spec => []IInv
BY InitIInv, StepKeepsIInv, PTL DEF Spec

\* Whoever calls, times out or walks away: there is one request number for each
\* answered call at most, one command in the channel at most.
LEMMA InvariantTypes == IInv => TypeOK
<1> SUFFICES ASSUME IInv PROVE TypeOK
  OBVIOUS
<1>1. Cardinality(chan) <= 1
  <2>1. CASE chan = {}
    BY <2>1, FS_EmptySet
  <2>2. CASE chan # {}
    <3>1. PICK r \in Calls : r \in chan
      BY <2>2 DEF IInv, Types
    <3>2. \A s \in chan : s = r
      BY <3>1 DEF IInv, Types, Permit, Held
    <3>3. chan = {r}
      BY <3>1, <3>2
    <3> QED BY <3>3, FS_Singleton
  <2> QED BY <2>1, <2>2
<1>2. sequence <= Cardinality(Calls) + 1
  <2>1. Answered \subseteq Calls /\ Cardinality(Calls) \in Nat
    BY FS_CardinalityType DEF Answered
  <2>2. Cardinality(Answered) <= Cardinality(Calls)
    BY <2>1, FS_Subset
  <2>3. CASE opc # "reply"
    BY <2>1, <2>2, <2>3, AnsweredFinite DEF IInv, Numbers, Types
  <2>4. CASE opc = "reply"
    <3>1. current \in Calls /\ current \notin Answered
      BY <2>4 DEF IInv, Types, Owner, Handover, Answered
    <3>2. Cardinality(Answered \cup {current}) = Cardinality(Answered) + 1
      BY <3>1, AnsweredFinite, FS_AddElement
    <3>3. Cardinality(Answered \cup {current}) <= Cardinality(Calls)
      BY <2>1, <3>1, FS_Subset
    <3> QED BY <2>1, <2>4, <3>2, <3>3, AnsweredFinite DEF IInv, Numbers, Types
  <2> QED BY <2>3, <2>4
<1>3. work.call \in Calls \cup {None} /\ work.sequence \in Nat
  BY DEF IInv, Types
<1>4. Cardinality(Calls) \in Nat
  BY FS_CardinalityType
<1> QED BY <1>1, <1>2, <1>3, <1>4 DEF IInv, Types, TypeOK

\* However calls time out, are dropped or keep their bundle, and whatever their
\* stagers are still doing: one document is in use at a time, and a caller is given
\* the bundle of its own request.
THEOREM CallsAreSound == Spec => []CallsSound
<1>1. IInv => CallsSound
  <2> SUFFICES ASSUME IInv PROVE CallsSound
    OBVIOUS
  <2> USE DEF IInv
  <2>1. ASSUME NEW r \in Calls, InUse(r) PROVE permit = r /\ (pc[r] # "stage" => temp[r])
    <3>1. pc[r] # "stage" => temp[r]
      BY <2>1 DEF InUse, Handover
    <3>2. ~OnItsWayOut(r)
      BY <2>1 DEF InUse, OnItsWayOut, Handover, Stager, Types
    <3>3. Held(r)
      BY <2>1, <3>2 DEF InUse, OnItsWayOut, Held
    <3> QED BY <3>1, <3>3 DEF Permit
  <2>2. ASSUME NEW r \in Calls, HasDir(r) PROVE InUse(r) \/ OnItsWayOut(r)
    BY <2>2 DEF HasDir, InUse, OnItsWayOut, Handover, Stager, Types
  <2>3. ASSUME NEW r \in Calls, InUse(r) PROVE ~OnItsWayOut(r)
    BY <2>3 DEF InUse, OnItsWayOut, Handover, Stager, Types
  <2>4. OneDocument
    BY <2>1, <2>2, <2>3 DEF OneDocument
  <2> QED BY <2>4, InvariantTypes DEF CallsSound
<1> QED BY <1>1, WorkerInvariant, PTL

\* A child dies before its directory does, and none outlives the session or the
\* shutdown.
THEOREM ChildrenAreSound == Spec => []ChildrenSound
<1>1. IInv => ChildrenSound
  <2> SUFFICES ASSUME IInv PROVE ChildrenSound
    OBVIOUS
  <2>1. DirOutlivesWork
    BY DEF IInv, Frames, Handover, Types, DirOutlivesWork
  <2>2. NoStrayChild
    BY DEF IInv, Owner, Types, NoStrayChild
  <2> QED BY <2>1, <2>2 DEF ChildrenSound
<1> QED BY <1>1, WorkerInvariant, PTL

=============================================================================
