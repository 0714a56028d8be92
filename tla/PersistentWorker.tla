-------------------------- MODULE PersistentWorker --------------------------
(***************************************************************************)
(* The persistent Python worker of the official runtime: any number of     *)
(* run_owned calls share one admission permit, one owner task and, through *)
(* it, one child process that answers one framed request at a time.        *)
(*   src/src/official_worker/{persistent,staging}.rs, persistent/child.rs  *)
(*                                                                         *)
(* A step is what runs between two awaits, or under the owner lock, cut in *)
(* two where the permit is given back before the temporary directory is    *)
(* removed.  The permit and the directory of a call travel with it: from   *)
(* the caller into the command, from there into the owner's loop, and with *)
(* the bundle back to the caller.  The directory begins its life with a    *)
(* blocking thread, the stager, which runs on when its caller gives up.    *)
(* The child process is external: it answers, repeats itself, hangs or     *)
(* dies as it likes.                                                       *)
(***************************************************************************)
EXTENDS Integers, Sequences, FiniteSets

CONSTANTS
  Calls,        \* run_owned calls; a call is its own request id
  MaxChildren,  \* bound: child processes that may be spawned
  MaxFrames,    \* bound: unread frames in the child's stdout
  None          \* no call

ASSUME WorkerAssumption ==
  /\ MaxChildren \in Nat /\ MaxFrames \in Nat
  /\ IsFiniteSet(Calls) /\ None \notin Calls

VARIABLES
  \* OfficialPersistentWorker
  closed,   \* closed
  signal,   \* the value in the shutdown watch channel
  handle,   \* the owner slot holds the owner's JoinHandle
  taken,    \* the command receiver has been given to an owner
  permit,   \* the call whose permit is out, or None: Semaphore(1)
  chan,     \* commands in the mpsc channel of capacity 1
  \* the calls
  pc, result, expired, canceled, response,
  temp,     \* the call, its command or its bundle owns the temporary directory
  stager,   \* the blocking thread that writes the directory, and owns it meanwhile
  \* the owner task
  opc, current, reply, session, sequence,
  \* child processes
  spawned,  \* how many were spawned
  procs,    \* those that have not been killed and have not died
  work,     \* the request frame the child of the session is working on
  stdout,   \* the frames it has written and nobody has read
  written,  \* the calls whose bundle a child has written
  down      \* where the one shutdown call is

slotVars == <<closed, signal, handle, taken>>
callVars == <<pc, result, expired, canceled, response, temp, stager>>
ownerVars == <<opc, current, reply, session, sequence>>
childVars == <<spawned, procs, work, stdout, written>>
vars == <<slotVars, permit, chan, callVars, ownerVars, childVars, down>>

Idle == [call |-> None, sequence |-> 0]
Frame == [call: Calls, sequence: Nat, status: {"ok", "error", "bad"}]
NoSession == 0

\* The receivers of the watch channel: calls that wait for the permit or are
\* about to spawn the owner, and the owner itself.  send fails without one.
Receivers == (\E r \in Calls : pc[r] \in {"acquire", "spawn", "locked"})
             \/ opc \notin {"none", "ended"}

----------------------------------------------------------------------------
(* run_owned                                                               *)

\* What dropping call r's permit leaves.
PermitWithout(r) == IF permit = r THEN None ELSE permit

\* The call returns an error and drops what it holds.
Fail(r) ==
  /\ pc' = [pc EXCEPT ![r] = "done"]
  /\ result' = [result EXCEPT ![r] = "err"]
  /\ permit' = PermitWithout(r)
  /\ temp' = [temp EXCEPT ![r] = FALSE]

Goto(r, next) ==
  /\ pc' = [pc EXCEPT ![r] = next]
  /\ UNCHANGED <<result, permit, temp>>

\* The first look at closed.
Begin(r) ==
  /\ pc[r] = "new"
  /\ IF closed THEN Fail(r) ELSE Goto(r, "subscribe")
  /\ UNCHANGED <<slotVars, chan, expired, canceled, response, stager, ownerVars, childVars, down>>

\* acquire_persistent_permit: subscribe, then look at the value.
Subscribe(r) ==
  /\ pc[r] = "subscribe"
  /\ IF signal THEN Fail(r) ELSE Goto(r, "acquire")
  /\ UNCHANGED <<slotVars, chan, expired, canceled, response, stager, ownerVars, childVars, down>>

Acquire(r) ==
  /\ pc[r] = "acquire" /\ permit = None
  /\ permit' = r
  /\ pc' = [pc EXCEPT ![r] = "check"]
  /\ UNCHANGED <<slotVars, chan, result, expired, canceled, response, temp, stager, ownerVars,
                 childVars, down>>

\* Mutant: the wait for the permit does not listen to the shutdown.
AcquireOnlyExpires(r) == expired[r]

AcquireInterrupted(r) == signal \/ expired[r]

AcquireFails(r) ==
  /\ pc[r] = "acquire" /\ AcquireInterrupted(r)
  /\ Fail(r)
  /\ UNCHANGED <<slotVars, chan, expired, canceled, response, stager, ownerVars, childVars, down>>

\* The second look at closed, with the permit; stage_input then looks at the
\* deadline and hands the writing to a blocking thread.
Check(r) ==
  /\ pc[r] = "check"
  /\ IF closed \/ expired[r]
     THEN Fail(r) /\ stager' = stager
     ELSE Goto(r, "stage") /\ stager' = [stager EXCEPT ![r] = "queued"]
  /\ UNCHANGED <<slotVars, chan, expired, canceled, response, ownerVars, childVars, down>>

\* stage_input returns the directory.  Past the deadline the permit is dropped
\* first, else the call subscribes for the owner it may have to spawn.
Staged(r) ==
  /\ pc[r] = "stage" /\ stager[r] = "ready"
  /\ temp' = [temp EXCEPT ![r] = TRUE]
  /\ stager' = [stager EXCEPT ![r] = "none"]
  /\ pc' = [pc EXCEPT ![r] = IF expired[r] THEN "late" ELSE "spawn"]
  /\ permit' = IF expired[r] THEN PermitWithout(r) ELSE permit
  /\ UNCHANGED <<slotVars, chan, result, expired, canceled, response, ownerVars, childVars, down>>

\* The return, which removes the directory.
Late(r) ==
  /\ pc[r] = "late"
  /\ Fail(r)
  /\ UNCHANGED <<slotVars, chan, expired, canceled, response, stager, ownerVars, childVars, down>>

\* The JoinHandle is dropped, with the output of a thread that has ended; one
\* that has not runs on, detached.
DropStager(r) ==
  stager' = [stager EXCEPT ![r] = IF @ \in {"ready", "failed"} THEN "none" ELSE @]

\* The stager failed, or the deadline passed before it was done.
StageFails(r) ==
  /\ pc[r] = "stage" /\ (stager[r] = "failed" \/ expired[r])
  /\ Fail(r)
  /\ DropStager(r)
  /\ UNCHANGED <<slotVars, chan, expired, canceled, response, ownerVars, childVars, down>>

\* The owner lock is held between the two halves of spawn_owner.
OwnerLockFree == \A r \in Calls : pc[r] # "locked"

\* Mutant: spawn_owner does not look at closed.
SpawnAnyway == ~taken

\* An owner may be spawned only before the shutdown, and only once: its
\* receiver is not replaced.
MaySpawn == ~closed /\ ~taken

SpawnLock(r) ==
  /\ pc[r] = "spawn" /\ OwnerLockFree
  /\ IF handle THEN Goto(r, "send")
     ELSE IF MaySpawn THEN Goto(r, "locked")
     ELSE Fail(r)
  /\ UNCHANGED <<slotVars, chan, expired, canceled, response, stager, ownerVars, childVars, down>>

SpawnOwner(r) ==
  /\ pc[r] = "locked"
  /\ Goto(r, "send")
  /\ handle' = TRUE /\ taken' = TRUE
  /\ opc' = "top"
  /\ UNCHANGED <<closed, signal, chan, expired, canceled, response, stager, current, reply,
                 session, sequence, childVars, down>>

\* The command goes into the channel unless the owner, and with it the
\* receiver, is gone; then it comes back and is dropped.
Send(r) ==
  /\ pc[r] = "send"
  /\ IF opc = "ended"
     THEN Fail(r) /\ chan' = chan
     ELSE chan = {} /\ Goto(r, "wait") /\ chan' = {r}
  /\ UNCHANGED <<slotVars, expired, canceled, response, stager, ownerVars, childVars, down>>

SendExpires(r) ==
  /\ pc[r] = "send" /\ expired[r]
  /\ Fail(r)
  /\ UNCHANGED <<slotVars, chan, expired, canceled, response, stager, ownerVars, childVars, down>>

\* The response channel has a value, or its sender was dropped with the command.
Receive(r) ==
  /\ pc[r] = "wait" /\ response[r] # "pending"
  /\ pc' = [pc EXCEPT ![r] = "done"]
  /\ result' = [result EXCEPT ![r] = IF response[r] = "ok" THEN "ok" ELSE "err"]
  /\ UNCHANGED <<slotVars, permit, chan, expired, canceled, response, temp, stager, ownerVars,
                 childVars, down>>

\* The deadline of the wait: the command stays with the owner, which is told.
WaitExpires(r) ==
  /\ pc[r] = "wait" /\ response[r] = "pending" /\ expired[r]
  /\ pc' = [pc EXCEPT ![r] = "done"]
  /\ result' = [result EXCEPT ![r] = "err"]
  /\ canceled' = [canceled EXCEPT ![r] = TRUE]
  /\ UNCHANGED <<slotVars, permit, chan, expired, response, temp, stager, ownerVars,
                 childVars, down>>

\* The caller's future is dropped at one of its awaits.  Waiting for the
\* response, it drops the cancel sender and a bundle that has already arrived.
Abandon(r) ==
  /\ pc[r] \in {"acquire", "stage", "send", "wait"}
  /\ canceled' = [canceled EXCEPT ![r] = TRUE]
  /\ IF pc[r] = "wait" /\ response[r] # "ok"
     THEN /\ pc' = [pc EXCEPT ![r] = "done"] /\ result' = [result EXCEPT ![r] = "err"]
          /\ UNCHANGED <<permit, temp>>
     ELSE Fail(r)
  /\ DropStager(r)
  /\ UNCHANGED <<slotVars, chan, expired, response, ownerVars, childVars, down>>

\* The caller is done with the OfficialBundle.
DropBundle(r) ==
  /\ pc[r] = "done" /\ result[r] = "ok" /\ temp[r]
  /\ permit' = PermitWithout(r)
  /\ temp' = [temp EXCEPT ![r] = FALSE]
  /\ UNCHANGED <<slotVars, chan, pc, result, expired, canceled, response, stager, ownerVars,
                 childVars, down>>

Expire(r) ==
  /\ pc[r] # "new" /\ ~expired[r]
  /\ expired' = [expired EXCEPT ![r] = TRUE]
  /\ UNCHANGED <<slotVars, permit, chan, pc, result, canceled, response, temp, stager,
                 ownerVars, childVars, down>>

----------------------------------------------------------------------------
(* The blocking thread of stage_input.  It is told to stop between two      *)
(* writes, but creates the directory without looking.                       *)

StagerGoto(r, next) ==
  /\ stager' = [stager EXCEPT ![r] = next]
  /\ UNCHANGED <<slotVars, permit, chan, pc, result, expired, canceled, response, temp,
                 ownerVars, childVars, down>>

\* What a thread that has ended leaves: nothing once the JoinHandle is dropped.
Outcomes(r) == IF pc[r] = "stage" THEN {"ready", "failed"} ELSE {"none"}

StagerStarts(r) ==
  /\ stager[r] = "queued"
  /\ \E next \in {"writing"} \cup (Outcomes(r) \ {"ready"}) : StagerGoto(r, next)

StagerEnds(r) ==
  /\ stager[r] = "writing"
  /\ \E next \in Outcomes(r) : StagerGoto(r, next)

----------------------------------------------------------------------------
(* persistent_owner_loop                                                   *)

OwnerGoto(next) ==
  opc' = next /\ UNCHANGED <<current, reply, session, sequence>>

OwnerTop ==
  /\ opc = "top"
  /\ OwnerGoto(IF signal THEN "stop" ELSE "recv")
  /\ UNCHANGED <<slotVars, permit, chan, callVars, childVars, down>>

\* Mutant: the command is looked at but stays in the channel.
Peeked(r) == chan

Received(r) == chan \ {r}

OwnerRecv ==
  /\ opc = "recv"
  /\ \/ signal /\ OwnerGoto("stop") /\ chan' = chan
     \/ \E r \in chan : /\ opc' = "ensure" /\ current' = r /\ chan' = Received(r)
                        /\ UNCHANGED <<reply, session, sequence>>
  /\ UNCHANGED <<slotVars, permit, callVars, childVars, down>>

\* ensure_persistent_session: keep the child there is, or spawn one.
EnsureSession ==
  /\ opc = "ensure"
  /\ \/ session # NoSession /\ OwnerGoto("write") /\ UNCHANGED childVars
     \/ /\ session = NoSession /\ spawned < MaxChildren
        /\ opc' = "hello" /\ session' = spawned + 1 /\ sequence' = 1
        /\ spawned' = spawned + 1 /\ procs' = procs \cup {spawned + 1}
        /\ work' = Idle /\ stdout' = <<>>
        /\ UNCHANGED <<current, reply, written>>
  /\ UNCHANGED <<slotVars, permit, chan, callVars, down>>

SpawnFails ==
  /\ opc = "ensure" /\ session = NoSession
  /\ OwnerGoto("kill")
  /\ UNCHANGED <<slotVars, permit, chan, callVars, childVars, down>>

\* Mutant: controlled_io does not listen to the shutdown.
InterruptedByCaller == expired[current] \/ canceled[current]
\* Mutant: controlled_io does not listen to the deadline and the cancel.
InterruptedByShutdown == signal

\* controlled_io: the shutdown, the deadline or the caller's cancel.
Interrupted == signal \/ expired[current] \/ canceled[current]

\* Looked at before the I/O starts; the caller's cancel is only awaited.
MayStart == ~signal /\ ~expired[current]

\* Mutant: an interrupted request leaves its session in place.
InterruptKeepsSession == "reply"

\* Every error of request is PersistentFailure::Dead.
AfterInterrupt == "kill"

IoInterrupted ==
  /\ opc \in {"hello", "ready", "write", "read"} /\ Interrupted
  /\ OwnerGoto(AfterInterrupt)
  /\ UNCHANGED <<slotVars, permit, chan, callVars, childVars, down>>

\* handshake: the start frame is written.
Hello ==
  /\ opc = "hello" /\ MayStart
  /\ OwnerGoto("ready")
  /\ UNCHANGED <<slotVars, permit, chan, callVars, childVars, down>>

\* request, first half: a child that has exited fails the request at once.
WriteRequest ==
  /\ opc = "write"
  /\ IF session \notin procs
     THEN OwnerGoto("kill") /\ work' = work
     ELSE /\ MayStart
          /\ OwnerGoto("read")
          /\ work' = [call |-> current, sequence |-> sequence]
  /\ UNCHANGED <<slotVars, permit, chan, callVars, spawned, procs, stdout, written, down>>

\* Mutant: the answer is not compared with the request.
MatchesAny(frame) == frame.status # "bad"

Matches(frame) ==
  frame.status # "bad" /\ frame.call = current /\ frame.sequence = sequence

\* request, second half: the frame must be a result for this request from a
\* child that still lives.  An "error" result is the document's failure and
\* leaves the session in place, everything else is the session's.
ReadResult ==
  /\ opc = "read" /\ stdout # <<>>
  /\ stdout' = Tail(stdout)
  /\ IF Matches(Head(stdout)) /\ session \in procs
     THEN /\ opc' = "reply" /\ sequence' = sequence + 1
          /\ reply' = IF Head(stdout).status = "ok" THEN "ok" ELSE "err"
          /\ UNCHANGED <<current, session>>
     ELSE OwnerGoto("kill")
  /\ UNCHANGED <<slotVars, permit, chan, callVars, spawned, procs, work, written, down>>

\* The pipe is at its end.
ReadEof ==
  /\ opc \in {"ready", "read"} /\ stdout = <<>> /\ session \notin procs
  /\ OwnerGoto("kill")
  /\ UNCHANGED <<slotVars, permit, chan, callVars, childVars, down>>

ProcsAfterKill == procs \ {session}

\* child.shutdown of a session that failed.
KillSession ==
  /\ opc = "kill"
  /\ opc' = "reply" /\ reply' = "err" /\ session' = NoSession
  /\ procs' = ProcsAfterKill
  /\ work' = Idle /\ stdout' = <<>>
  /\ UNCHANGED <<slotVars, permit, chan, callVars, current, sequence, spawned, written, down>>

\* Mutant: the bundle does not carry the permit.
PermitOfNobody == None

\* The bundle takes the permit along.
PermitWithBundle == permit

\* response.send of a bundle: one whose caller has gone is dropped there.
ReplyBundle ==
  LET delivered == pc[current] = "wait"
  IN /\ opc = "reply" /\ reply = "ok"
     /\ opc' = "top" /\ current' = None /\ reply' = "err"
     /\ response' = [response EXCEPT ![current] = "ok"]
     /\ temp' = [temp EXCEPT ![current] = delivered]
     /\ permit' = IF delivered THEN PermitWithBundle ELSE PermitWithout(current)
     /\ UNCHANGED <<slotVars, chan, pc, result, expired, canceled, stager, session, sequence,
                    childVars, down>>

\* response.send of an error; the iteration ends after it.
ReplyError ==
  /\ opc = "reply" /\ reply = "err"
  /\ OwnerGoto("release")
  /\ response' = [response EXCEPT ![current] = "err"]
  /\ UNCHANGED <<slotVars, permit, chan, pc, result, expired, canceled, temp, stager,
                 childVars, down>>

\* The parts of the command are dropped in reverse order: the permit ...
Release ==
  /\ opc = "release"
  /\ OwnerGoto("clear")
  /\ permit' = PermitWithout(current)
  /\ UNCHANGED <<slotVars, chan, callVars, childVars, down>>

\* ... and then the directory.
Clear ==
  /\ opc = "clear"
  /\ opc' = "top" /\ current' = None
  /\ temp' = [temp EXCEPT ![current] = FALSE]
  /\ UNCHANGED <<slotVars, permit, chan, pc, result, expired, canceled, response, stager,
                 reply, session, sequence, childVars, down>>

\* The end of the loop: the child is killed, then the receiver is dropped with
\* the command that may still be in it.
OwnerStop ==
  /\ opc = "stop"
  /\ opc' = "drop" /\ session' = NoSession
  /\ procs' = ProcsAfterKill
  /\ work' = Idle /\ stdout' = <<>>
  /\ UNCHANGED <<slotVars, permit, chan, callVars, current, reply, sequence, spawned,
                 written, down>>

OwnerEnds ==
  /\ opc = "drop"
  /\ OwnerGoto("ended")
  /\ chan' = {}
  /\ response' = [r \in Calls |-> IF r \in chan THEN "dropped" ELSE response[r]]
  /\ temp' = [r \in Calls |-> temp[r] /\ r \notin chan]
  /\ permit' = IF permit \in chan THEN None ELSE permit
  /\ UNCHANGED <<slotVars, pc, result, expired, canceled, stager, childVars, down>>

----------------------------------------------------------------------------
(* The child process (external)                                            *)

\* The child answers the start frame and the owner compares the answer with the
\* pinned protocol.
Handshake(matches) ==
  /\ opc = "ready" /\ session \in procs
  /\ OwnerGoto(IF matches THEN "write" ELSE "kill")
  /\ UNCHANGED <<slotVars, permit, chan, callVars, childVars, down>>

ChildAnswers(status) ==
  /\ session \in procs /\ work.call # None /\ Len(stdout) < MaxFrames
  /\ stdout' = Append(stdout, [call |-> work.call, sequence |-> work.sequence,
                               status |-> status])
  /\ written' = IF status = "ok" THEN written \cup {work.call} ELSE written
  /\ work' = Idle
  /\ UNCHANGED <<slotVars, permit, chan, callVars, ownerVars, spawned, procs, down>>

\* The child writes an answer twice.
ChildRepeats ==
  /\ session \in procs /\ stdout # <<>> /\ Len(stdout) < MaxFrames
  /\ stdout' = Append(stdout, stdout[Len(stdout)])
  /\ UNCHANGED <<slotVars, permit, chan, callVars, ownerVars, spawned, procs, work,
                 written, down>>

ChildDies ==
  /\ session \in procs
  /\ procs' = procs \ {session} /\ work' = Idle
  /\ UNCHANGED <<slotVars, permit, chan, callVars, ownerVars, spawned, stdout, written, down>>

----------------------------------------------------------------------------
(* shutdown                                                                *)

Close ==
  /\ down = "up"
  /\ closed' = TRUE /\ down' = "signal"
  /\ UNCHANGED <<signal, handle, taken, permit, chan, callVars, ownerVars, childVars>>

\* watch::Sender::send leaves the value alone when nobody has subscribed.
Signal ==
  /\ down = "signal"
  /\ signal' = (signal \/ Receivers)
  /\ down' = "take"
  /\ UNCHANGED <<closed, handle, taken, permit, chan, callVars, ownerVars, childVars>>

TakeHandle ==
  /\ down = "take" /\ OwnerLockFree
  /\ down' = IF handle THEN "join" ELSE "returned"
  /\ handle' = FALSE
  /\ UNCHANGED <<closed, signal, taken, permit, chan, callVars, ownerVars, childVars>>

Join ==
  /\ down = "join" /\ opc = "ended"
  /\ down' = "returned"
  /\ UNCHANGED <<slotVars, permit, chan, callVars, ownerVars, childVars>>

----------------------------------------------------------------------------
Init ==
  /\ closed = FALSE /\ signal = FALSE /\ handle = FALSE /\ taken = FALSE
  /\ permit = None /\ chan = {}
  /\ pc = [r \in Calls |-> "new"] /\ result = [r \in Calls |-> "none"]
  /\ expired = [r \in Calls |-> FALSE] /\ canceled = [r \in Calls |-> FALSE]
  /\ response = [r \in Calls |-> "pending"] /\ temp = [r \in Calls |-> FALSE]
  /\ stager = [r \in Calls |-> "none"]
  /\ opc = "none" /\ current = None /\ reply = "err" /\ session = NoSession /\ sequence = 1
  /\ spawned = 0 /\ procs = {} /\ work = Idle /\ stdout = <<>> /\ written = {}
  /\ down = "up"

CallStep(r) ==
  \/ Subscribe(r) \/ Acquire(r) \/ AcquireFails(r) \/ Check(r) \/ Staged(r) \/ Late(r)
  \/ StageFails(r) \/ SpawnLock(r) \/ SpawnOwner(r) \/ Send(r) \/ SendExpires(r) \/ Receive(r)
  \/ WaitExpires(r)

StagerStep(r) == StagerStarts(r) \/ StagerEnds(r)

OwnerStep ==
  \/ OwnerTop \/ OwnerRecv \/ EnsureSession \/ SpawnFails \/ IoInterrupted \/ Hello
  \/ WriteRequest \/ ReadResult \/ ReadEof \/ KillSession \/ ReplyBundle \/ ReplyError
  \/ Release \/ Clear \/ OwnerStop \/ OwnerEnds

ChildStep ==
  \/ \E matches \in BOOLEAN : Handshake(matches)
  \/ \E status \in {"ok", "error", "bad"} : ChildAnswers(status)
  \/ ChildRepeats \/ ChildDies

ShutdownStep == Close \/ Signal \/ TakeHandle \/ Join

Next ==
  \/ \E r \in Calls : \/ Begin(r) \/ CallStep(r) \/ Abandon(r) \/ DropBundle(r)
                       \/ Expire(r) \/ StagerStep(r)
  \/ OwnerStep \/ ChildStep \/ ShutdownStep

\* Tasks and blocking threads that can run do; nothing is assumed of the child, of the callers that
\* hold a bundle, or of the deadlines.
Fairness ==
  /\ \A r \in Calls : WF_vars(CallStep(r)) /\ WF_vars(StagerStep(r))
  /\ WF_vars(OwnerStep)
  /\ WF_vars(closed /\ ShutdownStep)

Spec == Init /\ [][Next]_vars /\ Fairness

----------------------------------------------------------------------------
(* Properties                                                              *)

\* Types, with at most one command in the channel of capacity 1 and no frame
\* beyond those a child wrote.
TypeOK ==
  /\ closed \in BOOLEAN /\ signal \in BOOLEAN /\ handle \in BOOLEAN /\ taken \in BOOLEAN
  /\ permit \in Calls \cup {None} /\ chan \subseteq Calls /\ Cardinality(chan) <= 1
  /\ pc \in [Calls -> {"new", "subscribe", "acquire", "check", "stage", "late", "spawn",
                       "locked", "send", "wait", "done"}]
  /\ result \in [Calls -> {"none", "ok", "err"}]
  /\ expired \in [Calls -> BOOLEAN] /\ canceled \in [Calls -> BOOLEAN]
  /\ response \in [Calls -> {"pending", "ok", "err", "dropped"}]
  /\ temp \in [Calls -> BOOLEAN]
  /\ stager \in [Calls -> {"none", "queued", "writing", "ready", "failed"}]
  /\ opc \in {"none", "top", "recv", "ensure", "hello", "ready", "write", "read", "kill",
              "reply", "release", "clear", "stop", "drop", "ended"}
  /\ current \in Calls \cup {None} /\ reply \in {"ok", "err"}
  /\ session \in 0..MaxChildren /\ sequence \in 1..(Cardinality(Calls) + 1)
  /\ spawned \in 0..MaxChildren /\ procs \subseteq 1..MaxChildren
  /\ work.call \in Calls \cup {None} /\ work.sequence \in Nat
  /\ stdout \in Seq(Frame) /\ Len(stdout) <= MaxFrames
  /\ written \subseteq Calls
  /\ down \in {"up", "signal", "take", "join", "returned"}

\* A temporary directory of call r exists.
HasDir(r) == temp[r] \/ stager[r] \in {"writing", "ready"}

\* The document of call r is in use: being staged for a caller that waits, on its
\* way to the child or with it, or in a bundle.
InUse(r) ==
  \/ pc[r] \in {"stage", "spawn", "locked", "send"} \/ r \in chan
  \/ current = r /\ opc \notin {"release", "clear"}
  \/ response[r] = "ok" /\ temp[r]

\* A directory on its way out: its call is over, and only the stager that was
\* left alone, the late call or the owner's iteration still has to drop it.
OnItsWayOut(r) ==
  \/ pc[r] = "done" /\ stager[r] = "writing"
  \/ pc[r] = "late"
  \/ current = r /\ opc \in {"release", "clear"}

\* One document at a time, from staging until the caller drops its bundle, and
\* it has the permit and, once staged, its directory.  Directories of other calls
\* may still exist (their permit is given back first), but only on their way out:
\* none of them is ever used again.
OneDocument ==
  \A r \in Calls :
    /\ InUse(r) => permit = r /\ (pc[r] # "stage" => temp[r])
    /\ HasDir(r) => InUse(r) \/ OnItsWayOut(r)
    /\ ~(InUse(r) /\ OnItsWayOut(r))

\* A caller gets a bundle only if the child wrote the bundle of that very
\* request: after a timeout, a cancel or a repeated answer no later request is
\* given an earlier one's result.
AnswerIsMine == \A r \in Calls : response[r] = "ok" => r \in written

\* The directory a child works in outlives its work: it is deleted only after
\* the child has answered or is killed, also when the caller has long gone.
DirOutlivesWork == work.call # None /\ session \in procs => temp[work.call]

\* A process is never left behind: the only one alive is the session's, and
\* none is once shutdown has returned, whatever calls are still on their way
\* to spawn_owner.
NoStrayChild ==
  /\ procs \subseteq {session}
  /\ down = "returned" => procs = {} /\ opc \in {"none", "ended"}

\* One document is in use, whatever directories are still being removed, and what
\* a call is given is its own: however calls time out, are dropped or keep their
\* bundle.
CallsSound == TypeOK /\ OneDocument /\ AnswerIsMine

\* No child outlives its directory, its session or the shutdown.
ChildrenSound == DirOutlivesWork /\ NoStrayChild

\* shutdown has returned, and every call in flight has ended, wherever it waited
\* and even if another caller keeps its bundle, and with it the permit, for ever.
ShutdownEnded == closed => down = "returned" /\ \A r \in Calls : pc[r] \in {"new", "done"}

\* The permit is out only with a bundle, and so are the directories that are left:
\* no stager, late call or failed request leaves one behind.
PermitReturned ==
  /\ permit = None \/ result[permit] = "ok"
  /\ \A r \in Calls : HasDir(r) => result[r] = "ok"
=============================================================================
