---------------------------- MODULE JobLifecycle ----------------------------
(***************************************************************************)
(* What the official HTTP service promises about a parse job, without      *)
(* saying how: docs/official-http.md, "Limits and lifecycle".  Jobs are    *)
(* accepted only while the service is open, run one at a time in the order *)
(* they were accepted, and end in one verdict that never changes; a job    *)
(* that was asked to stop, or that the shutdown reached, ends canceled.    *)
(***************************************************************************)
CONSTANT Jobs

VARIABLES
  state,  \* what a client sees of each job
  asked,  \* cancellation was requested
  before, \* pairs of waiting jobs: the first was accepted before the second
  open    \* the service still admits jobs

vars == <<state, asked, before, open>>

Pending == {"queued", "running"}
Verdicts == {"completed", "partial", "failed", "canceled"}
Waiting == {j \in Jobs : state[j] = "queued"}

\* Job j waits no longer.
Leave(j) == before' = {p \in before : j \notin {p[1], p[2]}}

Init ==
  /\ state = [j \in Jobs |-> "absent"]
  /\ asked = [j \in Jobs |-> FALSE]
  /\ before = {}
  /\ open = TRUE

\* POST answers 202.
Accept(j) ==
  /\ open /\ state[j] = "absent"
  /\ state' = [state EXCEPT ![j] = "queued"]
  /\ before' = before \cup (Waiting \X {j})
  /\ UNCHANGED <<asked, open>>

\* Jobs are processed sequentially, first come first served.
Start(j) ==
  /\ j \in Waiting /\ \A k \in Jobs : <<k, j>> \notin before
  /\ \A k \in Jobs : state[k] # "running"
  /\ state' = [state EXCEPT ![j] = "running"]
  /\ Leave(j)
  /\ \E late \in BOOLEAN : asked' = [asked EXCEPT ![j] = @ \/ (late /\ ~open)]
  /\ open' = open

\* DELETE answers 200: a queued job is canceled at once, a running one later.
Ask(j) ==
  /\ state[j] \in Pending
  /\ asked' = [asked EXCEPT ![j] = TRUE]
  /\ IF state[j] = "queued"
     THEN state' = [state EXCEPT ![j] = "canceled"] /\ Leave(j)
     ELSE UNCHANGED <<state, before>>
  /\ open' = open

\* A job asked to stop, or caught by the shutdown, ends canceled; no other does.
End(j) ==
  /\ state[j] = "running"
  /\ \E v \in Verdicts :
       /\ v = "canceled" <=> asked[j] \/ ~open
       /\ state' = [state EXCEPT ![j] = v]
  /\ UNCHANGED <<asked, before, open>>

\* Retention ends for one job, or shutdown forgets them all.
Forget(gone) ==
  /\ gone # {} /\ \A j \in gone : state[j] \in Verdicts
  /\ state' = [j \in Jobs |-> IF j \in gone THEN "gone" ELSE state[j]]
  /\ UNCHANGED <<asked, before, open>>

Close ==
  /\ open' = FALSE
  /\ UNCHANGED <<state, asked, before>>

\* Shutdown asks the jobs it can reach.
AskAll(some) ==
  /\ ~open /\ \A j \in some : state[j] \in Pending
  /\ asked' = [j \in Jobs |-> asked[j] \/ j \in some]
  /\ UNCHANGED <<state, before, open>>

Next ==
  \/ \E j \in Jobs : Accept(j) \/ Start(j) \/ Ask(j) \/ End(j)
  \/ \E some \in SUBSET Jobs : Forget(some) \/ AskAll(some)
  \/ Close

\* Every accepted job has its verdict.
Answered == \A j \in Jobs : state[j] \notin Pending

Safety == Init /\ [][Next]_vars
Spec == Safety /\ <>[]Answered
=============================================================================
