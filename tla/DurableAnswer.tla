---------------------------- MODULE DurableAnswer ----------------------------
(***************************************************************************)
(* What the Global Ask queue promises to the reader who polls a job: a job *)
(* is submitted once under a scope that never changes afterwards, and gets *)
(* at most one outcome, either a failure or an answer built only from      *)
(* posts that scope admits.  Claims, wake-ups, crashes and re-queues do    *)
(* not exist at this level.                                                *)
(***************************************************************************)
CONSTANTS
    Jobs,           \* identities of the jobs
    Scopes,         \* the scopes a request may carry
    Places,         \* the kinds of private posts
    Visible(_),     \* the private posts a scope admits
    NoScope         \* the scope of a job that does not exist yet

VARIABLES
    outcome,        \* "none", "pending", "answered" or "failed", for each job
    scope,          \* the scope the job was submitted with
    evidence        \* the private posts its answer may rest on

vars == <<outcome, scope, evidence>>

Init ==
    /\ outcome = [j \in Jobs |-> "none"]
    /\ scope = [j \in Jobs |-> NoScope]
    /\ evidence = [j \in Jobs |-> {}]

\* POST /api/ask or the submit_global_ask tool.
Submit(j, s) ==
    /\ outcome[j] = "none"
    /\ outcome' = [outcome EXCEPT ![j] = "pending"]
    /\ scope' = [scope EXCEPT ![j] = s]
    /\ UNCHANGED evidence

\* The job is answered from part of what its scope admits.
Answer(j, posts) ==
    /\ outcome[j] = "pending"
    /\ posts \subseteq Visible(scope[j])
    /\ outcome' = [outcome EXCEPT ![j] = "answered"]
    /\ evidence' = [evidence EXCEPT ![j] = posts]
    /\ UNCHANGED scope

\* The job is refused or its computation failed.
Refuse(j) ==
    /\ outcome[j] = "pending"
    /\ outcome' = [outcome EXCEPT ![j] = "failed"]
    /\ UNCHANGED <<scope, evidence>>

Next ==
    \E j \in Jobs :
        \/ \E s \in Scopes : Submit(j, s)
        \/ \E posts \in SUBSET Places : Answer(j, posts)
        \/ Refuse(j)

Spec == Init /\ [][Next]_vars
=============================================================================
