--------------------------- MODULE GlobalAskQueue ---------------------------
(***************************************************************************)
(* The durable Global Ask queue: backend/app/global_ask_queue.py and       *)
(* backend/app/global_ask_service.py over migrations 0165 and 0203.        *)
(*                                                                         *)
(* A row of global_ask_job is the truth; an entry of the Valkey stream is  *)
(* only a wake-up, which may be lost or repeated.  Every backend process   *)
(* runs one worker loop with its own stream cursor (there is no consumer   *)
(* group), so every wake-up reaches every live worker.  A worker claims a  *)
(* row, computes the answer under a deadline and settles the row.  A       *)
(* periodic sweep re-queues rows that stayed `running` for too long.       *)
(*                                                                         *)
(* Time is a discrete clock: each Tick adds one to every age and timer.    *)
(***************************************************************************)
EXTENDS Integers, FiniteSets

CONSTANTS
    Jobs,           \* primary keys of global_ask_job
    NoJob,          \* the job of an idle slot
    Processes,      \* backend processes, each hosting one worker loop
    Slots,          \* the permits of one worker's semaphore (_WORKER_CONCURRENCY)
    Entities,       \* corporate entities
    Units,          \* process units
    NoUnit,         \* a null process_unit_id
    ClaimSlack,     \* longest time from the claim to the start of the computation
    Deadline,       \* JOB_DEADLINE_SECONDS
    SettleSlack,    \* longest time from the end of the computation to the settling UPDATE
    OrphanAfter,    \* _ORPHAN_RUNNING_AFTER_SECONDS
    RepublishAfter, \* _REPUBLISH_AFTER_SECONDS
    MaxFaults,      \* bound on crashes, lost wake-ups and failed statements
    MaxDeadStarts,  \* bound on worker starts that find Valkey unreachable
    MaxRegrants     \* bound on changes of the account's grants

ASSUME NoJobAssumption == NoJob \notin Jobs
ASSUME NoUnitAssumption == NoUnit \notin Units
ASSUME TimeAssumption ==
    /\ ClaimSlack \in Nat
    /\ Deadline \in Nat
    /\ SettleSlack \in Nat
    /\ OrphanAfter \in Nat
    /\ RepublishAfter \in Nat
ASSUME BoundsAssumption ==
    /\ MaxFaults \in Nat
    /\ MaxDeadStarts \in Nat
    /\ MaxRegrants \in Nat

\* The comment at _ORPHAN_RUNNING_AFTER_SECONDS gives the work around the
\* computation one sweep interval of slack.  Nothing in the code enforces it,
\* so it is a hypothesis of the theorems and not an assumption of the module.
SlackFits == ClaimSlack + Deadline + SettleSlack =< OrphanAfter

VARIABLES
    job,          \* the rows of global_ask_job with their captured scope
    task,         \* task[p][s]: the job that slot s of process p is running
    worker,       \* state of each process's worker loop
    inbox,        \* wake-ups past the cursor of each process, as a set
    batch,        \* wake-ups read by XREAD and not yet dispatched
    affiliations, \* account_affiliation rows of the requesting account
    postRead,     \* does some role of the account grant post_read
    faults, deadStarts, regrants  \* how much of each bound is used

vars == <<job, task, worker, inbox, batch, affiliations, postRead,
          faults, deadStarts, regrants>>

-----------------------------------------------------------------------------
(* Authorization scope. *)

\* A private post, and likewise an affiliation, is an entity with a unit or none.
Places == Entities \X (Units \cup {NoUnit})

Scopes == [entities : SUBSET Entities, units : SUBSET Units, limited : BOOLEAN]
NoScope == [entities |-> {}, units |-> {}, limited |-> TRUE]

\* can_see: the private posts a scope admits (public ones are always visible).
Visible(scope) ==
    {post \in Places :
        post[1] \in scope.entities /\ (scope.limited => post[2] \in scope.units)}

\* The scopes get_current_account may give: the one affiliation that a bound
\* token names, or every affiliated entity with no unit restriction.
TokenScopes ==
    {[entities |-> {a[1]}, units |-> {a[2]}, limited |-> TRUE] :
        a \in {x \in affiliations : x[2] # NoUnit}}
    \cup {[entities |-> {a[1] : a \in affiliations}, units |-> {}, limited |-> FALSE]}

-----------------------------------------------------------------------------
(* Rows, tasks and wake-ups. *)

Statuses == {"absent", "queued", "running", "succeeded", "failed"}
Settled == {"succeeded", "failed"}

\* age counts from updated_at, created from created_at.  Both stop counting
\* one past the last value that a comparison of the code can tell apart.
JobRows == [status : Statuses, scope : Scopes, evidence : SUBSET Places,
            age : 0 .. OrphanAfter + 1, created : 0 .. RepublishAfter + 1]

Phases == {"idle", "claimed", "entities", "compute", "answered", "refused"}

PhaseLimit(phase) ==
    CASE phase = "compute" -> Deadline
      [] phase \in {"answered", "refused"} -> SettleSlack
      [] OTHER -> ClaimSlack

Tasks == [phase : Phases, job : Jobs \cup {NoJob}, timer : Nat, scope : Scopes]
IdleTask == [phase |-> "idle", job |-> NoJob, timer |-> 0, scope |-> NoScope]

Busy(p, s) == task[p][s].phase # "idle"

NoRow == [status |-> "absent", scope |-> NoScope, evidence |-> {}, age |-> 0, created |-> 0]

\* XADD: the entry is visible to every worker whose cursor is established.
Wake(woken) ==
    inbox' = [p \in Processes |->
                IF worker[p] = "alive" THEN inbox[p] \cup woken ELSE inbox[p]]

\* Slot s of process p now holds task t.
Put(p, s, t) == task' = [task EXCEPT ![p][s] = t]

Fault == faults < MaxFaults /\ faults' = faults + 1

Init ==
    /\ job = [j \in Jobs |-> NoRow]
    /\ task = [p \in Processes |-> [s \in Slots |-> IdleTask]]
    /\ worker = [p \in Processes |-> "down"]
    /\ inbox = [p \in Processes |-> {}]
    /\ batch = [p \in Processes |-> {}]
    /\ affiliations \in SUBSET Places
    /\ postRead \in BOOLEAN
    /\ faults = 0 /\ deadStarts = 0 /\ regrants = 0

-----------------------------------------------------------------------------
(* The request side. *)

\* submit_global_ask and enqueue_global_ask_job: one transaction inserts the
\* row and its captured scope; the wake-up follows the commit and its loss is
\* swallowed (a crash between the two loses it as well).
Submit(j) ==
    /\ job[j].status = "absent"
    /\ postRead
    /\ \E scope \in TokenScopes :
         job' = [job EXCEPT ![j] = [NoRow EXCEPT !.status = "queued", !.scope = scope]]
    /\ \/ Wake({j}) /\ UNCHANGED faults
       \/ Fault /\ UNCHANGED inbox
    /\ UNCHANGED <<task, worker, batch, affiliations, postRead, deadStarts, regrants>>

\* An administrator changes the grants of the requesting account.
Regrant ==
    /\ regrants < MaxRegrants
    /\ regrants' = regrants + 1
    /\ \/ affiliations' \in SUBSET Places /\ UNCHANGED postRead
       \/ postRead' = ~postRead /\ UNCHANGED affiliations
    /\ UNCHANGED <<job, task, worker, inbox, batch, faults, deadStarts>>

-----------------------------------------------------------------------------
(* The worker loop of process p: sweep, read a batch, dispatch it. *)

\* Bug: the orphan window is the deadline itself, with no slack past it.
OrphansAtDeadline == {j \in Jobs : job[j].status = "running" /\ job[j].age > Deadline}

\* Bug: no row is ever recovered from a dead worker.
NoOrphans == {}

\* Bug: the UPDATE forgets its status filter.
OldRows == {j \in Jobs : job[j].status # "absent" /\ job[j].age > OrphanAfter}

\* The rows the sweep's UPDATE takes back.
Orphans == {j \in Jobs : job[j].status = "running" /\ job[j].age > OrphanAfter}

\* The rows after that UPDATE.
Requeued ==
    [j \in Jobs |-> IF j \in Orphans THEN [job[j] EXCEPT !.status = "queued", !.age = 0]
                                     ELSE job[j]]

\* The rows the sweep's SELECT returns after its UPDATE.
LostQueued ==
    {j \in Jobs : Requeued[j].status = "queued" /\ job[j].created > RepublishAfter}

\* republish_queued_global_ask_jobs.  The loop reaches it only between batches.
\* A failing XADD abandons the rows after it.
Sweep(p) ==
    /\ worker[p] = "alive"
    /\ batch[p] = {}
    /\ job' = Requeued
    /\ \/ Wake(LostQueued) /\ UNCHANGED faults
       \/ Fault /\ \E woken \in SUBSET LostQueued : Wake(woken)
    /\ UNCHANGED <<task, worker, batch, affiliations, postRead, deadStarts, regrants>>

\* XREAD: take the entries after the cursor and move the cursor past them.
Read(p) ==
    /\ worker[p] = "alive"
    /\ batch[p] = {}
    /\ inbox[p] # {}
    /\ batch' = [batch EXCEPT ![p] = inbox[p]]
    /\ inbox' = [inbox EXCEPT ![p] = {}]
    /\ UNCHANGED <<job, task, worker, affiliations, postRead, faults, deadStarts, regrants>>

\* Bug: the claiming UPDATE also takes rows that are already running.
NotSettled == {"queued", "running"}

\* The statuses the claiming UPDATE accepts.
Claimable == {"queued"}

\* limiter.acquire, create_task and the claiming UPDATE.  A wake-up for a row
\* that is not queued releases the slot at once.
Dispatch(p, s, j) ==
    /\ j \in batch[p]
    /\ task[p][s].phase = "idle"
    /\ batch' = [batch EXCEPT ![p] = @ \ {j}]
    /\ IF job[j].status \in Claimable
       THEN /\ job' = [job EXCEPT ![j] = [@ EXCEPT !.status = "running", !.age = 0]]
            /\ Put(p, s, [IdleTask EXCEPT !.phase = "claimed", !.job = j])
       ELSE UNCHANGED <<job, task>>
    /\ UNCHANGED <<worker, inbox, affiliations, postRead, faults, deadStarts, regrants>>

\* The claiming UPDATE raises: the task ends, and its wake-up is lost.
ClaimFails(p, s, j) ==
    /\ j \in batch[p]
    /\ task[p][s].phase = "idle"
    /\ Fault
    /\ batch' = [batch EXCEPT ![p] = @ \ {j}]
    /\ UNCHANGED <<job, task, worker, inbox, affiliations, postRead, deadStarts, regrants>>

-----------------------------------------------------------------------------
(* One dispatched job: process_global_ask_job in slot s of process p. *)

\* Move the task to another phase and restart its timer.
Enter(p, s, phase) == Put(p, s, [task[p][s] EXCEPT !.phase = phase, !.timer = 0])

\* Bug: the delayed job uses whatever its owner is affiliated with by now.
CurrentEntities(captured) == {a[1] : a \in affiliations}

\* Captured entities the account is still affiliated with.
NarrowedEntities(captured) == captured.entities \cap {a[1] : a \in affiliations}

\* Captured units the account is still affiliated with.
NarrowedUnits(captured) == captured.units \cap {a[2] : a \in affiliations}

\* Bug: the restriction to units is dropped once none of them is left.
LimitedByRemainingUnits(captured) == NarrowedUnits(captured) # {}

\* process_scope_limited: did the captured scope name any unit?
LimitedByCapturedUnits(captured) == captured.units # {}

\* load_job_visibility, first statement.
LoadEntities(p, s) ==
    /\ task[p][s].phase = "claimed"
    /\ LET t == task[p][s]
           captured == job[t.job].scope
       IN Put(p, s, [t EXCEPT !.phase = "entities",
                              !.scope = [@ EXCEPT !.entities = NarrowedEntities(captured)]])
    /\ UNCHANGED <<job, worker, inbox, batch, affiliations, postRead, faults, deadStarts, regrants>>

\* Its other statements, and the check of the permission that follows: without
\* it the job is refused.
LoadUnits(p, s) ==
    /\ task[p][s].phase = "entities"
    /\ LET t == task[p][s]
           captured == job[t.job].scope
       IN Put(p, s, [t EXCEPT !.phase = IF postRead THEN "compute" ELSE "refused",
                              !.timer = 0,
                              !.scope = [@ EXCEPT
                                  !.units = NarrowedUnits(captured),
                                  !.limited = LimitedByCapturedUnits(captured)]])
    /\ UNCHANGED <<job, worker, inbox, batch, affiliations, postRead, faults, deadStarts, regrants>>

\* Any exception before the end of the computation, the provider's included.
Fails(p, s) ==
    /\ task[p][s].phase \in {"claimed", "entities", "compute"}
    /\ Enter(p, s, "refused")
    /\ UNCHANGED <<job, worker, inbox, batch, affiliations, postRead, faults, deadStarts, regrants>>

\* compute_global_ask_answer returns a payload.
Answers(p, s) ==
    /\ task[p][s].phase = "compute"
    /\ Enter(p, s, "answered")
    /\ UNCHANGED <<job, worker, inbox, batch, affiliations, postRead, faults, deadStarts, regrants>>

\* asyncio.wait_for gives up on the computation.
DeadlineFires(p, s) ==
    /\ task[p][s].phase = "compute"
    /\ task[p][s].timer >= Deadline
    /\ Enter(p, s, "refused")
    /\ UNCHANGED <<job, worker, inbox, batch, affiliations, postRead, faults, deadStarts, regrants>>

\* Bug: the settling UPDATE writes a status code the table does not know.
SettledRowCancelled(t) == [job[t.job] EXCEPT !.status = "cancelled", !.age = 0]

\* The settling UPDATE.  It names the row by its key only: neither the status
\* nor the claim is compared.
SettledRow(t) ==
    IF t.phase = "answered"
    THEN [job[t.job] EXCEPT !.status = "succeeded", !.evidence = Visible(t.scope), !.age = 0]
    ELSE [job[t.job] EXCEPT !.status = "failed", !.age = 0]

\* A settling UPDATE that raises ends the task and leaves the row running;
\* _process_and_release frees the slot either way.
Settle(p, s) ==
    /\ task[p][s].phase \in {"answered", "refused"}
    /\ \/ job' = [job EXCEPT ![task[p][s].job] = SettledRow(task[p][s])] /\ UNCHANGED faults
       \/ Fault /\ UNCHANGED job
    /\ Put(p, s, IdleTask)
    /\ UNCHANGED <<worker, inbox, batch, affiliations, postRead, deadStarts, regrants>>

-----------------------------------------------------------------------------
(* The environment. *)

\* A process dies or shuts down.  Its tasks vanish, their rows stay running.
Crash(p) ==
    /\ worker[p] # "down"
    /\ Fault
    /\ worker' = [worker EXCEPT ![p] = "down"]
    /\ task' = [task EXCEPT ![p] = [s \in Slots |-> IdleTask]]
    /\ inbox' = [inbox EXCEPT ![p] = {}]
    /\ batch' = [batch EXCEPT ![p] = {}]
    /\ UNCHANGED <<job, affiliations, postRead, deadStarts, regrants>>

\* lifespan starts the worker: _stream_tail puts the cursor at the last entry.
Start(p) ==
    /\ worker[p] = "down"
    /\ worker' = [worker EXCEPT ![p] = "alive"]
    /\ UNCHANGED <<job, task, inbox, batch, affiliations, postRead, faults, deadStarts, regrants>>

\* _stream_tail raises before the loop that retries: the task ends and the
\* process keeps serving requests without a worker.
StartsDead(p) ==
    /\ worker[p] = "down"
    /\ deadStarts < MaxDeadStarts
    /\ deadStarts' = deadStarts + 1
    /\ worker' = [worker EXCEPT ![p] = "dead"]
    /\ UNCHANGED <<job, task, inbox, batch, affiliations, postRead, faults, regrants>>

\* The stream is capped: entries ahead of a slow cursor are trimmed.
Trim(p, j) ==
    /\ j \in inbox[p]
    /\ Fault
    /\ inbox' = [inbox EXCEPT ![p] = @ \ {j}]
    /\ UNCHANGED <<job, task, worker, batch, affiliations, postRead, deadStarts, regrants>>

\* One unit of time.  The bounds on a live task's phases are urgent: time does
\* not pass a phase's limit.
Tick ==
    /\ \A p \in Processes, s \in Slots :
          Busy(p, s) => task[p][s].timer < PhaseLimit(task[p][s].phase)
    /\ job' = [j \in Jobs |->
                 IF job[j].status = "absent" THEN job[j]
                 ELSE [job[j] EXCEPT
                         !.age = IF @ > OrphanAfter THEN @ ELSE @ + 1,
                         !.created = IF @ > RepublishAfter THEN @ ELSE @ + 1]]
    /\ task' = [p \in Processes |-> [s \in Slots |->
                  IF Busy(p, s) THEN [task[p][s] EXCEPT !.timer = @ + 1] ELSE task[p][s]]]
    /\ UNCHANGED <<worker, inbox, batch, affiliations, postRead, faults, deadStarts, regrants>>

-----------------------------------------------------------------------------

TaskStep(p, s) ==
    \/ LoadEntities(p, s) \/ LoadUnits(p, s) \/ Fails(p, s)
    \/ Answers(p, s) \/ DeadlineFires(p, s) \/ Settle(p, s)

LoopStep(p) ==
    \/ Sweep(p) \/ Read(p)
    \/ \E s \in Slots, j \in Jobs : Dispatch(p, s, j) \/ ClaimFails(p, s, j)

Next ==
    \/ \E j \in Jobs : Submit(j)
    \/ Regrant
    \/ \E p \in Processes : LoopStep(p) \/ Crash(p) \/ Start(p) \/ StartsDead(p)
    \/ \E p \in Processes, s \in Slots : TaskStep(p, s)
    \/ \E p \in Processes, j \in Jobs : Trim(p, j)
    \/ Tick

Spec == Init /\ [][Next]_vars

\* Time passes, the event loop runs every ready coroutine, a database or a
\* stream that answers is eventually asked again, and a stopped process is
\* restarted.  The provider is not assumed to return: Answers and Fails are
\* left unfair and only the deadline ends a computation.
Fairness ==
    /\ WF_vars(Tick)
    /\ \A p \in Processes :
         /\ WF_vars(Sweep(p)) /\ WF_vars(Read(p)) /\ WF_vars(Start(p))
         /\ \A j \in Jobs : WF_vars(\E s \in Slots : Dispatch(p, s, j))
         /\ \A s \in Slots :
              /\ WF_vars(LoadEntities(p, s)) /\ WF_vars(LoadUnits(p, s))
              /\ WF_vars(DeadlineFires(p, s)) /\ WF_vars(Settle(p, s))

FairSpec == Spec /\ Fairness

-----------------------------------------------------------------------------
(* Properties. *)

\* Every variable has its type.
TypeOK ==
    /\ job \in [Jobs -> JobRows]
    /\ task \in [Processes -> [Slots -> Tasks]]
    /\ \A p \in Processes, s \in Slots : Busy(p, s) => task[p][s].job \in Jobs
    /\ worker \in [Processes -> {"down", "dead", "alive"}]
    /\ inbox \in [Processes -> SUBSET Jobs]
    /\ batch \in [Processes -> SUBSET Jobs]
    /\ affiliations \subseteq Places
    /\ postRead \in BOOLEAN
    /\ faults \in 0 .. MaxFaults
    /\ deadStarts \in 0 .. MaxDeadStarts
    /\ regrants \in 0 .. MaxRegrants

\* "The per-job deadline guarantees a live worker settles sooner": as long as a
\* task is alive its row is still running, so the orphan sweep of no process
\* has taken it and nobody else has settled it.
LiveWorkerKeepsRow ==
    \A p \in Processes, s \in Slots :
        Busy(p, s) => job[task[p][s].job].status = "running"

\* The claim makes duplicate wake-ups no-ops: over all processes and slots at
\* most one task works on a job at any time.
OneTaskPerJob ==
    \A p, q \in Processes : \A s, r \in Slots :
        Busy(p, s) /\ Busy(q, r) /\ task[p][s].job = task[q][r].job => <<p, s>> = <<q, r>>

\* A revocation can narrow a delayed job and no later affiliation can widen it:
\* what a task may see, and what an answer rests on, lies within the scope
\* captured when the job was submitted, whatever grants came and went.
ScopeOnlyNarrows ==
    /\ \A p \in Processes, s \in Slots :
         task[p][s].phase \in {"compute", "answered"} =>
            Visible(task[p][s].scope) \subseteq Visible(job[task[p][s].job].scope)
    /\ \A j \in Jobs : job[j].evidence \subseteq Visible(job[j].scope)

\* Strengthening of the two claim invariants.  Elapsed is the most that can
\* have passed since the claim; Timely ties the clock of a live task to the age
\* of its row, which is what keeps the row out of the sweep's reach.
Elapsed(t) ==
    t.timer + CASE t.phase = "compute" -> ClaimSlack
                [] t.phase \in {"answered", "refused"} -> ClaimSlack + Deadline
                [] OTHER -> 0

Timely ==
    \A p \in Processes, s \in Slots :
        Busy(p, s) => /\ task[p][s].timer =< PhaseLimit(task[p][s].phase)
                      /\ job[task[p][s].job].age =< Elapsed(task[p][s])

ClaimInv == LiveWorkerKeepsRow /\ OneTaskPerJob /\ Timely

\* Strengthening of ScopeOnlyNarrows: how each part of a task's scope relates to
\* the captured one while the task loads it.
ScopeInv ==
    /\ \A j \in Jobs : job[j].status # "absent" =>
         (job[j].scope.limited => job[j].scope.units # {})
    /\ \A p \in Processes, s \in Slots : Busy(p, s) =>
         LET t == task[p][s]
             captured == job[t.job].scope
         IN /\ job[t.job].status # "absent"
            /\ t.phase \in {"entities", "compute", "answered"} =>
                 t.scope.entities \subseteq captured.entities
            /\ t.phase \in {"compute", "answered"} =>
                 /\ t.scope.units \subseteq captured.units
                 /\ t.scope.limited = (captured.units # {})
    /\ \A j \in Jobs : job[j].evidence \subseteq Visible(job[j].scope)

\* What a reader who polls the job sees: a settled response never changes.
\* (The settling UPDATE is guarded by nothing but the exclusion above.)
SettledIsFinal ==
    [][\A j \in Jobs : job[j].status \in Settled =>
          /\ job'[j].status = job[j].status
          /\ job'[j].evidence = job[j].evidence]_vars

\* The outcome of a row as its reader sees it.
Outcome(row) ==
    CASE row.status = "absent" -> "none"
      [] row.status \in {"queued", "running"} -> "pending"
      [] row.status = "succeeded" -> "answered"
      [] row.status = "failed" -> "failed"

Promise == INSTANCE DurableAnswer WITH
    outcome <- [j \in Jobs |-> Outcome(job[j])],
    scope <- [j \in Jobs |-> job[j].scope],
    evidence <- [j \in Jobs |-> job[j].evidence]

\* The queue implements the promise to the reader: whatever happens between the
\* workers, the rows and the stream, each job is submitted once, keeps the scope
\* it was submitted with and gets at most one outcome, built within that scope.
ImplementsPromise == Promise!Spec

\* At-least-once delivery: a submitted job is eventually settled, in spite of
\* lost wake-ups, crashes, failed statements and a provider that never returns.
JobEventuallySettles ==
    \A j \in Jobs : job[j].status \in {"queued", "running"} ~> job[j].status \in Settled
=============================================================================
