-------------------------- MODULE PostContentQueue --------------------------
(***************************************************************************)
(* Post-content ingestion: backend/app/post_content_queue.py (the ledger), *)
(* backend/app/post_content_worker.py (the consumer), the content endpoint *)
(* of main.py and the operator scripts that write the same rows.           *)
(*                                                                         *)
(* One row per post holds the digest of the body it is for, a status and   *)
(* the number of claims.  A worker claims the row for a lease of fifteen   *)
(* minutes and persists the derived evidence in three transactions before  *)
(* it finishes the row; a lease that expires is claimed again although its *)
(* old holder may be alive.  Requests, scripts and imports read a body in  *)
(* one transaction and act on it in another.                               *)
(*                                                                         *)
(* SHA-256 is collision-free here: the digest of a body is the body.  The  *)
(* orchestrator is configured (require_embedding, require_structure).      *)
(***************************************************************************)
EXTENDS Integers, FiniteSets

CONSTANTS
    Posts,          \* primary keys of source_post
    Processes,      \* backend processes, each hosting one consumer
    Clients,        \* content requests and operator scripts in flight
    Bodies,         \* the source bodies a post may get
    Blank,          \* a source body without text
    None,           \* no body, digest or post
    MaxAttempts,    \* POST_CONTENT_MAX_ATTEMPTS
    ClientKinds,    \* which of "read", "requeue", "backfill", "import" happen
    MaxBudgets,     \* bound on the resets of attempt_count
    MaxClaims,      \* bound on attempt_count where the code has none
    MaxEdits,       \* bound on the changes of a body
    MaxMisses,      \* bound on failed or incomplete provider answers
    MaxFaults,      \* bound on crashes, lost wake-ups and failed statements
    MaxDeaths       \* bound on the consumers that end while their process runs

ASSUME NoneAssumption == None \notin Bodies \cup Posts
ASSUME LimitAssumption ==
    /\ MaxAttempts \in Nat \ {0}
    /\ MaxBudgets \in Nat
    /\ MaxClaims \in Nat
    /\ MaxEdits \in Nat
    /\ MaxMisses \in Nat
    /\ MaxFaults \in Nat
    /\ MaxDeaths \in Nat

VARIABLES
    body,       \* source_post.post_body
    job,        \* the rows of post_content_ingestion_job
    evidence,   \* what is persisted for each post, and for which body
    worker,     \* state of each process's consumer and of the job in its hands
    inbox,      \* wake-ups past the cursor of each process, as a set
    batch,      \* those handled already of the batch the process is reading
    client,     \* what each request or script has read and is about to do
    edits, misses, faults, deaths   \* how much of each bound is used

vars == <<body, job, evidence, worker, inbox, batch, client, edits, misses, faults, deaths>>

-----------------------------------------------------------------------------

Statuses == {"absent", "queued", "running", "succeeded", "failed"}
Active == {"queued", "running"}

\* due: the retry interval since queued_at is over.  stale: the lease since
\* started_at is over (each only in the status that it is compared in).  budget is a
\* history variable: it counts the resets of attempt_count, which the row itself
\* does not remember.
Rows == [status : Statuses, digest : Bodies \cup {None}, attempts : Nat,
         due : BOOLEAN, stale : BOOLEAN, budget : Nat]
NoRow == [status |-> "absent", digest |-> None, attempts |-> 0,
          due |-> FALSE, stale |-> FALSE, budget |-> 0]

\* units: the body whose semantic units are stored; complete: the predicate
\* post_content_is_complete; cases and constructs: the digests of the analyses.
Evidence == [units : Bodies \cup {None}, complete : BOOLEAN,
             cases : Bodies \cup {None}, constructs : Bodies \cup {None}]
NoEvidence == [units |-> None, complete |-> FALSE, cases |-> None, constructs |-> None]

Working == {"content", "cases", "constructs", "check", "succeed", "retry", "blank"}

\* The job in a consumer's hands; budget is the row's at the claim (history).
Consumers == [pc : {"down", "dead", "idle"} \cup Working, post : Posts \cup {None},
              digest : Bodies \cup {None}, body : Bodies \cup {None},
              attempt : Nat, budget : Nat]
Consumer(pc) == [pc |-> pc, post |-> None, digest |-> None, body |-> None,
                 attempt |-> 0, budget |-> 0]

Requests == [pc : {"idle", "act", "record", "publish"}, kind : ClientKinds \cup {None},
             post : Posts \cup {None}, body : Bodies \cup {None}, complete : BOOLEAN]
NoRequest == [pc |-> "idle", kind |-> None, post |-> None, body |-> None, complete |-> FALSE]

Works(p) == worker[p].pc \in Working
Alive(p) == worker[p].pc \in Working \cup {"idle"}

\* XADD: the entries reach every consumer whose cursor is established.
Wake(woken) ==
    inbox' = [p \in Processes |-> IF Alive(p) THEN inbox[p] \cup woken ELSE inbox[p]]

Fault == faults < MaxFaults /\ faults' = faults + 1
Miss == misses < MaxMisses /\ misses' = misses + 1
Death == deaths < MaxDeaths /\ deaths' = deaths + 1

Init ==
    /\ body \in [Posts -> Bodies \ {Blank}]
    /\ job = [x \in Posts |-> NoRow]
    /\ evidence = [x \in Posts |-> NoEvidence]
    /\ worker = [p \in Processes |-> Consumer("down")]
    /\ inbox = [p \in Processes |-> {}]
    /\ batch = [p \in Processes |-> {}]
    /\ client = [c \in Clients |-> NoRequest]
    /\ edits = 0 /\ misses = 0 /\ faults = 0 /\ deaths = 0

-----------------------------------------------------------------------------
(* The ledger. *)

\* A reset of attempt_count opens a new budget.
Reset(row, digest) ==
    [row EXCEPT !.status = "queued", !.digest = digest, !.attempts = 0, !.due = FALSE,
                !.stale = FALSE, !.budget = @ + 1]

\* What transition_post_content_job writes when it is let through.
Transition(row, status) == [row EXCEPT !.status = status, !.due = FALSE, !.stale = FALSE]

\* Bug: the ledger is not compared with the body it is asked for.
NeedsRequeueByCompleteness(row, digest, complete) == row.status = "succeeded" /\ ~complete

\* needs_requeue of ensure_post_content_job.
NeedsRequeue(row, digest, complete) ==
    row.digest # digest \/ (row.status = "succeeded" /\ ~complete)

\* ensure_post_content_job: the row after it.
Ensured(row, digest, complete) ==
    CASE row.status = "absent" ->
            [NoRow EXCEPT !.status = IF complete THEN "succeeded" ELSE "queued",
                          !.digest = digest]
      [] row.status # "absent" /\ NeedsRequeue(row, digest, complete) -> Reset(row, digest)
      [] OTHER -> row

\* Bug: only the rows that were never claimed are found again.
FreshRows ==
    {x \in Posts : job[x].status = "queued" /\ job[x].attempts = 0}

\* The rows whose wake-ups republish_queued_post_content_jobs repeats.
Recoverable ==
    {x \in Posts :
        \/ job[x].status = "queued" /\ (job[x].attempts = 0 \/ job[x].due)
        \/ job[x].status = "running" /\ job[x].stale}

\* A succeeded row that a worker may leave alone.
Satisfied(x) ==
    /\ evidence[x].complete
    /\ evidence[x].cases = job[x].digest
    /\ evidence[x].constructs = job[x].digest

\* The attempt limit was reached by a row that is still active.  The lease is
\* not looked at.
Exhausted(x) == job[x].status \in Active /\ job[x].attempts >= MaxAttempts

\* Bug: the early return for failed rows is gone.
ClaimableOnceFailed(x) ==
    /\ ~Exhausted(x)
    /\ job[x].status = "queued" /\ job[x].attempts > 0 => job[x].due
    /\ job[x].status = "succeeded" => ~Satisfied(x)
    /\ job[x].status = "running" => job[x].stale

\* The row passes the early returns of _claim_job.
Claimable(x) ==
    /\ job[x].status # "failed"
    /\ ~Exhausted(x)
    /\ job[x].status = "queued" /\ job[x].attempts > 0 => job[x].due
    /\ job[x].status = "succeeded" => ~Satisfied(x)
    /\ job[x].status = "running" => job[x].stale

\* Bug: taking over a stale lease does not count as an attempt.
AttemptAfterQueueing(row) == IF row.status = "running" THEN row.attempts ELSE row.attempts + 1

\* attempt_count + 1
NextAttempt(row) == row.attempts + 1

-----------------------------------------------------------------------------
(* The consumer loop of process p. *)

\* republish_queued_post_content_jobs, between two batches.
Republish(p) ==
    /\ worker[p].pc = "idle"
    /\ LET woken(X) == {<<x, job[x].digest>> : x \in X}
       IN \/ Wake(woken(Recoverable)) /\ UNCHANGED faults
          \/ Fault /\ \E X \in SUBSET Recoverable : Wake(woken(X))
    /\ batch' = [batch EXCEPT ![p] = {}]
    /\ UNCHANGED <<body, job, evidence, worker, client, edits, misses, deaths>>

\* Consumer p takes the wake-up for digest d of post x, the first of a batch or
\* one more; the cursor moves when the whole batch is done.
Takes(p, x, d) ==
    /\ worker[p].pc = "idle"
    /\ <<x, d>> \in inbox[p]
    /\ inbox' = [inbox EXCEPT ![p] = @ \ {<<x, d>>}]
    /\ \E handled \in {{}, batch[p]} : batch' = [batch EXCEPT ![p] = handled \cup {<<x, d>>}]

\* _claim_job succeeds: the row and its post are locked, so the body that the
\* worker will use is the one of this moment, whatever the digest says.
Claim(p, x, d) ==
    /\ Takes(p, x, d)
    /\ job[x].digest = d
    /\ Claimable(x)
    /\ NextAttempt(job[x]) =< MaxClaims
    /\ job' = [job EXCEPT ![x] = Transition([@ EXCEPT !.attempts = NextAttempt(job[x])], "running")]
    /\ worker' = [worker EXCEPT ![p] =
                    [pc |-> IF body[x] = Blank THEN "blank" ELSE "content",
                     post |-> x, digest |-> d, body |-> body[x],
                     attempt |-> NextAttempt(job[x]), budget |-> job[x].budget]]
    /\ UNCHANGED <<body, evidence, client, edits, misses, faults, deaths>>

\* _claim_job fails an active row whose attempts are used up.
RefuseExhausted(p, x, d) ==
    /\ Takes(p, x, d)
    /\ job[x].digest = d
    /\ Exhausted(x)
    /\ job' = [job EXCEPT ![x] = Transition(@, "failed")]
    /\ UNCHANGED <<body, evidence, worker, client, edits, misses, faults, deaths>>

\* The digest is superseded, or the row is not to be worked on now.
IgnoreWakeup(p, x, d) ==
    /\ Takes(p, x, d)
    /\ job[x].digest = d => ~Exhausted(x) /\ (~Claimable(x) \/ NextAttempt(job[x]) > MaxClaims)
    /\ UNCHANGED <<body, job, evidence, worker, client, edits, misses, faults, deaths>>

-----------------------------------------------------------------------------
(* The job in the hands of process p: process_post_content_job. *)

Goto(p, pc) == worker' = [worker EXCEPT ![p].pc = pc]

\* persist_post_content replaces the units of the post.  A provider that is
\* unavailable for some of them leaves the evidence incomplete.
PersistContent(p) ==
    /\ worker[p].pc = "content"
    /\ \E complete \in BOOLEAN :
         /\ evidence' = [evidence EXCEPT ![worker[p].post] =
                            [@ EXCEPT !.units = worker[p].body, !.complete = complete]]
         /\ IF complete THEN UNCHANGED misses ELSE Miss
    /\ Goto(p, "cases")
    /\ UNCHANGED <<body, job, inbox, client, edits, faults, deaths, batch>>

\* persist_operations_cases, under the digest of the body that was claimed.
PersistCases(p) ==
    /\ worker[p].pc = "cases"
    /\ evidence' = [evidence EXCEPT ![worker[p].post] = [@ EXCEPT !.cases = worker[p].body]]
    /\ Goto(p, "constructs")
    /\ UNCHANGED <<body, job, inbox, client, edits, misses, faults, deaths, batch>>

\* persist_occupational_construct_assertions, under the digest of the wake-up.
PersistConstructs(p) ==
    /\ worker[p].pc = "constructs"
    /\ evidence' = [evidence EXCEPT ![worker[p].post] = [@ EXCEPT !.constructs = worker[p].digest]]
    /\ Goto(p, "check")
    /\ UNCHANGED <<body, job, inbox, client, edits, misses, faults, deaths, batch>>

\* post_content_is_complete over whatever is stored by now.
CheckComplete(p) ==
    /\ worker[p].pc = "check"
    /\ Goto(p, IF evidence[worker[p].post].complete THEN "succeed" ELSE "retry")
    /\ UNCHANGED <<body, job, evidence, inbox, client, edits, misses, faults, deaths, batch>>

\* A provider, a statement or a check of the answer raises.
AttemptFails(p) ==
    /\ worker[p].pc \in {"content", "cases", "constructs", "check"}
    /\ Miss
    /\ Goto(p, "retry")
    /\ UNCHANGED <<body, job, evidence, inbox, client, edits, faults, deaths, batch>>

\* Bug: the fence is not passed down.
LetsThrough(p) == TRUE

\* transition_post_content_job as _finish_job calls it is fenced by the number of
\* the attempt and by nothing else.
Accepts(p) == job[worker[p].post].attempts = worker[p].attempt

Finish(p, status) ==
    /\ job' = IF Accepts(p)
              THEN [job EXCEPT ![worker[p].post] = Transition(@, status)]
              ELSE job
    /\ worker' = [worker EXCEPT ![p] = Consumer("idle")]
    /\ UNCHANGED <<body, evidence, inbox, client, edits, misses, faults, deaths, batch>>

FinishSucceeded(p) == worker[p].pc = "succeed" /\ Finish(p, "succeeded")
FinishBlank(p) == worker[p].pc = "blank" /\ Finish(p, "failed")

\* Bug: a status that the ledger does not know.
RetryStatus(attempt) == IF attempt >= MaxAttempts THEN "failed" ELSE "retry"

\* Bug: the last attempt is given up too early.
FailsEarly(attempt) == IF attempt + 1 >= MaxAttempts THEN "failed" ELSE "queued"

\* One more retry, or the terminal failure.
AfterFailure(attempt) == IF attempt >= MaxAttempts THEN "failed" ELSE "queued"

\* _finish_failed_job: fenced by the status as well.
FinishFailed(p) ==
    /\ worker[p].pc = "retry"
    /\ LET x == worker[p].post
       IN job' = IF job[x].status = "running" /\ job[x].attempts = worker[p].attempt
                 THEN [job EXCEPT ![x] = Transition(@, AfterFailure(worker[p].attempt))]
                 ELSE job
    /\ worker' = [worker EXCEPT ![p] = Consumer("idle")]
    /\ UNCHANGED <<body, evidence, inbox, client, edits, misses, faults, deaths, batch>>

\* The finishing transaction raises.  run_post_content_worker catches OSError,
\* and reads the batch again from the old cursor; anything else ends the task.
FinishRaises(p) ==
    /\ worker[p].pc \in {"succeed", "retry", "blank"}
    /\ \/ /\ Fault /\ UNCHANGED deaths
          /\ worker' = [worker EXCEPT ![p] = Consumer("idle")]
          /\ inbox' = [inbox EXCEPT ![p] = @ \cup batch[p]] /\ batch' = [batch EXCEPT ![p] = {}]
       \/ /\ Death /\ UNCHANGED faults
          /\ worker' = [worker EXCEPT ![p] = Consumer("dead")]
          /\ inbox' = [inbox EXCEPT ![p] = {}] /\ batch' = [batch EXCEPT ![p] = {}]
    /\ UNCHANGED <<body, job, evidence, client, edits, misses>>

WorkStep(p) ==
    \/ PersistContent(p) \/ PersistCases(p) \/ PersistConstructs(p)
    \/ CheckComplete(p) \/ AttemptFails(p)
    \/ FinishSucceeded(p) \/ FinishBlank(p) \/ FinishFailed(p)
    \/ FinishRaises(p)

-----------------------------------------------------------------------------
(* Requests and scripts: what one reads may be old when it acts on it. *)

\* GET content, requeue_failed_post_content and backfill_post_content read the
\* body (and the first one the completeness) outside the transaction that
\* writes.  The summary endpoint and queue_post_content_backfill read the
\* completeness inside it, which is one of the interleavings here.
Look(c, x) ==
    /\ client[c].pc = "idle"
    /\ \E kind \in ClientKinds \ {"import"} :
         /\ kind \in {"read", "backfill"} => body[x] # Blank
         /\ client' = [client EXCEPT ![c] =
                          [pc |-> "act", kind |-> kind, post |-> x, body |-> body[x],
                           complete |-> evidence[x].complete]]
    /\ UNCHANGED <<body, job, evidence, worker, inbox, edits, misses, faults, deaths, batch>>

\* import_postgresql_posts replaces the body of a post.
Edit(c, x) ==
    /\ client[c].pc = "idle"
    /\ "import" \in ClientKinds
    /\ edits < MaxEdits /\ edits' = edits + 1
    /\ \E b \in Bodies \ {body[x]} :
         /\ body' = [body EXCEPT ![x] = b]
         /\ client' = [client EXCEPT ![c] = [NoRequest EXCEPT !.pc = "act", !.kind = "import",
                                                              !.post = x, !.body = b]]
    /\ UNCHANGED <<job, evidence, worker, inbox, misses, faults, deaths, batch>>

\* The request ends by publishing the wake-up of a queued row, or at once.
Proceed(c, row) ==
    client' = [client EXCEPT ![c] = IF row.status = "queued" THEN [@ EXCEPT !.pc = "publish"]
                                                             ELSE NoRequest]

\* The transaction of a content request.
Ensure(c) ==
    /\ client[c].pc = "act" /\ client[c].kind = "read"
    /\ LET x == client[c].post
           row == Ensured(job[x], client[c].body, client[c].complete)
       IN /\ row.budget =< MaxBudgets
          /\ job' = [job EXCEPT ![x] = row]
          /\ Proceed(c, row)
    /\ UNCHANGED <<body, evidence, worker, inbox, edits, misses, faults, deaths, batch>>

\* requeue_failed_post_content_job; it raises unless the row is failed.
Requeue(c) ==
    /\ client[c].pc = "act" /\ client[c].kind = "requeue"
    /\ LET x == client[c].post
           row == IF job[x].status = "failed" THEN Reset(job[x], client[c].body) ELSE job[x]
       IN /\ row.budget =< MaxBudgets
          /\ job' = [job EXCEPT ![x] = row]
          /\ client' = [client EXCEPT ![c] = IF job[x].status = "failed"
                                             THEN [@ EXCEPT !.pc = "publish"] ELSE NoRequest]
    /\ UNCHANGED <<body, evidence, worker, inbox, edits, misses, faults, deaths, batch>>

\* backfill_post_content and the import persist the units themselves; the import
\* stops there.
PersistDirectly(c) ==
    /\ client[c].pc = "act" /\ client[c].kind \in {"backfill", "import"}
    /\ \E complete \in BOOLEAN :
         evidence' = [evidence EXCEPT ![client[c].post] =
                        [@ EXCEPT !.units = client[c].body, !.complete = complete]]
    /\ client' = [client EXCEPT ![c] = IF client[c].kind = "backfill"
                                       THEN [@ EXCEPT !.pc = "record"] ELSE NoRequest]
    /\ UNCHANGED <<body, job, worker, inbox, edits, misses, faults, deaths, batch>>

\* record_post_content_backfill_success; it raises while the row is active.
RecordBackfill(c) ==
    /\ client[c].pc = "record"
    /\ LET x == client[c].post
       IN job' = IF job[x].status \in Active THEN job
                 ELSE [job EXCEPT ![x] = [@ EXCEPT !.status = "succeeded",
                                                   !.digest = client[c].body]]
    /\ client' = [client EXCEPT ![c] = NoRequest]
    /\ UNCHANGED <<body, evidence, worker, inbox, edits, misses, faults, deaths, batch>>

\* publish_post_content_event after the commit; a broker error is swallowed.
Publish(c) ==
    /\ client[c].pc = "publish"
    /\ \/ Wake({<<client[c].post, client[c].body>>}) /\ UNCHANGED faults
       \/ Fault /\ UNCHANGED inbox
    /\ client' = [client EXCEPT ![c] = NoRequest]
    /\ UNCHANGED <<body, job, evidence, worker, edits, misses, deaths, batch>>

\* A request or a script breaks off between two of its transactions.
Abandon(c) ==
    /\ client[c].pc # "idle"
    /\ Fault
    /\ client' = [client EXCEPT ![c] = NoRequest]
    /\ UNCHANGED <<body, job, evidence, worker, inbox, edits, misses, deaths, batch>>

ClientStep(c) ==
    Ensure(c) \/ Requeue(c) \/ PersistDirectly(c) \/ RecordBackfill(c) \/ Publish(c)

-----------------------------------------------------------------------------
(* Time and failures. *)

\* POST_CONTENT_RETRY_INTERVAL passes.
RetryComesDue(x) ==
    /\ job[x].status = "queued" /\ job[x].attempts > 0 /\ ~job[x].due
    /\ job' = [job EXCEPT ![x].due = TRUE]
    /\ UNCHANGED <<body, evidence, worker, inbox, client, edits, misses, faults, deaths, batch>>

\* STALE_RUNNING_INTERVAL passes, though the holder may be alive.
LeaseExpires(x) ==
    /\ job[x].status = "running" /\ ~job[x].stale
    /\ job' = [job EXCEPT ![x].stale = TRUE]
    /\ UNCHANGED <<body, evidence, worker, inbox, client, edits, misses, faults, deaths, batch>>

\* lifespan starts the consumer; _stream_tail skips what is in the stream.
Start(p) ==
    /\ worker[p].pc = "down"
    /\ worker' = [worker EXCEPT ![p] = Consumer("idle")]
    /\ UNCHANGED <<body, job, evidence, inbox, client, edits, misses, faults, deaths, batch>>

\* The process dies or shuts down; the row it had claimed stays running.
Crash(p) ==
    /\ worker[p].pc # "down"
    /\ Fault
    /\ worker' = [worker EXCEPT ![p] = Consumer("down")]
    /\ inbox' = [inbox EXCEPT ![p] = {}] /\ batch' = [batch EXCEPT ![p] = {}]
    /\ UNCHANGED <<body, job, evidence, client, edits, misses, deaths>>

\* _stream_tail, the sweep's SELECT or the claim raises outside any handler: the
\* consumer is gone while its process goes on serving requests.
Dies(p) ==
    /\ worker[p].pc \in {"down", "idle"}
    /\ Death
    /\ worker' = [worker EXCEPT ![p] = Consumer("dead")]
    /\ inbox' = [inbox EXCEPT ![p] = {}] /\ batch' = [batch EXCEPT ![p] = {}]
    /\ UNCHANGED <<body, job, evidence, client, edits, misses, faults>>

-----------------------------------------------------------------------------

TakeStep(p) ==
    \E x \in Posts, d \in Bodies :
        Claim(p, x, d) \/ RefuseExhausted(p, x, d) \/ IgnoreWakeup(p, x, d)

Next ==
    \/ \E p \in Processes : Republish(p) \/ TakeStep(p) \/ WorkStep(p)
    \/ \E p \in Processes : Start(p) \/ Crash(p) \/ Dies(p)
    \/ \E c \in Clients : ClientStep(c) \/ Abandon(c)
    \/ \E c \in Clients, x \in Posts : Look(c, x) \/ Edit(c, x)
    \/ \E x \in Posts : RetryComesDue(x) \/ LeaseExpires(x)

Spec == Init /\ [][Next]_vars

\* The loop runs on, providers return or time out, time passes, a stopped
\* process is started again, and a reader who has a post open polls it.  A dead
\* consumer is not restarted.
Fairness ==
    /\ \A p \in Processes :
         WF_vars(Republish(p)) /\ WF_vars(TakeStep(p)) /\ WF_vars(WorkStep(p)) /\ WF_vars(Start(p))
    /\ \A c \in Clients : WF_vars(ClientStep(c)) /\ \A x \in Posts : WF_vars(Look(c, x))
    /\ \A x \in Posts : WF_vars(RetryComesDue(x)) /\ WF_vars(LeaseExpires(x))

FairSpec == Spec /\ Fairness

-----------------------------------------------------------------------------
(* Properties. *)

\* Every variable has its type.
TypeOK ==
    /\ body \in [Posts -> Bodies]
    /\ job \in [Posts -> Rows]
    /\ evidence \in [Posts -> Evidence]
    /\ worker \in [Processes -> Consumers]
    /\ \A p \in Processes : Works(p) => worker[p].post \in Posts
    /\ inbox \in [Processes -> SUBSET (Posts \X Bodies)]
    /\ batch \in [Processes -> SUBSET (Posts \X Bodies)]
    /\ client \in [Clients -> Requests]
    /\ \A c \in Clients : client[c].pc # "idle" => client[c].post \in Posts /\ client[c].body \in Bodies
    /\ edits \in 0 .. MaxEdits /\ misses \in 0 .. MaxMisses /\ faults \in 0 .. MaxFaults
    /\ deaths \in 0 .. MaxDeaths

\* Both hold a claim of the same post since the same reset of attempt_count.
Rivals(p, q) ==
    /\ p # q /\ Works(p) /\ Works(q)
    /\ worker[p].post = worker[q].post
    /\ worker[p].budget = worker[q].budget

\* "expected_attempt_count fences stale workers after lease recovery": of all the
\* consumers that hold a claim of one post, living on after their lease or not,
\* no two hold the same attempt, so at most one is let through the fence.  (Until
\* attempt_count is reset: a consumer of the budget before may then hold the number.)
FencedAttempts ==
    \A p, q \in Processes : Rivals(p, q) => worker[p].attempt # worker[q].attempt

\* Strengthening: no consumer is ahead of its row.
NobodyIsAhead ==
    \A p \in Processes : Works(p) =>
        LET row == job[worker[p].post]
        IN /\ worker[p].budget =< row.budget
           /\ worker[p].budget = row.budget => worker[p].attempt =< row.attempts

FenceInv == FencedAttempts /\ NobodyIsAhead

\* "A stale worker therefore cannot overwrite the newer attempt": a consumer whose
\* lease was claimed again ends without touching the row.
NewerAttemptSurvives ==
    [][\A p \in Processes :
          LET x == worker[p].post
          IN Works(p) /\ worker'[p].pc \notin Working
             /\ worker[p].budget = job[x].budget /\ worker[p].attempt < job[x].attempts
             => job' = job]_vars

\* "The worker permits three attempts, then records terminal failure": a job for
\* a body with text fails for good only after all the attempts of its budget,
\* whoever lost, repeated or took over what in between.
FailureSpendsBudget ==
    Blank \notin Bodies =>
        \A x \in Posts : job[x].status = "failed" => job[x].attempts >= MaxAttempts

\* "Duplicate wake-ups cannot reopen a terminal failure": a failed row becomes
\* active again only with a new budget.
NoAutomaticReopen ==
    [][\A x \in Posts :
          job[x].status = "failed" /\ job'[x].status \in Active =>
             job'[x].budget # job[x].budget]_vars

\* No consumer is left: nothing restarts one that ended while its process runs.
Stranded == \A p \in Processes : worker[p].pc = "dead"

\* A queued or running row is eventually settled, though wake-ups are lost and
\* consumers crash with a claim in their hands, unless all consumers have ended.
JobEventuallySettles ==
    \A x \in Posts :
        job[x].status \in Active ~> job[x].status \in {"succeeded", "failed"} \/ Stranded

\* What a reader gets to see for the body the post has now.
Fresh(x) ==
    /\ job[x].digest = body[x]
    /\ \/ job[x].status = "failed"
       \/ job[x].status = "succeeded" /\ evidence[x].units = body[x] /\ evidence[x].complete

\* Once the body stops changing, a reader who polls ends up with complete units
\* of that body or with a failure for it, although requests, claims and wake-ups
\* that read an older body are still under way.
ReaderConverges == \A x \in Posts : <>[](body[x] # Blank => Fresh(x) \/ Stranded)
=============================================================================
