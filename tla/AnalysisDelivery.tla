-------------------------- MODULE AnalysisDelivery --------------------------
(***************************************************************************)
(* The start of an analysis run and the delivery of its work:              *)
(* backend/app/analysis_run_start.py, analysis_run_outbox.py,              *)
(* analysis_run_worker.py and the start endpoint of main.py.               *)
(*                                                                         *)
(* A start commits Running and one outbox row, then whoever takes the      *)
(* advisory lock of the run - the request itself or a worker that reads    *)
(* the wake-up - claims the row, computes without any transaction, and     *)
(* commits the outcome.  The lock belongs to a session that idles during   *)
(* the computation and may be lost while its owner goes on.                *)
(*                                                                         *)
(* Runs are as the registry leaves them: Pending, over a snapshot that     *)
(* froze the posts eligible at that time.  The event tables are sequences: *)
(* ordinals are taken under a row lock and are contiguous.                 *)
(***************************************************************************)
EXTENDS Integers, Sequences, FiniteSets

CONSTANTS
    Runs,           \* analysis runs
    Requests,       \* start requests in flight
    Workers,        \* worker tasks, one per backend process
    Posts,          \* source posts of the corporate entity, before the cutoff
    PublicPosts,    \* those a worker sees, which passes no affiliations
    Kinds,          \* which of "lineage", "tepp", "topic", "report" occur
    StatusReadable, \* whether the TEPP client has a status transport
    NoRun,          \* no run
    NoDriver,       \* nobody
    MaxEntries,     \* bound on the entries of the stream
    MaxFaults,      \* bound on stops, lost sessions and failing statements
    MaxEdits        \* bound on the posts that appear or are withdrawn

Drivers == Requests \cup Workers

ASSUME DriversAssumption ==
    /\ NoDriver \notin Drivers
    /\ Requests \cap Workers = {}
    /\ NoRun \notin Runs
ASSUME PostsAssumption == PublicPosts \subseteq Posts
ASSUME DeliveryLimits == MaxEntries \in Nat /\ MaxFaults \in Nat /\ MaxEdits \in Nat

VARIABLES
    kind, members,  \* of each run: its kind and the frozen posts of its snapshot
    eligible,       \* posts that are eligible now
    weights,        \* whether channel weights are estimated
    statuses,       \* analysis_run_status_event of each run, in ordinal order
    outbox,         \* the runs with a row in analysis_run_outbox
    deliveries,     \* analysis_run_outbox_delivery of each run
    receipt,        \* the runs with a row in analysis_run_tepp_receipt
    result,         \* what is stored as the result of each run
    remote,         \* what the provider knows of each run, by idempotency key
    lock,           \* owner of the session that holds the advisory lock of a run
    driver,         \* the delivery in each request's or worker's hands
    stream,         \* entries of the Valkey stream, oldest first
    reader,         \* cursor, next entry and end of batch of each worker
    seen,           \* the status that a reader of each run has read so far
    shown,          \* the status and result that the last reader was shown
    deliveryFaults, postEdits   \* how much of each bound is used

rows == <<statuses, outbox, deliveries, receipt, result>>
posts == <<kind, members, eligible, weights, postEdits>>
views == <<seen, shown>>
deliveryVars == <<kind, members, eligible, weights, statuses, outbox, deliveries, receipt,
                  result, remote, lock, driver, stream, reader, seen, shown, deliveryFaults,
                  postEdits>>

-----------------------------------------------------------------------------

Startable == {"lineage", "tepp", "topic"}

\* Kinds of stored results, and what a tree was reconstructed from.
Results == [of : {"none", "tree", "measurement"}, from : SUBSET Posts]
NoResult == [of |-> "none", from |-> {}]
Tree(used) == [of |-> "tree", from |-> used]
Measurement == [of |-> "measurement", from |-> {}]

\* The outcome of a computation: a tree, a completed measurement, an acceptance to
\* be receipted, still running remotely, or failed.
Outcomes == {"none", "tree", "measured", "accepted", "running", "failed"}
Phases == {"idle", "publish", "connect", "claim", "compute", "persist", "close"}

Deliveries == [pc : Phases, run : Runs \cup {NoRun}, used : SUBSET Posts,
               receipted : BOOLEAN, outcome : Outcomes]
NoDelivery == [pc |-> "idle", run |-> NoRun, used |-> {}, receipted |-> FALSE,
               outcome |-> "none"]
DeliveryOf(r, pc) == [NoDelivery EXCEPT !.pc = pc, !.run = r]

\* cursor: last_id of the loop; next .. end: the entries of the batch still to handle.
Readers == [up : {"down", "up", "dead"}, cursor : Nat, next : Nat, end : Nat]
NewReader(up) == [up |-> up, cursor |-> 0, next |-> 0, end |-> 0]

\* What the detail of a run shows: a status, and whether a result came with it.
Views == [status : {"none", "pending", "running", "succeeded", "failed"}, result : BOOLEAN]
NotShown == [status |-> "none", result |-> FALSE]

Status(r) == statuses[r][Len(statuses[r])]
Delivered(r) == deliveries[r] # <<>> /\ deliveries[r][Len(deliveries[r])] = "delivered"

\* Bug: a retry of a claimed row is not recognised.
ClaimedNever(r) == FALSE

Claimed(r) == deliveries[r] # <<>> /\ deliveries[r][Len(deliveries[r])] = "claimed"
Terminal == {"succeeded", "failed"}

Fault == deliveryFaults < MaxFaults /\ deliveryFaults' = deliveryFaults + 1

DeliveryInit ==
    /\ kind \in [Runs -> Kinds]
    /\ eligible \in SUBSET Posts
    /\ members = [r \in Runs |-> eligible]
    /\ weights \in BOOLEAN
    /\ statuses = [r \in Runs |-> <<"pending">>]
    /\ outbox = {}
    /\ deliveries = [r \in Runs |-> <<>>]
    /\ receipt = {}
    /\ result = [r \in Runs |-> NoResult]
    /\ remote = [r \in Runs |-> "unknown"]
    /\ lock = [r \in Runs |-> NoDriver]
    /\ driver = [d \in Drivers |-> NoDelivery]
    /\ stream = <<>>
    /\ reader = [w \in Workers |-> NewReader("down")]
    /\ seen = [r \in Runs |-> "none"]
    /\ shown = [r \in Runs |-> NotShown]
    /\ deliveryFaults = 0 /\ postEdits = 0

-----------------------------------------------------------------------------
(* The start request: one transaction, then the wake-up. *)

Hold(d, delivery) == driver' = [driver EXCEPT ![d] = delivery]
Goto(d, pc) == Hold(d, [driver[d] EXCEPT !.pc = pc])

\* A Pending run gets Running and its outbox row; the row is new, since both are
\* written under the lock of the run.
EnqueueNew(c, r) ==
    /\ driver[c].pc = "idle"
    /\ kind[r] \in Startable
    /\ Status(r) = "pending"
    /\ statuses' = [statuses EXCEPT ![r] = Append(@, "running")]
    /\ outbox' = outbox \cup {r}
    /\ Hold(c, DeliveryOf(r, "publish"))
    /\ UNCHANGED <<posts, views, deliveries, receipt, result, remote, lock, stream, reader,
                   deliveryFaults>>

\* A Running run whose work is undelivered is taken up again.
EnqueueResume(c, r) ==
    /\ driver[c].pc = "idle"
    /\ Status(r) = "running"
    /\ ~Delivered(r)
    /\ r \in outbox
    /\ Hold(c, DeliveryOf(r, "publish"))
    /\ UNCHANGED <<posts, views, rows, remote, lock, stream, reader, deliveryFaults>>

\* XADD; an error of the broker is swallowed.
PublishWakeup(c) ==
    /\ driver[c].pc = "publish"
    /\ Goto(c, "connect")
    /\ \/ Len(stream) < MaxEntries /\ stream' = Append(stream, driver[c].run)
       \/ UNCHANGED stream
    /\ UNCHANGED <<posts, views, rows, remote, lock, reader, deliveryFaults>>

-----------------------------------------------------------------------------
(* deliver_queued_analysis_run. *)

\* Bug: the answer of pg_try_advisory_lock is not looked at.
ConnectAnyway(d) ==
    /\ driver[d].pc = "connect"
    /\ lock' = [lock EXCEPT ![driver[d].run] = IF @ = NoDriver THEN d ELSE @]
    /\ Goto(d, "claim")
    /\ UNCHANGED <<posts, views, rows, remote, stream, reader, deliveryFaults>>

\* pg_try_advisory_lock on a session of its own.
Connect(d) ==
    /\ driver[d].pc = "connect"
    /\ IF lock[driver[d].run] = NoDriver
       THEN /\ lock' = [lock EXCEPT ![driver[d].run] = d]
            /\ Goto(d, "claim")
       ELSE /\ Hold(d, NoDelivery)
            /\ UNCHANGED lock
    /\ UNCHANGED <<posts, views, rows, remote, stream, reader, deliveryFaults>>

\* _cutoff_source_posts with the affiliations that the caller passes.
LivePosts(d) == IF d \in Workers THEN eligible \cap PublicPosts ELSE eligible

\* The frozen members that are still eligible, else the live cutoff query.
InputPosts(d, r) ==
    IF members[r] \cap eligible # {} THEN members[r] \cap eligible ELSE LivePosts(d)

\* Bug: what somebody has claimed is his, also when he has stopped.
ClaimEndsOnceClaimed(r) ==
    Status(r) = "succeeded" \/ r \notin outbox \/ deliveries[r] # <<>>
        \/ (kind[r] = "lineage" /\ ~weights)

\* The outcome of the claim transaction is a result to return, or a refusal.
ClaimEnds(r) ==
    \/ Status(r) = "succeeded"
    \/ r \notin outbox
    \/ Delivered(r)
    \/ kind[r] = "lineage" /\ ~weights

\* A refusal rolls back the claim as well.
ClaimReturns(d) ==
    /\ driver[d].pc = "claim"
    /\ ClaimEnds(driver[d].run)
    /\ Goto(d, "close")
    /\ UNCHANGED <<posts, views, rows, remote, lock, stream, reader, deliveryFaults>>

\* One claim event, unless the latest event already is one.
Claim(d) ==
    LET r == driver[d].run IN
    /\ driver[d].pc = "claim"
    /\ ~ClaimEnds(r)
    /\ deliveries' = [deliveries EXCEPT ![r] = IF Claimed(r) THEN @ ELSE Append(@, "claimed")]
    /\ Hold(d, [driver[d] EXCEPT
                    !.pc = "compute",
                    !.used = IF kind[r] = "lineage" THEN InputPosts(d, r) ELSE {},
                    !.receipted = r \in receipt])
    /\ UNCHANGED <<posts, views, statuses, outbox, receipt, result, remote, lock, stream, reader,
                   deliveryFaults>>

Computed(d, outcome) == Hold(d, [driver[d] EXCEPT !.pc = "persist", !.outcome = outcome])

\* The edges of the captured posts.
Reconstruct(d) ==
    /\ kind[driver[d].run] = "lineage"
    /\ Computed(d, "tree")
    /\ UNCHANGED <<remote, deliveryFaults>>

\* The adjudication provider fails: nothing is persisted.
AdjudicationFails(d) ==
    /\ kind[driver[d].run] = "lineage"
    /\ Fault
    /\ Goto(d, "close")
    /\ UNCHANGED remote

\* A submission is completed, accepted or not; a topic run cannot wait for a receipt.
SubmitMeasurement(d) ==
    LET r == driver[d].run IN
    /\ kind[r] = "topic" \/ (kind[r] = "tepp" /\ ~driver[d].receipted)
    /\ \/ /\ remote[r] \in {"unknown", "succeeded"}
          /\ remote' = [remote EXCEPT ![r] = "succeeded"]
          /\ Computed(d, "measured")
       \/ /\ remote[r] \in {"unknown", "accepted"}
          /\ remote' = [remote EXCEPT ![r] = "accepted"]
          /\ Computed(d, IF kind[r] = "topic" THEN "failed" ELSE "accepted")
       \/ Computed(d, "failed") /\ UNCHANGED remote
    /\ UNCHANGED deliveryFaults

\* A status read of a receipted run; without an answer it is still running.
ReadMeasurement(d) ==
    LET r == driver[d].run IN
    /\ kind[r] = "tepp"
    /\ driver[d].receipted
    /\ \/ Computed(d, "running")
       \/ StatusReadable /\ Computed(d, "failed")
       \/ StatusReadable /\ remote[r] = "succeeded" /\ Computed(d, "measured")
    /\ UNCHANGED <<remote, deliveryFaults>>

\* _execute_delivery_plan, with no database resource.
Compute(d) ==
    /\ driver[d].pc = "compute"
    /\ \/ Reconstruct(d)
       \/ AdjudicationFails(d)
       \/ SubmitMeasurement(d)
       \/ ReadMeasurement(d)
    /\ UNCHANGED <<posts, views, rows, lock, stream, reader>>

-----------------------------------------------------------------------------
(* The outcome transaction, under a lock of the outbox row. *)

\* analysis_run_status_failure_shape_check.
ShapeAllows(status, code) == IF status = "failed" THEN code = "code" ELSE code = "null"

\* Bug: the provider's own word is stored as the status.
EndingVerbatim(d) ==
    [status |-> "completed", code |-> "null", result |-> Tree(driver[d].used)]

\* Bug: the edges are left to a later step.
EndingWithoutTree(d) ==
    IF driver[d].outcome = "tree"
    THEN [status |-> "succeeded", code |-> "null", result |-> NoResult]
    ELSE [status |-> "failed", code |-> "code", result |-> NoResult]

\* What each outcome appends: the failure code of a measurement that succeeded is the
\* empty string of _DeliveryOutcome, not null.
Ending(d) ==
    CASE driver[d].outcome = "tree" ->
            [status |-> "succeeded", code |-> "null", result |-> Tree(driver[d].used)]
      [] driver[d].outcome = "measured" ->
            [status |-> "succeeded", code |-> "", result |-> Measurement]
      [] OTHER -> [status |-> "failed", code |-> "code", result |-> NoResult]

Unsettled(d) == driver[d].pc = "persist" /\ ~Delivered(driver[d].run)

\* Somebody else has delivered: his outcome is returned and this one forgotten.
PersistReturns(d) ==
    /\ driver[d].pc = "persist"
    /\ Delivered(driver[d].run)
    /\ Goto(d, "close")
    /\ UNCHANGED <<posts, views, rows, remote, lock, stream, reader, deliveryFaults>>

\* Result, terminal status and delivered event in one transaction.
Settle(d, ending) ==
    LET r == driver[d].run IN
    /\ ShapeAllows(ending.status, ending.code)
    /\ Status(r) = "running"
    /\ statuses' = [statuses EXCEPT ![r] = Append(@, ending.status)]
    /\ deliveries' = [deliveries EXCEPT ![r] = Append(@, "delivered")]
    /\ result' = [result EXCEPT ![r] = IF ending.result = NoResult THEN @ ELSE ending.result]
    /\ Goto(d, "close")
    /\ UNCHANGED <<posts, views, outbox, receipt, remote, lock, stream, reader>>

PersistOutcome(d) ==
    /\ Unsettled(d)
    /\ driver[d].outcome \in {"tree", "measured", "failed"}
    /\ Settle(d, Ending(d))
    /\ UNCHANGED deliveryFaults

\* An accepted run keeps its receipt and waits; a stored receipt must be the same.
PersistReceipt(d) ==
    /\ Unsettled(d)
    /\ driver[d].outcome = "accepted"
    /\ receipt' = receipt \cup {driver[d].run}
    /\ Goto(d, "close")
    /\ UNCHANGED <<posts, views, statuses, outbox, deliveries, result, remote, lock, stream, reader,
                   deliveryFaults>>

\* A different receipt, or a failing insert of receipt or result.
PersistEvidenceFails(d) ==
    /\ Unsettled(d)
    /\ \/ /\ driver[d].outcome = "accepted" /\ driver[d].run \in receipt
          /\ UNCHANGED deliveryFaults
       \/ driver[d].outcome \in {"accepted", "measured"} /\ Fault
    /\ Settle(d, [status |-> "failed", code |-> "code", result |-> NoResult])

\* A measurement that still runs remotely leaves no trace.
PersistNothing(d) ==
    /\ Unsettled(d)
    /\ driver[d].outcome = "running"
    /\ Goto(d, "close")
    /\ UNCHANGED <<posts, views, rows, remote, lock, stream, reader, deliveryFaults>>

\* A statement fails or the check refuses the status: everything is rolled back.
PersistRaises(d) ==
    /\ Unsettled(d)
    /\ \/ Fault
       \/ /\ driver[d].outcome = "measured"
          /\ ~ShapeAllows(Ending(d).status, Ending(d).code)
          /\ UNCHANGED deliveryFaults
    /\ Goto(d, "close")
    /\ UNCHANGED <<posts, views, rows, remote, lock, stream, reader>>

Persist(d) ==
    \/ PersistReturns(d)
    \/ PersistOutcome(d)
    \/ PersistReceipt(d)
    \/ PersistEvidenceFails(d)
    \/ PersistNothing(d)
    \/ PersistRaises(d)

\* The session ends and the advisory lock with it, if it was still held.
Release(d) ==
    lock' = [r \in Runs |-> IF lock[r] = d THEN NoDriver ELSE lock[r]]

Close(d) ==
    /\ driver[d].pc = "close"
    /\ Release(d)
    /\ Hold(d, NoDelivery)
    /\ UNCHANGED <<posts, views, rows, remote, stream, reader, deliveryFaults>>

\* The idle session is cut while its owner computes or persists.
LoseSession(d) ==
    /\ \E r \in Runs : lock[r] = d
    /\ driver[d].pc \in {"claim", "compute", "persist"}
    /\ Fault
    /\ Release(d)
    /\ UNCHANGED <<posts, views, rows, remote, driver, stream, reader>>

Deliver(d) == Connect(d) \/ ClaimReturns(d) \/ Claim(d) \/ Compute(d) \/ Persist(d) \/ Close(d)

-----------------------------------------------------------------------------
(* The worker: entries in order, a batch at a time, from 0-0 at every start. *)

Move(w, state) == reader' = [reader EXCEPT ![w] = state]
AtRest(w) == reader[w].up = "up" /\ driver[w].pc = "idle"

StartWorker(w) ==
    /\ reader[w].up = "down"
    /\ Move(w, NewReader("up"))
    /\ UNCHANGED <<posts, views, rows, remote, lock, driver, stream, deliveryFaults>>

ReadBatch(w) ==
    /\ AtRest(w)
    /\ reader[w].next = reader[w].end
    /\ reader[w].end < Len(stream)
    /\ Move(w, [reader[w] EXCEPT !.next = reader[w].cursor, !.end = Len(stream)])
    /\ UNCHANGED <<posts, views, rows, remote, lock, driver, stream, deliveryFaults>>

\* Refusals and errors of a delivery are logged; the cursor moves on all the same.
HandleEntry(w) ==
    /\ AtRest(w)
    /\ reader[w].next < reader[w].end
    /\ Hold(w, DeliveryOf(stream[reader[w].next + 1], "connect"))
    /\ Move(w, [reader[w] EXCEPT !.next = @ + 1,
                                 !.cursor = IF reader[w].next + 1 = reader[w].end
                                            THEN reader[w].end ELSE @])
    /\ UNCHANGED <<posts, views, rows, remote, lock, stream, deliveryFaults>>

\* The lookup of the owner is outside the handler of the entry: an OS error makes the
\* loop read the batch again, a database error ends the task.
LookupFails(w) ==
    /\ AtRest(w)
    /\ reader[w].next < reader[w].end
    /\ Fault
    /\ \/ Move(w, [reader[w] EXCEPT !.next = reader[w].cursor, !.end = reader[w].cursor])
       \/ Move(w, NewReader("dead"))
    /\ UNCHANGED <<posts, views, rows, remote, lock, driver, stream>>

\* A process stops: its worker and the delivery in its hands, or one of its requests.
StopDriver(d) ==
    /\ \/ d \in Workers /\ reader[d].up # "down"
       \/ d \in Requests /\ driver[d].pc # "idle"
    /\ Fault
    /\ Release(d)
    /\ Hold(d, NoDelivery)
    /\ reader' = IF d \in Workers THEN [reader EXCEPT ![d] = NewReader("down")] ELSE reader
    /\ UNCHANGED <<posts, views, rows, remote, stream>>

-----------------------------------------------------------------------------
(* The detail of a run is read in several statements without a transaction. *)

ReadStatus(r) ==
    /\ seen[r] = "none"
    /\ seen' = [seen EXCEPT ![r] = Status(r)]
    /\ UNCHANGED <<posts, shown, rows, remote, lock, driver, stream, reader, deliveryFaults>>

\* Bug: the result is read first; the status is the one of the second statement.
ShowResultFirst(r) == [status |-> Status(r), result |-> seen[r] = "succeeded"]

\* The edges or the stored envelope, after the status.
ShowResult(r) == [status |-> seen[r], result |-> result[r] # NoResult]

ReadResult(r) ==
    /\ seen[r] # "none"
    /\ shown' = [shown EXCEPT ![r] = ShowResult(r)]
    /\ seen' = [seen EXCEPT ![r] = "none"]
    /\ UNCHANGED <<posts, rows, remote, lock, driver, stream, reader, deliveryFaults>>

-----------------------------------------------------------------------------
(* The environment. *)

\* A post is imported with an earlier creation time, or withdrawn.
EditPosts ==
    /\ postEdits < MaxEdits
    /\ postEdits' = postEdits + 1
    /\ \E x \in Posts :
          eligible' = IF x \in eligible THEN eligible \ {x} ELSE eligible \cup {x}
    /\ UNCHANGED <<views, kind, members, weights, rows, remote, lock, driver, stream, reader,
                   deliveryFaults>>

EstimateWeights ==
    /\ ~weights
    /\ weights' = TRUE
    /\ UNCHANGED <<views, kind, members, eligible, postEdits, rows, remote, lock, driver, stream,
                   reader, deliveryFaults>>

\* The provider finishes a run that it has accepted.
RemoteEnds(r) ==
    /\ remote[r] = "accepted"
    /\ \E state \in {"succeeded", "failed"} : remote' = [remote EXCEPT ![r] = state]
    /\ UNCHANGED <<posts, views, rows, lock, driver, stream, reader, deliveryFaults>>

Enqueue(c, r) == EnqueueNew(c, r) \/ EnqueueResume(c, r)

DeliveryNext ==
    \/ \E c \in Requests, r \in Runs : Enqueue(c, r)
    \/ \E c \in Requests : PublishWakeup(c)
    \/ \E d \in Drivers : Deliver(d) \/ LoseSession(d) \/ StopDriver(d)
    \/ \E w \in Workers : StartWorker(w) \/ ReadBatch(w) \/ HandleEntry(w) \/ LookupFails(w)
    \/ \E r \in Runs : ReadStatus(r) \/ ReadResult(r)
    \/ EditPosts
    \/ EstimateWeights
    \/ \E r \in Runs : RemoteEnds(r)

DeliverySpec == DeliveryInit /\ [][DeliveryNext]_deliveryVars

\* Coroutines go on, stopped processes are started again, and whoever waits for a run
\* that is not delivered presses start again now and then.
DeliveryFairness ==
    /\ \A c \in Requests : WF_deliveryVars(PublishWakeup(c))
    /\ \A c \in Requests, r \in Runs : SF_deliveryVars(Enqueue(c, r))
    /\ \A d \in Drivers : WF_deliveryVars(Deliver(d))
    /\ \A w \in Workers :
          WF_deliveryVars(StartWorker(w)) /\ WF_deliveryVars(ReadBatch(w) \/ HandleEntry(w))

DeliveryFairSpec == DeliverySpec /\ DeliveryFairness

-----------------------------------------------------------------------------
(* Properties. *)

\* Types of the rows, of the deliveries in hand and of the cursors.
DeliveryTypeOK ==
    /\ kind \in [Runs -> Kinds] /\ members \in [Runs -> SUBSET Posts]
    /\ eligible \in SUBSET Posts /\ weights \in BOOLEAN
    /\ statuses \in [Runs -> Seq({"pending", "running"} \cup Terminal)]
    /\ outbox \in SUBSET Runs
    /\ deliveries \in [Runs -> Seq({"claimed", "delivered"})]
    /\ receipt \in SUBSET Runs
    /\ result \in [Runs -> Results]
    /\ remote \in [Runs -> {"unknown", "accepted", "succeeded", "failed"}]
    /\ lock \in [Runs -> Drivers \cup {NoDriver}]
    /\ driver \in [Drivers -> Deliveries]
    /\ stream \in Seq(Runs)
    /\ reader \in [Workers -> Readers]
    /\ seen \in [Runs -> {"none", "pending", "running"} \cup Terminal] /\ shown \in [Runs -> Views]
    /\ deliveryFaults \in 0 .. MaxFaults /\ postEdits \in 0 .. MaxEdits

\* The event tables of a run agree whoever delivered it and however often it was
\* taken up: one claim, then one delivery; a terminal status exactly when it is
\* delivered; a result exactly when it succeeded (enqueue_pending_analysis_run,
\* _claim_delivery_plan, _persist_delivery_outcome).
EventsAgree ==
    \A r \in Runs :
        /\ Len(deliveries[r]) \in 0 .. 2
        /\ Len(deliveries[r]) >= 1 => deliveries[r][1] = "claimed" /\ r \in outbox
        /\ Len(deliveries[r]) = 2 => deliveries[r][2] = "delivered"
        /\ Len(statuses[r]) \in 1 .. 3
        /\ statuses[r][1] = "pending"
        /\ Len(statuses[r]) >= 2 => statuses[r][2] = "running"
        /\ Len(statuses[r]) = 3 => statuses[r][3] \in Terminal
        /\ Len(statuses[r]) >= 2 <=> r \in outbox
        /\ Len(statuses[r]) = 3 <=> Len(deliveries[r]) = 2
        /\ Status(r) = "succeeded" <=> result[r] # NoResult

Working(d, r) == driver[d].run = r /\ driver[d].pc \in {"claim", "compute", "persist"}

\* The advisory lock keeps the computation of a run alone, whoever comes and goes,
\* as long as no session is cut (deliver_queued_analysis_run).
ComputesAlone ==
    deliveryFaults = 0 =>
        \A r \in Runs, d, e \in Drivers : Working(d, r) /\ Working(e, r) => d = e

\* Whoever is shown a succeeded run is shown its result with it
\* (fetch_visible_analysis_run).
SucceededIsShownWithResult ==
    \A r \in Runs : shown[r].status = "succeeded" => shown[r].result

\* A run is started once, ends at most once and keeps what it ended with, also when
\* lost sessions let two drivers compute it (ADR 0023).
Phase(r) ==
    CASE Status(r) = "pending" -> "requested"
      [] Status(r) = "running" -> "started"
      [] OTHER -> Status(r)
Outcome == INSTANCE OneOutcome WITH
    Outputs <- Results \ {NoResult}, NoOutput <- NoResult,
    phase <- [r \in Runs |-> Phase(r)], output <- result
ImplementsOutcome == Outcome!OutcomeSpec

\* A started reconstruction is delivered once its weights are estimated, whatever was
\* lost, refused or stopped on the way.
LineageSettles ==
    \A r \in Runs :
        (kind[r] = "lineage" /\ r \in outbox /\ weights) ~> Delivered(r)

\* A completed measurement is stored: its outcome transaction, if no statement of it
\* fails for other reasons, ends with the delivered event (_persist_delivery_outcome:
\* "Persist one complete outcome and delivered event atomically").
MeasurementIsStored ==
    [][\A d \in Drivers :
          Unsettled(d) /\ driver[d].outcome = "measured" /\ driver'[d].pc = "close"
              /\ deliveryFaults' = deliveryFaults
          => Delivered(driver[d].run)']_deliveryVars
=============================================================================
