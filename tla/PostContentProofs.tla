-------------------------- MODULE PostContentProofs --------------------------
(* Theorems about PostContentQueue for every value of its constants. *)
EXTENDS PostContentQueue, TLAPS

-----------------------------------------------------------------------------
(* Type correctness.  TypeOK alone is not inductive: the sweep publishes the    *)
(* digest of a row, and a finishing consumer gives its row a status.            *)

\* Every row that exists has the digest of a body.
RowsHaveDigests == \A x \in Posts : job[x].status # "absent" => job[x].digest \in Bodies

\* No consumer works for a row that does not exist.
HeldRowsExist == \A p \in Processes : Works(p) => job[worker[p].post].status # "absent"

TypeInv == TypeOK /\ RowsHaveDigests /\ HeldRowsExist

\* The parts of TypeInv about the rows, the consumers and the requests.
RowsOK == job \in [Posts -> Rows] /\ RowsHaveDigests
ConsumersOK ==
    worker \in [Processes -> Consumers] /\ \A p \in Processes : Works(p) => worker[p].post \in Posts
WakeupsOK ==
    /\ inbox \in [Processes -> SUBSET (Posts \X Bodies)]
    /\ batch \in [Processes -> SUBSET (Posts \X Bodies)]
RequestsOK ==
    /\ client \in [Clients -> Requests]
    /\ \A c \in Clients : client[c].pc # "idle" => client[c].post \in Posts /\ client[c].body \in Bodies
CountersOK ==
    /\ edits \in 0 .. MaxEdits /\ misses \in 0 .. MaxMisses /\ faults \in 0 .. MaxFaults
    /\ deaths \in 0 .. MaxDeaths
SourcesOK == body \in [Posts -> Bodies] /\ evidence \in [Posts -> Evidence]

LEMMA Parts ==
    TypeInv <=> RowsOK /\ ConsumersOK /\ WakeupsOK /\ RequestsOK /\ CountersOK /\ SourcesOK
                /\ HeldRowsExist
BY DEF TypeInv, TypeOK, RowsOK, ConsumersOK, WakeupsOK, RequestsOK, CountersOK, SourcesOK

LEMMA PartsNext ==
    RowsOK' /\ ConsumersOK' /\ WakeupsOK' /\ RequestsOK' /\ CountersOK' /\ SourcesOK'
    /\ HeldRowsExist' => TypeInv'
BY DEF TypeInv, TypeOK, RowsOK, ConsumersOK, WakeupsOK, RequestsOK, CountersOK, SourcesOK

\* Writing one existing row keeps the types of all rows and removes none.
LEMMA OneRow ==
    ASSUME RowsOK, NEW x \in Posts, NEW row \in Rows,
           row.status # "absent", row.digest \in Bodies,
           job' = [job EXCEPT ![x] = row]
    PROVE  RowsOK' /\ \A y \in Posts : job[y].status # "absent" => job'[y].status # "absent"
BY DEF RowsOK, RowsHaveDigests

\* Replacing the state of one consumer keeps the types of all.
LEMMA OneConsumer ==
    ASSUME ConsumersOK, NEW p \in Processes, NEW w \in Consumers,
           w.pc \in Working => w.post \in Posts,
           worker' = [worker EXCEPT ![p] = w]
    PROVE  ConsumersOK'
<1>1. worker' \in [Processes -> Consumers]
  BY DEF ConsumersOK
<1>2. ASSUME NEW q \in Processes, Works(q)' PROVE worker'[q].post \in Posts
  <2>1. CASE q = p
    BY <1>2, <2>1 DEF ConsumersOK, Works
  <2>2. CASE q # p
    BY <1>2, <2>2 DEF ConsumersOK, Works
  <2> QED
    BY <2>1, <2>2
<1> QED
  BY <1>1, <1>2 DEF ConsumersOK

\* Replacing one request keeps the types of all.
LEMMA OneRequest ==
    ASSUME RequestsOK, NEW c \in Clients, NEW r \in Requests,
           r.pc # "idle" => r.post \in Posts /\ r.body \in Bodies,
           client' = [client EXCEPT ![c] = r]
    PROVE  RequestsOK'
BY DEF RequestsOK

\* Held rows stay while rows are not removed and no consumer takes another one.
LEMMA HeldRowsStay ==
    ASSUME HeldRowsExist, ConsumersOK,
           \A y \in Posts : job[y].status # "absent" => job'[y].status # "absent",
           \A q \in Processes : Works(q)' => Works(q) /\ worker'[q].post = worker[q].post
    PROVE  HeldRowsExist'
BY DEF HeldRowsExist, ConsumersOK, Works

LEMMA IdleConsumers ==
    /\ \A pc \in {"down", "dead", "idle"} : Consumer(pc) \in Consumers /\ Consumer(pc).pc = pc
    /\ {"down", "dead", "idle"} \cap Working = {}
BY DEF Consumer, Consumers, Working

LEMMA NoRequestType == NoRequest \in Requests /\ NoRequest.pc = "idle"
BY DEF NoRequest, Requests

LEMMA NoRowType == NoRow \in Rows /\ NoRow.status = "absent" /\ NoRow.attempts = 0 /\ NoRow.budget = 0
BY DEF NoRow, Rows, Statuses

LEMMA TypeInit == Init => TypeInv
<1> SUFFICES ASSUME Init PROVE TypeInv
  OBVIOUS
<1>1. RowsOK
  BY NoRowType DEF Init, RowsOK, RowsHaveDigests
<1>2. ConsumersOK /\ HeldRowsExist
  BY IdleConsumers DEF Init, ConsumersOK, HeldRowsExist, Works
<1>3. WakeupsOK
  BY DEF Init, WakeupsOK
<1>4. RequestsOK
  BY NoRequestType DEF Init, RequestsOK
<1>5. CountersOK
  BY LimitAssumption DEF Init, CountersOK
<1>6. NoEvidence \in Evidence
  BY DEF NoEvidence, Evidence
<1>7. SourcesOK
  BY <1>6 DEF Init, SourcesOK
<1> QED
  BY <1>1, <1>2, <1>3, <1>4, <1>5, <1>7, Parts

\* The rows that the operations write.
LEMMA TransitionType ==
    ASSUME NEW row \in Rows, NEW s \in Statuses
    PROVE  /\ Transition(row, s) \in Rows
           /\ Transition(row, s).status = s /\ Transition(row, s).digest = row.digest
           /\ Transition(row, s).attempts = row.attempts
           /\ Transition(row, s).budget = row.budget
BY DEF Transition, Rows

LEMMA ClaimedType ==
    ASSUME NEW row \in Rows
    PROVE  LET r == [row EXCEPT !.attempts = NextAttempt(row)]
           IN  r \in Rows /\ r.digest = row.digest /\ r.attempts = row.attempts + 1
               /\ r.budget = row.budget
BY DEF Rows, NextAttempt

LEMMA ResetType ==
    ASSUME NEW row \in Rows, NEW d \in Bodies
    PROVE  /\ Reset(row, d) \in Rows
           /\ Reset(row, d).status = "queued" /\ Reset(row, d).digest = d
           /\ Reset(row, d).attempts = 0 /\ Reset(row, d).budget = row.budget + 1
<1>1. row.budget + 1 \in Nat
  BY DEF Rows
<1>2. Reset(row, d) \in Rows
  BY <1>1 DEF Rows, Reset, Statuses
<1>3. Reset(row, d).status = "queued" /\ Reset(row, d).digest = d /\ Reset(row, d).attempts = 0
  BY DEF Rows, Reset
<1>4. Reset(row, d).budget = row.budget + 1
  BY DEF Rows, Reset
<1> QED
  BY <1>2, <1>3, <1>4

LEMMA BackfilledType ==
    ASSUME NEW row \in Rows, NEW d \in Bodies
    PROVE  LET r == [row EXCEPT !.status = "succeeded", !.digest = d]
           IN  r \in Rows /\ r.status = "succeeded" /\ r.digest = d
               /\ r.attempts = row.attempts /\ r.budget = row.budget
BY DEF Rows, Statuses

LEMMA TimedType ==
    ASSUME NEW row \in Rows
    PROVE  /\ [row EXCEPT !.due = TRUE] \in Rows /\ [row EXCEPT !.stale = TRUE] \in Rows
           /\ \A r \in {[row EXCEPT !.due = TRUE], [row EXCEPT !.stale = TRUE]} :
                /\ r.status = row.status /\ r.digest = row.digest
                /\ r.attempts = row.attempts /\ r.budget = row.budget
BY DEF Rows

LEMMA StatusNames ==
    "absent" \in Statuses /\ "queued" \in Statuses /\ "running" \in Statuses
    /\ "succeeded" \in Statuses /\ "failed" \in Statuses
BY DEF Statuses

\* A wake-up is published only for a post with the digest of a body.
LEMMA WakeTypes ==
    ASSUME WakeupsOK, NEW woken \in SUBSET (Posts \X Bodies), Wake(woken)
    PROVE  inbox' \in [Processes -> SUBSET (Posts \X Bodies)]
BY DEF WakeupsOK, Wake

\* The sweep.
LEMMA TypeRepublish ==
    ASSUME TypeInv, NEW p \in Processes, Republish(p)
    PROVE  TypeInv'
<1>1. \A X \in SUBSET Recoverable : {<<x, job[x].digest>> : x \in X} \in SUBSET (Posts \X Bodies)
  BY DEF TypeInv, RowsHaveDigests, Recoverable
<1>2. WakeupsOK
  BY Parts
<1>3. inbox' \in [Processes -> SUBSET (Posts \X Bodies)]
  <2>1. Recoverable \in SUBSET Recoverable
    OBVIOUS
  <2>2. PICK X \in SUBSET Recoverable : Wake({<<x, job[x].digest>> : x \in X})
    BY <2>1 DEF Republish
  <2> QED
    BY <1>1, <1>2, <2>2, WakeTypes
<1>4. batch' \in [Processes -> SUBSET (Posts \X Bodies)]
  BY <1>2 DEF Republish, WakeupsOK
<1>5. faults' \in 0 .. MaxFaults
  BY LimitAssumption DEF Republish, Fault, TypeInv, TypeOK
<1> QED
  BY <1>3, <1>4, <1>5 DEF Republish, TypeInv, TypeOK, RowsHaveDigests, HeldRowsExist, Works

\* Handling one wake-up.
LEMMA TypeTake ==
    ASSUME TypeInv, NEW p \in Processes, NEW x \in Posts, NEW d \in Bodies,
           Claim(p, x, d) \/ RefuseExhausted(p, x, d) \/ IgnoreWakeup(p, x, d)
    PROVE  TypeInv'
<1>1. RowsOK /\ ConsumersOK /\ WakeupsOK /\ RequestsOK /\ CountersOK /\ SourcesOK /\ HeldRowsExist
  BY Parts
<1>2. WakeupsOK'
  <2>1. Takes(p, x, d)
    BY DEF Claim, RefuseExhausted, IgnoreWakeup
  <2> QED
    BY <1>1, <2>1 DEF Takes, WakeupsOK
<1>3. RequestsOK' /\ CountersOK' /\ SourcesOK'
  BY <1>1 DEF Claim, RefuseExhausted, IgnoreWakeup, RequestsOK, CountersOK, SourcesOK
<1>4. job[x] \in Rows
  BY <1>1 DEF RowsOK
<1>5. CASE Claim(p, x, d)
  <2> DEFINE row == Transition([job[x] EXCEPT !.attempts = NextAttempt(job[x])], "running")
             w == [pc |-> IF body[x] = Blank THEN "blank" ELSE "content",
                   post |-> x, digest |-> d, body |-> body[x],
                   attempt |-> NextAttempt(job[x]), budget |-> job[x].budget]
  <2>1. row \in Rows /\ row.status = "running" /\ row.digest = d
    <3> DEFINE r == [job[x] EXCEPT !.attempts = NextAttempt(job[x])]
    <3>1. r \in Rows /\ r.digest = d
      BY <1>4, <1>5, ClaimedType DEF Claim
    <3> HIDE DEF r
    <3>2. Transition(r, "running") \in Rows /\ Transition(r, "running").status = "running"
          /\ Transition(r, "running").digest = r.digest
      BY <3>1, TransitionType, StatusNames
    <3> QED
      BY <3>1, <3>2 DEF r
  <2>2. job' = [job EXCEPT ![x] = row]
    BY <1>5 DEF Claim
  <2>3. RowsOK' /\ \A y \in Posts : job[y].status # "absent" => job'[y].status # "absent"
    <3> HIDE DEF row
    <3> QED
      BY <1>1, <2>1, <2>2, OneRow
  <2>4. w \in Consumers /\ w.post = x
    BY <1>1, <1>4 DEF Consumers, Working, SourcesOK, Rows, NextAttempt
  <2>5. worker' = [worker EXCEPT ![p] = w]
    BY <1>5 DEF Claim
  <2>6. ConsumersOK'
    <3> HIDE DEF w
    <3> QED
      BY <1>1, <2>4, <2>5, OneConsumer
  <2>7. job'[x].status # "absent"
    <3>1. job'[x] = row
      BY <1>1, <2>2 DEF RowsOK
    <3> QED
      BY <2>1, <3>1
  <2>8. HeldRowsExist'
    <3> HIDE DEF w, row
    <3>1. ASSUME NEW q \in Processes, Works(q)' PROVE job'[worker'[q].post].status # "absent"
      <4>1. CASE q = p
        BY <1>1, <2>4, <2>5, <2>7, <4>1 DEF ConsumersOK
      <4>2. CASE q # p
        <5>1. worker'[q] = worker[q]
          BY <1>1, <2>5, <4>2 DEF ConsumersOK
        <5> QED
          BY <1>1, <2>3, <3>1, <5>1 DEF ConsumersOK, HeldRowsExist, Works
      <4> QED
        BY <4>1, <4>2
    <3> QED
      BY <3>1 DEF HeldRowsExist
  <2> QED
    BY <1>2, <1>3, <2>3, <2>6, <2>8, PartsNext
<1>6. CASE RefuseExhausted(p, x, d)
  <2> DEFINE row == Transition(job[x], "failed")
  <2>1. row \in Rows /\ row.status = "failed" /\ row.digest = d
    BY <1>4, <1>6, TransitionType, StatusNames DEF RefuseExhausted
  <2>2. job' = [job EXCEPT ![x] = row] /\ worker' = worker
    BY <1>6 DEF RefuseExhausted
  <2>3. RowsOK' /\ \A y \in Posts : job[y].status # "absent" => job'[y].status # "absent"
    <3> HIDE DEF row
    <3> QED
      BY <1>1, <2>1, <2>2, OneRow
  <2>4. ConsumersOK' /\ HeldRowsExist'
    BY <1>1, <2>2, <2>3 DEF ConsumersOK, HeldRowsExist, Works
  <2> QED
    BY <1>2, <1>3, <2>3, <2>4, PartsNext
<1>7. CASE IgnoreWakeup(p, x, d)
  <2>1. RowsOK' /\ ConsumersOK' /\ HeldRowsExist'
    BY <1>1, <1>7 DEF IgnoreWakeup, RowsOK, RowsHaveDigests, ConsumersOK, HeldRowsExist, Works
  <2> QED
    BY <1>2, <1>3, <2>1, PartsNext
<1> QED
  BY <1>5, <1>6, <1>7

\* A consumer that goes on with its job, or drops it, takes no other row.
LEMMA GotoType ==
    ASSUME ConsumersOK, NEW p \in Processes, Works(p), NEW pc \in Working, Goto(p, pc)
    PROVE  /\ ConsumersOK'
           /\ \A q \in Processes : Works(q)' => Works(q) /\ worker'[q].post = worker[q].post
<1> DEFINE w == [worker[p] EXCEPT !.pc = pc]
<1>1. worker[p] \in Consumers /\ worker[p].post \in Posts
  BY DEF ConsumersOK
<1>2. w \in Consumers /\ w.post = worker[p].post /\ w.pc = pc
  BY <1>1 DEF Consumers
<1>3. worker' = [worker EXCEPT ![p] = w]
  BY DEF Goto
<1> HIDE DEF w
<1>4. ConsumersOK'
  BY <1>1, <1>2, <1>3, OneConsumer
<1>5. ASSUME NEW q \in Processes, Works(q)' PROVE Works(q) /\ worker'[q].post = worker[q].post
  BY <1>2, <1>3, <1>5 DEF ConsumersOK, Works
<1> QED
  BY <1>4, <1>5

LEMMA DropType ==
    ASSUME ConsumersOK, NEW p \in Processes, NEW pc \in {"down", "dead", "idle"},
           worker' = [worker EXCEPT ![p] = Consumer(pc)]
    PROVE  /\ ConsumersOK'
           /\ \A q \in Processes : Works(q)' => Works(q) /\ worker'[q].post = worker[q].post
<1>1. Consumer(pc) \in Consumers /\ Consumer(pc).pc \notin Working
  BY IdleConsumers
<1>2. ConsumersOK'
  BY <1>1, OneConsumer
<1>3. ASSUME NEW q \in Processes, Works(q)' PROVE Works(q) /\ worker'[q].post = worker[q].post
  BY <1>1, <1>3 DEF ConsumersOK, Works
<1> QED
  BY <1>2, <1>3

LEMMA OneEvidence ==
    ASSUME SourcesOK, NEW x \in Posts, NEW b \in Bodies \cup {None}, NEW complete \in BOOLEAN
    PROVE  /\ [evidence EXCEPT ![x] = [@ EXCEPT !.units = b, !.complete = complete]]
                  \in [Posts -> Evidence]
           /\ [evidence EXCEPT ![x] = [@ EXCEPT !.cases = b]] \in [Posts -> Evidence]
           /\ [evidence EXCEPT ![x] = [@ EXCEPT !.constructs = b]] \in [Posts -> Evidence]
<1>1. evidence[x] \in Evidence
  BY DEF SourcesOK
<1>2. /\ [evidence[x] EXCEPT !.units = b, !.complete = complete] \in Evidence
      /\ [evidence[x] EXCEPT !.cases = b] \in Evidence
      /\ [evidence[x] EXCEPT !.constructs = b] \in Evidence
  BY <1>1 DEF Evidence
<1> QED
  BY <1>2 DEF SourcesOK

\* The persisting steps of a job.
LEMMA TypePersist ==
    ASSUME TypeInv, NEW p \in Processes,
           PersistContent(p) \/ PersistCases(p) \/ PersistConstructs(p)
           \/ CheckComplete(p) \/ AttemptFails(p)
    PROVE  TypeInv'
<1>1. RowsOK /\ ConsumersOK /\ WakeupsOK /\ RequestsOK /\ CountersOK /\ SourcesOK /\ HeldRowsExist
  BY Parts
<1>2. Works(p)
  BY DEF PersistContent, PersistCases, PersistConstructs, CheckComplete, AttemptFails, Works, Working
<1>3. worker[p] \in Consumers /\ worker[p].post \in Posts
  BY <1>1, <1>2 DEF ConsumersOK
<1>4. worker[p].body \in Bodies \cup {None} /\ worker[p].digest \in Bodies \cup {None}
  BY <1>3 DEF Consumers
<1>5. PICK pc \in Working : Goto(p, pc)
  BY DEF PersistContent, PersistCases, PersistConstructs, CheckComplete, AttemptFails, Working
<1>6. ConsumersOK' /\ \A q \in Processes : Works(q)' => Works(q) /\ worker'[q].post = worker[q].post
  BY <1>1, <1>2, <1>5, GotoType
<1>7. UNCHANGED <<body, job, inbox, batch, client, edits, faults, deaths>>
  BY DEF PersistContent, PersistCases, PersistConstructs, CheckComplete, AttemptFails
<1>8. RowsOK' /\ WakeupsOK' /\ RequestsOK'
  BY <1>1, <1>7 DEF RowsOK, RowsHaveDigests, WakeupsOK, RequestsOK
<1>9. HeldRowsExist'
  BY <1>1, <1>6, <1>7, HeldRowsStay
<1>10. misses' \in 0 .. MaxMisses
  <2>1. UNCHANGED misses \/ Miss
    BY DEF PersistContent, PersistCases, PersistConstructs, CheckComplete, AttemptFails
  <2> QED
    BY <1>1, <2>1, LimitAssumption DEF Miss, CountersOK
<1>11. CountersOK'
  BY <1>1, <1>7, <1>10 DEF CountersOK
<1>12. evidence' \in [Posts -> Evidence]
  <2>1. CASE PersistContent(p)
    <3>1. PICK complete \in BOOLEAN :
            evidence' = [evidence EXCEPT ![worker[p].post] =
                            [@ EXCEPT !.units = worker[p].body, !.complete = complete]]
      BY <2>1 DEF PersistContent
    <3> QED
      BY <1>1, <1>3, <1>4, <3>1, OneEvidence
  <2>2. CASE PersistCases(p)
    BY <1>1, <1>3, <1>4, <2>2, OneEvidence DEF PersistCases
  <2>3. CASE PersistConstructs(p)
    BY <1>1, <1>3, <1>4, <2>3, OneEvidence DEF PersistConstructs
  <2>4. CASE CheckComplete(p) \/ AttemptFails(p)
    BY <1>1, <2>4 DEF CheckComplete, AttemptFails, SourcesOK
  <2> QED
    BY <2>1, <2>2, <2>3, <2>4
<1>13. SourcesOK'
  BY <1>1, <1>7, <1>12 DEF SourcesOK
<1> QED
  BY <1>6, <1>8, <1>9, <1>11, <1>13, PartsNext

\* The rows that the finishing steps leave.
LEMMA FinishedRow ==
    ASSUME TypeInv, NEW p \in Processes, Works(p), NEW status \in Statuses \ {"absent"},
           job' = [job EXCEPT ![worker[p].post] = Transition(@, status)]
    PROVE  RowsOK' /\ \A y \in Posts : job[y].status # "absent" => job'[y].status # "absent"
<1> DEFINE x == worker[p].post
           row == Transition(job[x], status)
<1>1. RowsOK /\ x \in Posts /\ job[x].status # "absent"
  BY Parts DEF ConsumersOK, HeldRowsExist
<1>2. job[x] \in Rows /\ job[x].digest \in Bodies
  BY <1>1 DEF RowsOK, RowsHaveDigests
<1>3. row \in Rows /\ row.status = status /\ row.digest = job[x].digest
  BY <1>2, TransitionType
<1>4. job' = [job EXCEPT ![x] = row]
  OBVIOUS
<1> HIDE DEF row, x
<1> QED
  BY <1>1, <1>2, <1>3, <1>4, OneRow

\* The finishing steps of a job.
LEMMA TypeFinish ==
    ASSUME TypeInv, NEW p \in Processes,
           FinishSucceeded(p) \/ FinishBlank(p) \/ FinishFailed(p) \/ FinishRaises(p)
    PROVE  TypeInv'
<1>1. RowsOK /\ ConsumersOK /\ WakeupsOK /\ RequestsOK /\ CountersOK /\ SourcesOK /\ HeldRowsExist
  BY Parts
<1>2. Works(p)
  BY DEF FinishSucceeded, FinishBlank, FinishFailed, FinishRaises, Works, Working
<1>3. PICK pc \in {"down", "dead", "idle"} : worker' = [worker EXCEPT ![p] = Consumer(pc)]
  BY DEF FinishSucceeded, FinishBlank, FinishFailed, FinishRaises, Finish
<1>4. ConsumersOK' /\ \A q \in Processes : Works(q)' => Works(q) /\ worker'[q].post = worker[q].post
  BY <1>1, <1>3, DropType
<1>5. RowsOK' /\ \A y \in Posts : job[y].status # "absent" => job'[y].status # "absent"
  <2>1. CASE job' = job
    BY <1>1, <2>1 DEF RowsOK, RowsHaveDigests
  <2>2. CASE \E status \in Statuses \ {"absent"} :
               job' = [job EXCEPT ![worker[p].post] = Transition(@, status)]
    BY <1>2, <2>2, FinishedRow
  <2>3. CASE FinishSucceeded(p) \/ FinishBlank(p)
    BY <2>1, <2>2, <2>3 DEF FinishSucceeded, FinishBlank, Finish, Statuses
  <2>4. CASE FinishFailed(p)
    BY <2>1, <2>2, <2>4 DEF FinishFailed, AfterFailure, Statuses
  <2>5. CASE FinishRaises(p)
    BY <2>1, <2>5 DEF FinishRaises
  <2> QED
    BY <2>3, <2>4, <2>5
<1>6. HeldRowsExist'
  BY <1>1, <1>4, <1>5, HeldRowsStay
<1>7. UNCHANGED <<body, evidence, client, edits, misses>>
  BY DEF FinishSucceeded, FinishBlank, FinishFailed, FinishRaises, Finish
<1>8. SourcesOK' /\ RequestsOK'
  BY <1>1, <1>7 DEF SourcesOK, RequestsOK
<1>9. CountersOK'
  BY <1>1, <1>7, LimitAssumption
     DEF CountersOK, FinishSucceeded, FinishBlank, FinishFailed, FinishRaises, Finish, Fault, Death
<1>10. WakeupsOK'
  BY <1>1 DEF WakeupsOK, FinishSucceeded, FinishBlank, FinishFailed, FinishRaises, Finish
<1> QED
  BY <1>4, <1>5, <1>6, <1>8, <1>9, <1>10, PartsNext

\* What a request has read, and what it does next.
LEMMA RequestTypes ==
    ASSUME TypeInv, NEW c \in Clients, client[c].pc # "idle"
    PROVE  /\ client[c].post \in Posts /\ client[c].body \in Bodies
           /\ \A pc \in {"act", "record", "publish"} :
                LET r == [client[c] EXCEPT !.pc = pc]
                IN  r \in Requests /\ r.post = client[c].post /\ r.body = client[c].body
<1>1. client[c] \in Requests
  BY DEF TypeInv, TypeOK
<1> QED
  BY <1>1 DEF TypeInv, TypeOK, Requests

\* A request that goes on, or ends.
LEMMA RequestProceeds ==
    ASSUME TypeInv, NEW c \in Clients, client[c].pc # "idle",
           \/ client' = [client EXCEPT ![c] = NoRequest]
           \/ \E pc \in {"act", "record", "publish"} : client' = [client EXCEPT ![c].pc = pc]
    PROVE  RequestsOK'
<1>1. RequestsOK
  BY Parts
<1>2. CASE client' = [client EXCEPT ![c] = NoRequest]
  BY <1>1, <1>2, NoRequestType, OneRequest
<1>3. CASE \E pc \in {"act", "record", "publish"} : client' = [client EXCEPT ![c].pc = pc]
  <2>1. PICK pc \in {"act", "record", "publish"} : client' = [client EXCEPT ![c].pc = pc]
    BY <1>3
  <2> DEFINE r == [client[c] EXCEPT !.pc = pc]
  <2>2. r \in Requests /\ r.post \in Posts /\ r.body \in Bodies
    BY RequestTypes
  <2>3. client' = [client EXCEPT ![c] = r]
    BY <2>1
  <2> HIDE DEF r
  <2> QED
    BY <1>1, <2>2, <2>3, OneRequest
<1> QED
  BY <1>2, <1>3

\* The row that a content request leaves.
LEMMA EnsuredType ==
    ASSUME NEW row \in Rows, NEW digest \in Bodies, NEW complete \in BOOLEAN,
           row.status # "absent" => row.digest \in Bodies
    PROVE  LET r == Ensured(row, digest, complete)
           IN  r \in Rows /\ r.status # "absent" /\ r.digest \in Bodies
<1>1. CASE row.status = "absent"
  <2> DEFINE r == [NoRow EXCEPT !.status = IF complete THEN "succeeded" ELSE "queued",
                                !.digest = digest]
  <2>1. r \in Rows /\ r.status # "absent" /\ r.digest = digest
    BY DEF NoRow, Rows, Statuses
  <2>2. Ensured(row, digest, complete) = r
    BY <1>1 DEF Ensured
  <2> HIDE DEF r
  <2> QED
    BY <2>1, <2>2
<1>2. CASE row.status # "absent" /\ NeedsRequeue(row, digest, complete)
  BY <1>2, ResetType DEF Ensured
<1>3. CASE row.status # "absent" /\ ~NeedsRequeue(row, digest, complete)
  BY <1>3 DEF Ensured
<1> QED
  BY <1>1, <1>2, <1>3

\* The steps of requests and scripts that write a row.
LEMMA TypeRowRequest ==
    ASSUME TypeInv, NEW c \in Clients, Ensure(c) \/ Requeue(c) \/ RecordBackfill(c)
    PROVE  TypeInv'
<1> DEFINE x == client[c].post
<1>1. RowsOK /\ ConsumersOK /\ WakeupsOK /\ RequestsOK /\ CountersOK /\ SourcesOK /\ HeldRowsExist
  BY Parts
<1>2. client[c].pc # "idle"
  BY DEF Ensure, Requeue, RecordBackfill
<1>3. x \in Posts /\ client[c].body \in Bodies /\ client[c] \in Requests
  BY <1>1, <1>2 DEF RequestsOK
<1>4. client[c].complete \in BOOLEAN
  BY <1>3 DEF Requests
<1>5. job[x] \in Rows /\ (job[x].status # "absent" => job[x].digest \in Bodies)
  BY <1>1, <1>3 DEF RowsOK, RowsHaveDigests
<1>6. RequestsOK'
  BY <1>2, RequestProceeds DEF Ensure, Requeue, RecordBackfill, Proceed
<1>7. UNCHANGED <<body, evidence, worker, inbox, batch, edits, misses, faults, deaths>>
  BY DEF Ensure, Requeue, RecordBackfill
<1>8. CASE job' = job
  <2>1. RowsOK' /\ HeldRowsExist'
    BY <1>1, <1>7, <1>8 DEF RowsOK, RowsHaveDigests, HeldRowsExist, Works
  <2>2. ConsumersOK' /\ WakeupsOK' /\ CountersOK' /\ SourcesOK'
    BY <1>1, <1>7 DEF ConsumersOK, Works, WakeupsOK, CountersOK, SourcesOK
  <2> QED
    BY <1>6, <2>1, <2>2, PartsNext
<1>9. ASSUME NEW row \in Rows, row.status # "absent", row.digest \in Bodies,
             job' = [job EXCEPT ![x] = row]
      PROVE  TypeInv'
  <2>1. RowsOK' /\ \A y \in Posts : job[y].status # "absent" => job'[y].status # "absent"
    BY <1>1, <1>3, <1>9, OneRow
  <2>2. HeldRowsExist'
    BY <1>1, <1>7, <2>1 DEF HeldRowsExist, ConsumersOK, Works
  <2>3. ConsumersOK' /\ WakeupsOK' /\ CountersOK' /\ SourcesOK'
    BY <1>1, <1>7 DEF ConsumersOK, Works, WakeupsOK, CountersOK, SourcesOK
  <2> QED
    BY <1>6, <2>1, <2>2, <2>3, PartsNext
<1>10. CASE Ensure(c)
  <2>1. job' = [job EXCEPT ![x] = Ensured(job[x], client[c].body, client[c].complete)]
    BY <1>10 DEF Ensure
  <2>2. LET r == Ensured(job[x], client[c].body, client[c].complete)
        IN  r \in Rows /\ r.status # "absent" /\ r.digest \in Bodies
    BY <1>3, <1>4, <1>5, EnsuredType
  <2> QED
    BY <1>9, <2>1, <2>2
<1>11. CASE Requeue(c)
  <2>1. CASE job[x].status = "failed"
    <3>1. job' = [job EXCEPT ![x] = Reset(job[x], client[c].body)]
      BY <1>11, <2>1 DEF Requeue
    <3>2. /\ Reset(job[x], client[c].body) \in Rows
          /\ Reset(job[x], client[c].body).status = "queued"
          /\ Reset(job[x], client[c].body).digest = client[c].body
      BY <1>3, <1>5, ResetType
    <3> QED
      BY <1>3, <1>9, <3>1, <3>2
  <2>2. CASE job[x].status # "failed"
    <3>1. job' = job
      BY <1>1, <1>11, <2>2 DEF Requeue, RowsOK
    <3> QED
      BY <1>8, <3>1
  <2> QED
    BY <2>1, <2>2
<1>12. CASE RecordBackfill(c)
  <2>1. CASE job[x].status \in Active
    <3>1. job' = job
      BY <1>12, <2>1 DEF RecordBackfill
    <3> QED
      BY <1>8, <3>1
  <2>2. CASE job[x].status \notin Active
    <3> DEFINE row == [job[x] EXCEPT !.status = "succeeded", !.digest = client[c].body]
    <3>1. row \in Rows /\ row.status = "succeeded" /\ row.digest = client[c].body
      BY <1>3, <1>5, BackfilledType
    <3>2. job' = [job EXCEPT ![x] = row]
      BY <1>12, <2>2 DEF RecordBackfill
    <3> HIDE DEF row
    <3> QED
      BY <1>3, <1>9, <3>1, <3>2
  <2> QED
    BY <2>1, <2>2
<1> QED
  BY <1>10, <1>11, <1>12

\* The steps of requests and scripts that write no row.
LEMMA TypeOtherRequest ==
    ASSUME TypeInv, NEW c \in Clients, PersistDirectly(c) \/ Publish(c) \/ Abandon(c)
    PROVE  TypeInv'
<1>1. RowsOK /\ ConsumersOK /\ WakeupsOK /\ RequestsOK /\ CountersOK /\ SourcesOK /\ HeldRowsExist
  BY Parts
<1>2. client[c].pc # "idle"
  BY DEF PersistDirectly, Publish, Abandon
<1>3. client[c].post \in Posts /\ client[c].body \in Bodies
  BY <1>2, RequestTypes
<1>4. RequestsOK'
  BY <1>2, RequestProceeds DEF PersistDirectly, Publish, Abandon
<1>5. UNCHANGED <<body, job, worker, batch, edits, misses, deaths>>
  BY DEF PersistDirectly, Publish, Abandon
<1>6. RowsOK' /\ ConsumersOK' /\ HeldRowsExist'
  BY <1>1, <1>5 DEF RowsOK, RowsHaveDigests, ConsumersOK, HeldRowsExist, Works
<1>7. evidence' \in [Posts -> Evidence]
  <2>1. CASE PersistDirectly(c)
    <3>1. PICK complete \in BOOLEAN :
            evidence' = [evidence EXCEPT ![client[c].post] =
                            [@ EXCEPT !.units = client[c].body, !.complete = complete]]
      BY <2>1 DEF PersistDirectly
    <3> QED
      BY <1>1, <1>3, <3>1, OneEvidence
  <2>2. CASE Publish(c) \/ Abandon(c)
    BY <1>1, <2>2 DEF Publish, Abandon, SourcesOK
  <2> QED
    BY <2>1, <2>2
<1>8. inbox' \in [Processes -> SUBSET (Posts \X Bodies)]
  <2>1. CASE UNCHANGED inbox
    BY <1>1, <2>1 DEF WakeupsOK
  <2>2. CASE Wake({<<client[c].post, client[c].body>>})
    BY <1>1, <1>3, <2>2, WakeTypes
  <2> QED
    BY <2>1, <2>2 DEF PersistDirectly, Publish, Abandon
<1>9. faults' \in 0 .. MaxFaults
  <2>1. UNCHANGED faults \/ Fault
    BY DEF PersistDirectly, Publish, Abandon
  <2> QED
    BY <1>1, <2>1, LimitAssumption DEF Fault, CountersOK
<1>10. SourcesOK' /\ WakeupsOK' /\ CountersOK'
  BY <1>1, <1>5, <1>7, <1>8, <1>9 DEF SourcesOK, WakeupsOK, CountersOK
<1> QED
  BY <1>4, <1>6, <1>10, PartsNext

\* The reads of requests and scripts, and the import of a body.
LEMMA TypeLook ==
    ASSUME TypeInv, NEW c \in Clients, NEW x \in Posts, Look(c, x) \/ Edit(c, x)
    PROVE  TypeInv'
<1>1. RowsOK /\ ConsumersOK /\ WakeupsOK /\ RequestsOK /\ CountersOK /\ SourcesOK /\ HeldRowsExist
  BY Parts
<1>2. UNCHANGED <<job, evidence, worker, inbox, batch, misses, faults, deaths>>
  BY DEF Look, Edit
<1>3. RowsOK' /\ ConsumersOK' /\ HeldRowsExist' /\ WakeupsOK'
  BY <1>1, <1>2 DEF RowsOK, RowsHaveDigests, ConsumersOK, HeldRowsExist, Works, WakeupsOK
<1>4. CASE Look(c, x)
  <2>1. PICK kind \in ClientKinds :
          client' = [client EXCEPT ![c] =
                        [pc |-> "act", kind |-> kind, post |-> x, body |-> body[x],
                         complete |-> evidence[x].complete]]
    BY <1>4 DEF Look
  <2> DEFINE r == [pc |-> "act", kind |-> kind, post |-> x, body |-> body[x],
                   complete |-> evidence[x].complete]
  <2>2. evidence[x].complete \in BOOLEAN /\ body[x] \in Bodies
    BY <1>1 DEF SourcesOK, Evidence
  <2>3. r \in Requests /\ r.post \in Posts /\ r.body \in Bodies
    BY <2>2 DEF Requests
  <2>4. client' = [client EXCEPT ![c] = r]
    BY <2>1
  <2> HIDE DEF r
  <2>5. RequestsOK'
    BY <1>1, <2>3, <2>4, OneRequest
  <2>6. SourcesOK' /\ CountersOK'
    BY <1>1, <1>4 DEF Look, SourcesOK, CountersOK
  <2> QED
    BY <1>3, <2>5, <2>6, PartsNext
<1>5. CASE Edit(c, x)
  <2>1. PICK b \in Bodies :
          /\ body' = [body EXCEPT ![x] = b]
          /\ client' = [client EXCEPT ![c] = [NoRequest EXCEPT !.pc = "act", !.kind = "import",
                                                               !.post = x, !.body = b]]
    BY <1>5 DEF Edit
  <2> DEFINE r == [NoRequest EXCEPT !.pc = "act", !.kind = "import", !.post = x, !.body = b]
  <2>2. r \in Requests /\ r.post = x /\ r.body = b
    BY <1>5 DEF NoRequest, Requests, Edit
  <2>3. client' = [client EXCEPT ![c] = r]
    BY <2>1
  <2> HIDE DEF r
  <2>4. RequestsOK'
    BY <1>1, <2>2, <2>3, OneRequest
  <2>5. edits' \in 0 .. MaxEdits
    <3>1. edits < MaxEdits /\ edits' = edits + 1
      BY <1>5 DEF Edit
    <3> QED
      BY <1>1, <3>1, LimitAssumption DEF CountersOK
  <2>6. SourcesOK' /\ CountersOK'
    BY <1>1, <1>2, <2>1, <2>5 DEF SourcesOK, CountersOK
  <2> QED
    BY <1>3, <2>4, <2>6, PartsNext
<1> QED
  BY <1>4, <1>5

\* Time passes for a row.
LEMMA TypeTime ==
    ASSUME TypeInv, NEW x \in Posts, RetryComesDue(x) \/ LeaseExpires(x)
    PROVE  TypeInv'
<1>1. RowsOK /\ ConsumersOK /\ WakeupsOK /\ RequestsOK /\ CountersOK /\ SourcesOK /\ HeldRowsExist
  BY Parts
<1>2. job[x] \in Rows /\ job[x].status # "absent" /\ job[x].digest \in Bodies
  BY <1>1 DEF RowsOK, RowsHaveDigests, RetryComesDue, LeaseExpires
<1>3. PICK row \in {[job[x] EXCEPT !.due = TRUE], [job[x] EXCEPT !.stale = TRUE]} :
        job' = [job EXCEPT ![x] = row]
  BY DEF RetryComesDue, LeaseExpires
<1>4. row \in Rows /\ row.status = job[x].status /\ row.digest = job[x].digest
  BY <1>2, TimedType
<1>5. RowsOK' /\ \A y \in Posts : job[y].status # "absent" => job'[y].status # "absent"
  BY <1>1, <1>2, <1>3, <1>4, OneRow
<1>6. UNCHANGED <<body, evidence, worker, inbox, batch, client, edits, misses, faults, deaths>>
  BY DEF RetryComesDue, LeaseExpires
<1>7. HeldRowsExist'
  BY <1>1, <1>5, <1>6 DEF HeldRowsExist, ConsumersOK, Works
<1>8. ConsumersOK' /\ WakeupsOK' /\ RequestsOK' /\ CountersOK' /\ SourcesOK'
  BY <1>1, <1>6 DEF ConsumersOK, Works, WakeupsOK, RequestsOK, CountersOK, SourcesOK
<1> QED
  BY <1>5, <1>7, <1>8, PartsNext

\* A consumer starts, stops or ends.
LEMMA TypeProcess ==
    ASSUME TypeInv, NEW p \in Processes, Start(p) \/ Crash(p) \/ Dies(p)
    PROVE  TypeInv'
<1>1. RowsOK /\ ConsumersOK /\ WakeupsOK /\ RequestsOK /\ CountersOK /\ SourcesOK /\ HeldRowsExist
  BY Parts
<1>2. PICK pc \in {"down", "dead", "idle"} : worker' = [worker EXCEPT ![p] = Consumer(pc)]
  BY DEF Start, Crash, Dies
<1>3. ConsumersOK' /\ \A q \in Processes : Works(q)' => Works(q) /\ worker'[q].post = worker[q].post
  BY <1>1, <1>2, DropType
<1>4. UNCHANGED <<body, job, evidence, client, edits, misses>>
  BY DEF Start, Crash, Dies
<1>5. HeldRowsExist'
  BY <1>1, <1>3, <1>4, HeldRowsStay
<1>6. RowsOK' /\ RequestsOK' /\ SourcesOK'
  BY <1>1, <1>4 DEF RowsOK, RowsHaveDigests, RequestsOK, SourcesOK
<1>7. WakeupsOK'
  BY <1>1 DEF Start, Crash, Dies, WakeupsOK
<1>8. faults' \in 0 .. MaxFaults /\ deaths' \in 0 .. MaxDeaths
  <2>1. (UNCHANGED faults \/ Fault) /\ (UNCHANGED deaths \/ Death)
    BY DEF Start, Crash, Dies
  <2> QED
    BY <1>1, <2>1, LimitAssumption DEF Fault, Death, CountersOK
<1>9. CountersOK'
  BY <1>1, <1>4, <1>8 DEF CountersOK
<1> QED
  BY <1>3, <1>5, <1>6, <1>7, <1>9, PartsNext

LEMMA TypeNext == TypeInv /\ [Next]_vars => TypeInv'
<1> SUFFICES ASSUME TypeInv, [Next]_vars PROVE TypeInv'
  OBVIOUS
<1>1. ASSUME NEW p \in Processes, Republish(p) PROVE TypeInv'
  BY <1>1, TypeRepublish
<1>2. ASSUME NEW p \in Processes, TakeStep(p) PROVE TypeInv'
  BY <1>2, TypeTake DEF TakeStep
<1>3. ASSUME NEW p \in Processes, WorkStep(p) PROVE TypeInv'
  BY <1>3, TypePersist, TypeFinish DEF WorkStep
<1>4. ASSUME NEW p \in Processes, Start(p) \/ Crash(p) \/ Dies(p) PROVE TypeInv'
  BY <1>4, TypeProcess
<1>5. ASSUME NEW c \in Clients, ClientStep(c) \/ Abandon(c) PROVE TypeInv'
  BY <1>5, TypeRowRequest, TypeOtherRequest DEF ClientStep
<1>6. ASSUME NEW c \in Clients, NEW x \in Posts, Look(c, x) \/ Edit(c, x) PROVE TypeInv'
  BY <1>6, TypeLook
<1>7. ASSUME NEW x \in Posts, RetryComesDue(x) \/ LeaseExpires(x) PROVE TypeInv'
  BY <1>7, TypeTime
<1>8. CASE UNCHANGED vars
  BY <1>8 DEF vars, TypeInv, TypeOK, RowsHaveDigests, HeldRowsExist, Works
<1> QED
  BY <1>1, <1>2, <1>3, <1>4, <1>5, <1>6, <1>7, <1>8 DEF Next

\* Every variable keeps its type, whatever requests, consumers and failures interleave.
THEOREM TypeCorrectness == Spec => []TypeOK
<1>1. TypeInv => TypeOK
  BY DEF TypeInv
<1> QED
  BY <1>1, TypeInit, TypeNext, PTL DEF Spec

LEMMA TypeInvHolds == Spec => []TypeInv
BY TypeInit, TypeNext, PTL DEF Spec

-----------------------------------------------------------------------------
(* What a step may do to a row.  Every theorem below about rows follows from    *)
(* this summary, so no other proof has to look at the single operations.        *)

SameBudget(x) == job'[x].attempts = job[x].attempts /\ job'[x].budget = job[x].budget

RowChange(x) ==
    \/ job'[x] = job[x]
    \/ /\ job[x].status # "failed" /\ job'[x].status = "running"
       /\ job'[x].attempts = job[x].attempts + 1 /\ job'[x].budget = job[x].budget
    \/ SameBudget(x) /\ Exhausted(x) /\ job'[x].status = "failed"
    \/ /\ SameBudget(x) /\ job'[x].status = "failed"
       /\ \E p \in Processes : worker[p].pc = "blank"
    \/ SameBudget(x) /\ job'[x].status = "succeeded"
    \/ /\ SameBudget(x) /\ job[x].status = "running"
       /\ job'[x].status = AfterFailure(job[x].attempts)
    \/ SameBudget(x) /\ job'[x].status = job[x].status
    \/ job[x].status = "absent" /\ job'[x].status \in {"queued", "succeeded"}
    \/ job'[x].status = "queued" /\ job'[x].budget = job[x].budget + 1

\* Only one row changes in a step.
LEMMA OtherRows ==
    ASSUME TypeInv, NEW x \in Posts, NEW y \in Posts, NEW row, job' = [job EXCEPT ![x] = row]
    PROVE  job'[y] = IF y = x THEN row ELSE job[y]
BY DEF TypeInv, TypeOK

LEMMA TakeChanges ==
    ASSUME TypeInv, NEW y \in Posts, NEW p \in Processes, TakeStep(p)
    PROVE  RowChange(y)
<1>1. PICK x \in Posts, d \in Bodies : Claim(p, x, d) \/ RefuseExhausted(p, x, d) \/ IgnoreWakeup(p, x, d)
  BY DEF TakeStep
<1>2. job[x] \in Rows
  BY DEF TypeInv, TypeOK
<1>3. CASE Claim(p, x, d)
  <2> DEFINE r == [job[x] EXCEPT !.attempts = NextAttempt(job[x])]
  <2>1. r \in Rows /\ r.attempts = job[x].attempts + 1 /\ r.budget = job[x].budget
    BY <1>2, ClaimedType
  <2>2. job' = [job EXCEPT ![x] = Transition(r, "running")] /\ job[x].status # "failed"
    BY <1>3 DEF Claim, Claimable
  <2> HIDE DEF r
  <2>3. /\ Transition(r, "running").status = "running"
        /\ Transition(r, "running").attempts = r.attempts
        /\ Transition(r, "running").budget = r.budget
    BY <2>1, TransitionType, StatusNames
  <2> QED
    BY <2>1, <2>2, <2>3, OtherRows DEF RowChange
<1>4. CASE RefuseExhausted(p, x, d)
  <2>1. job' = [job EXCEPT ![x] = Transition(job[x], "failed")] /\ Exhausted(x)
    BY <1>4 DEF RefuseExhausted
  <2>2. /\ Transition(job[x], "failed").status = "failed"
        /\ Transition(job[x], "failed").attempts = job[x].attempts
        /\ Transition(job[x], "failed").budget = job[x].budget
    BY <1>2, TransitionType, StatusNames
  <2> QED
    BY <2>1, <2>2, OtherRows DEF RowChange, SameBudget
<1>5. CASE IgnoreWakeup(p, x, d)
  BY <1>5 DEF IgnoreWakeup, RowChange
<1> QED
  BY <1>1, <1>3, <1>4, <1>5

LEMMA WorkChanges ==
    ASSUME TypeInv, NEW y \in Posts, NEW p \in Processes, WorkStep(p)
    PROVE  RowChange(y)
<1> DEFINE x == worker[p].post
<1>1. Works(p) => x \in Posts /\ job[x] \in Rows
  BY DEF TypeInv, TypeOK
<1>2. CASE job' = job
  BY <1>2 DEF RowChange
<1>3. ASSUME NEW s \in Statuses, Works(p), job' = [job EXCEPT ![x] = Transition(@, s)]
      PROVE  y = x => job'[x].status = s /\ SameBudget(x)
  <2>1. /\ Transition(job[x], s).status = s
        /\ Transition(job[x], s).attempts = job[x].attempts
        /\ Transition(job[x], s).budget = job[x].budget
    BY <1>1, <1>3, TransitionType
  <2>2. job' = [job EXCEPT ![x] = Transition(job[x], s)]
    BY <1>3
  <2> QED
    BY <1>1, <1>3, <2>1, <2>2, OtherRows DEF SameBudget
<1>4. ASSUME NEW s \in Statuses, Works(p), job' = [job EXCEPT ![x] = Transition(@, s)], y # x
      PROVE  RowChange(y)
  <2>1. job'[y] = job[y]
    BY <1>1, <1>4, OtherRows
  <2> QED
    BY <2>1 DEF RowChange
<1>5. CASE FinishSucceeded(p)
  <2>1. Works(p)
    BY <1>5 DEF FinishSucceeded, Works, Working
  <2>2. job' = job \/ job' = [job EXCEPT ![x] = Transition(@, "succeeded")]
    BY <1>5 DEF FinishSucceeded, Finish
  <2> QED
    BY <1>2, <1>3, <1>4, <2>1, <2>2, StatusNames DEF RowChange
<1>6. CASE FinishBlank(p)
  <2>1. Works(p) /\ worker[p].pc = "blank"
    BY <1>6 DEF FinishBlank, Works, Working
  <2>2. job' = job \/ job' = [job EXCEPT ![x] = Transition(@, "failed")]
    BY <1>6 DEF FinishBlank, Finish
  <2> QED
    BY <1>2, <1>3, <1>4, <2>1, <2>2, StatusNames DEF RowChange
<1>7. CASE FinishFailed(p)
  <2>1. Works(p)
    BY <1>7 DEF FinishFailed, Works, Working
  <2> DEFINE s == AfterFailure(worker[p].attempt)
  <2>2. s \in Statuses
    BY StatusNames DEF AfterFailure
  <2>3. \/ job' = job
        \/ /\ job[x].status = "running" /\ job[x].attempts = worker[p].attempt
           /\ job' = [job EXCEPT ![x] = Transition(@, s)]
    BY <1>7 DEF FinishFailed
  <2>4. CASE y = x
    <3>1. s = AfterFailure(job[x].attempts) \/ job' = job
      BY <2>3
    <3> HIDE DEF s
    <3> QED
      BY <1>2, <1>3, <2>1, <2>2, <2>3, <2>4, <3>1 DEF RowChange
  <2>5. CASE y # x
    <3> HIDE DEF s
    <3> QED
      BY <1>2, <1>4, <2>1, <2>2, <2>3, <2>5
  <2> QED
    BY <2>4, <2>5
<1>8. CASE \/ PersistContent(p) \/ PersistCases(p) \/ PersistConstructs(p)
           \/ CheckComplete(p) \/ AttemptFails(p) \/ FinishRaises(p)
  BY <1>2, <1>8
     DEF PersistContent, PersistCases, PersistConstructs, CheckComplete, AttemptFails, FinishRaises
<1> QED
  BY <1>5, <1>6, <1>7, <1>8 DEF WorkStep

LEMMA ClientChanges ==
    ASSUME TypeInv, NEW y \in Posts, NEW c \in Clients, ClientStep(c)
    PROVE  RowChange(y)
<1> DEFINE x == client[c].post
<1>1. CASE job' = job
  BY <1>1 DEF RowChange
<1>2. CASE PersistDirectly(c) \/ Publish(c)
  BY <1>1, <1>2 DEF PersistDirectly, Publish
<1>3. client[c].pc # "idle" => x \in Posts /\ client[c].body \in Bodies /\ job[x] \in Rows
  BY DEF TypeInv, TypeOK
<1>4. CASE Ensure(c)
  <2>1. job' = [job EXCEPT ![x] = Ensured(job[x], client[c].body, client[c].complete)]
    BY <1>4 DEF Ensure
  <2>2. x \in Posts /\ client[c].body \in Bodies /\ job[x] \in Rows
    BY <1>3, <1>4 DEF Ensure
  <2>3. CASE y # x
    BY <2>1, <2>2, <2>3, OtherRows DEF RowChange
  <2>4. CASE y = x /\ job[x].status = "absent"
    <3> DEFINE r == [NoRow EXCEPT !.status = IF client[c].complete THEN "succeeded" ELSE "queued",
                                  !.digest = client[c].body]
    <3>1. Ensured(job[x], client[c].body, client[c].complete) = r
      BY <2>4 DEF Ensured
    <3>2. r.status \in {"queued", "succeeded"}
      BY DEF NoRow
    <3> HIDE DEF r
    <3>3. job' = [job EXCEPT ![x] = r]
      BY <2>1, <3>1
    <3>4. job'[x] = r
      BY <2>2, <3>3 DEF TypeInv, TypeOK
    <3> QED
      BY <2>4, <3>2, <3>4 DEF RowChange
  <2>5. CASE y = x /\ job[x].status # "absent"
    <3>1. job'[x] = job[x] \/ job'[x] = Reset(job[x], client[c].body)
      BY <2>1, <2>2, <2>5, OtherRows DEF Ensured
    <3> QED
      BY <2>2, <2>5, <3>1, ResetType DEF RowChange
  <2> QED
    BY <2>3, <2>4, <2>5
<1>5. CASE Requeue(c)
  <2>1. x \in Posts /\ client[c].body \in Bodies /\ job[x] \in Rows
    BY <1>3, <1>5 DEF Requeue
  <2>2. \E row \in {job[x], Reset(job[x], client[c].body)} : job' = [job EXCEPT ![x] = row]
    BY <1>5 DEF Requeue
  <2>3. y # x => job'[y] = job[y]
    BY <2>1, <2>2, OtherRows
  <2>4. y = x => job'[x] = job[x] \/ job'[x] = Reset(job[x], client[c].body)
    BY <2>1, <2>2, OtherRows
  <2> QED
    BY <2>1, <2>3, <2>4, ResetType DEF RowChange
<1>6. CASE RecordBackfill(c)
  <2>1. x \in Posts /\ client[c].body \in Bodies /\ job[x] \in Rows
    BY <1>3, <1>6 DEF RecordBackfill
  <2> DEFINE row == [job[x] EXCEPT !.status = "succeeded", !.digest = client[c].body]
  <2>2. job' = job \/ job' = [job EXCEPT ![x] = row]
    BY <1>6 DEF RecordBackfill
  <2>3. row.status = "succeeded" /\ row.attempts = job[x].attempts /\ row.budget = job[x].budget
    BY <2>1, BackfilledType
  <2> HIDE DEF row
  <2> QED
    BY <1>1, <2>1, <2>2, <2>3, OtherRows DEF RowChange, SameBudget
<1> QED
  BY <1>2, <1>4, <1>5, <1>6 DEF ClientStep

LEMMA TimeChanges ==
    ASSUME TypeInv, NEW y \in Posts, NEW x \in Posts, RetryComesDue(x) \/ LeaseExpires(x)
    PROVE  RowChange(y)
<1>1. job[x] \in Rows
  BY DEF TypeInv, TypeOK
<1>2. PICK row \in {[job[x] EXCEPT !.due = TRUE], [job[x] EXCEPT !.stale = TRUE]} :
        job' = [job EXCEPT ![x] = row]
  BY DEF RetryComesDue, LeaseExpires
<1>3. row.status = job[x].status /\ row.attempts = job[x].attempts /\ row.budget = job[x].budget
  BY <1>1, TimedType
<1> QED
  BY <1>2, <1>3, OtherRows DEF RowChange, SameBudget

LEMMA RowChanges ==
    ASSUME TypeInv, [Next]_vars, NEW y \in Posts
    PROVE  RowChange(y)
<1>1. ASSUME NEW p \in Processes, TakeStep(p) \/ WorkStep(p) PROVE RowChange(y)
  BY <1>1, TakeChanges, WorkChanges
<1>2. ASSUME NEW p \in Processes, Republish(p) \/ Start(p) \/ Crash(p) \/ Dies(p) PROVE RowChange(y)
  BY <1>2 DEF Republish, Start, Crash, Dies, RowChange
<1>3. ASSUME NEW c \in Clients, ClientStep(c) PROVE RowChange(y)
  BY <1>3, ClientChanges
<1>4. ASSUME NEW c \in Clients, Abandon(c) PROVE RowChange(y)
  BY <1>4 DEF Abandon, RowChange
<1>5. ASSUME NEW c \in Clients, NEW x \in Posts, Look(c, x) \/ Edit(c, x) PROVE RowChange(y)
  BY <1>5 DEF Look, Edit, RowChange
<1>6. ASSUME NEW x \in Posts, RetryComesDue(x) \/ LeaseExpires(x) PROVE RowChange(y)
  BY <1>6, TimeChanges
<1>7. CASE UNCHANGED vars
  BY <1>7 DEF vars, RowChange
<1> QED
  BY <1>1, <1>2, <1>3, <1>4, <1>5, <1>6, <1>7 DEF Next

-----------------------------------------------------------------------------
(* Failures are terminal and earned. *)

LEMMA RowFields ==
    ASSUME TypeInv, NEW x \in Posts
    PROVE  /\ job[x] \in Rows /\ job[x].attempts \in Nat /\ job[x].budget \in Nat
           /\ job[x].status \in Statuses
BY DEF TypeInv, TypeOK, Rows

\* A failed row becomes active again only by a reset of its budget.
LEMMA ReopenNeedsReset ==
    ASSUME TypeInv, [Next]_vars, NEW x \in Posts,
           job[x].status = "failed", job'[x].status \in Active
    PROVE  job'[x].budget # job[x].budget
<1>1. RowChange(x)
  BY RowChanges
<1>2. job[x].budget \in Nat
  BY RowFields
<1> QED
  BY <1>1, <1>2 DEF RowChange, SameBudget, Active

\* "Duplicate wake-ups cannot reopen a terminal failure."
THEOREM FailureIsTerminal == Spec => NoAutomaticReopen
<1>1. TypeInv /\ [Next]_vars =>
        [\A x \in Posts :
           job[x].status = "failed" /\ job'[x].status \in Active => job'[x].budget # job[x].budget]_vars
  BY ReopenNeedsReset
<1> QED
  BY <1>1, TypeInvHolds, PTL DEF Spec, NoAutomaticReopen

\* FailureSpendsBudget with what it rests on: a consumer never holds a blank body.
NoBlankJob == Blank \notin Bodies => \A p \in Processes : worker[p].pc # "blank"

LEMMA BlankNext ==
    ASSUME TypeInv, NoBlankJob, [Next]_vars
    PROVE  NoBlankJob'
<1> SUFFICES ASSUME Blank \notin Bodies, NEW q \in Processes PROVE worker'[q].pc # "blank"
  BY DEF NoBlankJob
<1>1. worker[q].pc # "blank"
  BY DEF NoBlankJob
<1>2. CASE worker'[q] = worker[q]
  BY <1>1, <1>2
<1>3. worker \in [Processes -> Consumers] /\ body \in [Posts -> Bodies]
  BY DEF TypeInv, TypeOK
<1>4. ASSUME NEW p \in Processes, NEW pc \in {"down", "dead", "idle"},
             worker' = [worker EXCEPT ![p] = Consumer(pc)]
      PROVE  worker'[q].pc # "blank"
  BY <1>1, <1>3, <1>4 DEF Consumer
<1>5. ASSUME NEW p \in Processes, NEW pc \in Working \ {"blank"}, Goto(p, pc)
      PROVE  worker'[q].pc # "blank"
  BY <1>1, <1>3, <1>5 DEF Goto, Consumers
<1>6. ASSUME NEW p \in Processes, TakeStep(p) PROVE worker'[q].pc # "blank"
  <2>1. PICK x \in Posts, d \in Bodies :
          Claim(p, x, d) \/ RefuseExhausted(p, x, d) \/ IgnoreWakeup(p, x, d)
    BY <1>6 DEF TakeStep
  <2>2. CASE Claim(p, x, d)
    <3>1. body[x] # Blank
      BY <1>3
    <3> QED
      BY <1>1, <1>3, <2>2, <3>1 DEF Claim
  <2>3. CASE RefuseExhausted(p, x, d) \/ IgnoreWakeup(p, x, d)
    BY <1>2, <2>3 DEF RefuseExhausted, IgnoreWakeup
  <2> QED
    BY <2>1, <2>2, <2>3
<1>7. ASSUME NEW p \in Processes, WorkStep(p) PROVE worker'[q].pc # "blank"
  <2>1. CASE PersistContent(p) \/ PersistCases(p) \/ PersistConstructs(p)
             \/ CheckComplete(p) \/ AttemptFails(p)
    <3>1. \E pc \in Working \ {"blank"} : Goto(p, pc)
      BY <2>1
         DEF PersistContent, PersistCases, PersistConstructs, CheckComplete, AttemptFails, Working
    <3> QED
      BY <1>5, <3>1
  <2>2. CASE FinishSucceeded(p) \/ FinishBlank(p) \/ FinishFailed(p) \/ FinishRaises(p)
    <3>1. \E pc \in {"down", "dead", "idle"} : worker' = [worker EXCEPT ![p] = Consumer(pc)]
      BY <2>2 DEF FinishSucceeded, FinishBlank, FinishFailed, FinishRaises, Finish
    <3> QED
      BY <1>4, <3>1
  <2> QED
    BY <1>7, <2>1, <2>2 DEF WorkStep
<1>8. ASSUME NEW p \in Processes, Republish(p) PROVE worker'[q].pc # "blank"
  BY <1>2, <1>8 DEF Republish
<1>9. ASSUME NEW p \in Processes, Start(p) \/ Crash(p) \/ Dies(p) PROVE worker'[q].pc # "blank"
  BY <1>4, <1>9 DEF Start, Crash, Dies
<1>10. ASSUME NEW c \in Clients, ClientStep(c) \/ Abandon(c) PROVE worker'[q].pc # "blank"
  BY <1>2, <1>10 DEF ClientStep, Abandon, Ensure, Requeue, PersistDirectly, RecordBackfill, Publish
<1>11. ASSUME NEW c \in Clients, NEW x \in Posts, Look(c, x) \/ Edit(c, x)
       PROVE  worker'[q].pc # "blank"
  BY <1>2, <1>11 DEF Look, Edit
<1>12. ASSUME NEW x \in Posts, RetryComesDue(x) \/ LeaseExpires(x) PROVE worker'[q].pc # "blank"
  BY <1>2, <1>12 DEF RetryComesDue, LeaseExpires
<1>13. CASE UNCHANGED vars
  BY <1>2, <1>13 DEF vars
<1> QED
  BY <1>6, <1>7, <1>8, <1>9, <1>10, <1>11, <1>12, <1>13 DEF Next

LEMMA FailureInit == Init => NoBlankJob /\ FailureSpendsBudget
<1> SUFFICES ASSUME Init PROVE NoBlankJob /\ FailureSpendsBudget
  OBVIOUS
<1>1. \A p \in Processes : worker[p].pc # "blank"
  BY IdleConsumers DEF Init, Consumer
<1>2. \A x \in Posts : job[x].status # "failed"
  BY NoRowType DEF Init
<1> QED
  BY <1>1, <1>2 DEF NoBlankJob, FailureSpendsBudget

LEMMA FailureNext ==
    ASSUME TypeInv, NoBlankJob, FailureSpendsBudget, [Next]_vars
    PROVE  FailureSpendsBudget'
<1> SUFFICES ASSUME Blank \notin Bodies, NEW x \in Posts, job'[x].status = "failed"
             PROVE  job'[x].attempts >= MaxAttempts
  BY DEF FailureSpendsBudget
<1>1. RowChange(x)
  BY RowChanges
<1>2. job[x].status = "failed" => job[x].attempts >= MaxAttempts
  BY DEF FailureSpendsBudget
<1>3. \A p \in Processes : worker[p].pc # "blank"
  BY DEF NoBlankJob
<1>4. AfterFailure(job[x].attempts) = "failed" => job[x].attempts >= MaxAttempts
  BY DEF AfterFailure
<1> QED
  BY <1>1, <1>2, <1>3, <1>4 DEF RowChange, SameBudget, Exhausted

\* A job for a body with text fails for good only after all the attempts of its budget.
THEOREM FailureIsEarned == Spec => []FailureSpendsBudget
BY FailureInit, BlankNext, FailureNext, TypeInvHolds, PTL DEF Spec

-----------------------------------------------------------------------------
(* The fence. *)

\* No consumer takes a job in the step.
HandsKept ==
    \A q \in Processes : Works(q)' =>
        /\ Works(q)
        /\ worker'[q].post = worker[q].post
        /\ worker'[q].attempt = worker[q].attempt
        /\ worker'[q].budget = worker[q].budget

\* The budget and the attempts of an existing row only grow.
LEMMA RowsGrow ==
    ASSUME TypeInv, [Next]_vars, NEW x \in Posts, job[x].status # "absent"
    PROVE  /\ job'[x].budget \in Nat /\ job'[x].attempts \in Nat
           /\ job'[x].budget >= job[x].budget
           /\ job'[x].budget = job[x].budget => job'[x].attempts >= job[x].attempts
<1>1. RowChange(x)
  BY RowChanges
<1>2. job[x].budget \in Nat /\ job[x].attempts \in Nat
  BY RowFields
<1>3. TypeInv'
  BY TypeNext
<1>4. job'[x].budget \in Nat /\ job'[x].attempts \in Nat
  BY <1>3 DEF TypeInv, TypeOK, Rows
<1> QED
  BY <1>1, <1>2, <1>4 DEF RowChange, SameBudget

LEMMA HandsFields ==
    ASSUME TypeInv, NEW q \in Processes, Works(q)
    PROVE  /\ worker[q].post \in Posts /\ job[worker[q].post].status # "absent"
           /\ worker[q].budget \in Nat /\ worker[q].attempt \in Nat
BY DEF TypeInv, TypeOK, HeldRowsExist, Consumers

LEMMA FenceKept ==
    ASSUME TypeInv, FenceInv, [Next]_vars, HandsKept
    PROVE  FenceInv'
<1>1. FencedAttempts'
  BY DEF FenceInv, FencedAttempts, Rivals, HandsKept
<1>2. ASSUME NEW p \in Processes, Works(p)'
      PROVE  LET row == job'[worker'[p].post]
             IN /\ worker'[p].budget =< row.budget
                /\ worker'[p].budget = row.budget => worker'[p].attempt =< row.attempts
  <2> DEFINE x == worker[p].post
  <2>1. /\ Works(p) /\ worker'[p].post = x
        /\ worker'[p].attempt = worker[p].attempt /\ worker'[p].budget = worker[p].budget
    BY <1>2 DEF HandsKept
  <2>2. /\ x \in Posts /\ job[x].status # "absent"
        /\ worker[p].budget \in Nat /\ worker[p].attempt \in Nat
    BY <2>1, HandsFields
  <2>3. /\ worker[p].budget =< job[x].budget
        /\ worker[p].budget = job[x].budget => worker[p].attempt =< job[x].attempts
    BY <2>1 DEF FenceInv, NobodyIsAhead
  <2>4. /\ job'[x].budget \in Nat /\ job'[x].attempts \in Nat
        /\ job'[x].budget >= job[x].budget
        /\ job'[x].budget = job[x].budget => job'[x].attempts >= job[x].attempts
    BY <2>2, RowsGrow
  <2>5. job[x].budget \in Nat /\ job[x].attempts \in Nat
    BY <2>2, RowFields
  <2> HIDE DEF x
  <2> QED
    BY <2>1, <2>2, <2>3, <2>4, <2>5
<1> QED
  BY <1>1, <1>2 DEF FenceInv, NobodyIsAhead

LEMMA FenceClaim ==
    ASSUME TypeInv, FenceInv, [Next]_vars,
           NEW p \in Processes, NEW x \in Posts, NEW d \in Bodies, Claim(p, x, d)
    PROVE  FenceInv'
<1> DEFINE n == job[x].attempts + 1
<1>1. worker \in [Processes -> Consumers] /\ job \in [Posts -> Rows]
  BY DEF TypeInv, TypeOK
<1>2. job[x].attempts \in Nat /\ job[x].budget \in Nat
  BY RowFields
<1>3. /\ worker'[p].post = x /\ worker'[p].attempt = n
      /\ worker'[p].budget = job[x].budget
  BY <1>1 DEF Claim, NextAttempt
<1>4. \A q \in Processes \ {p} : worker'[q] = worker[q]
  BY <1>1 DEF Claim
<1>5. job'[x].attempts = n /\ job'[x].budget = job[x].budget
  <2> DEFINE r == [job[x] EXCEPT !.attempts = NextAttempt(job[x])]
  <2>1. r \in Rows /\ r.attempts = n /\ r.budget = job[x].budget
    BY <1>1, ClaimedType
  <2>2. job' = [job EXCEPT ![x] = Transition(r, "running")]
    BY DEF Claim
  <2> HIDE DEF r
  <2>3. Transition(r, "running").attempts = r.attempts /\ Transition(r, "running").budget = r.budget
    BY <2>1, TransitionType, StatusNames
  <2>4. job'[x] = Transition(r, "running")
    BY <1>1, <2>2
  <2> QED
    BY <2>1, <2>3, <2>4
<1>6. \A y \in Posts \ {x} : job'[y] = job[y]
  BY <1>1 DEF Claim
<1>7. \A q \in Processes : Works(q) =>
        LET row == job[worker[q].post]
        IN /\ worker[q].budget =< row.budget
           /\ worker[q].budget = row.budget => worker[q].attempt =< row.attempts
  BY DEF FenceInv, NobodyIsAhead
<1>8. \A q \in Processes \ {p} : Works(q)' => Works(q)
  BY <1>4 DEF Works
\* The new attempt is ahead of every other of its budget.
<1>9. ASSUME NEW q \in Processes \ {p}, Works(q), worker[q].post = x, worker[q].budget = job[x].budget
      PROVE  worker[q].attempt \in Nat /\ worker[q].attempt < n
  BY <1>2, <1>7, <1>9, HandsFields
<1>10. FencedAttempts'
  <2> SUFFICES ASSUME NEW q \in Processes, NEW r \in Processes, Rivals(q, r)'
               PROVE  worker'[q].attempt # worker'[r].attempt
    BY DEF FencedAttempts
  <2>1. q # r /\ Works(q)' /\ Works(r)' /\ worker'[q].post = worker'[r].post
        /\ worker'[q].budget = worker'[r].budget
    BY DEF Rivals
  <2>2. CASE q = p
    BY <1>2, <1>3, <1>4, <1>8, <1>9, <2>1, <2>2
  <2>3. CASE r = p
    BY <1>2, <1>3, <1>4, <1>8, <1>9, <2>1, <2>3
  <2>4. CASE q # p /\ r # p
    BY <1>4, <1>8, <2>1, <2>4 DEF FenceInv, FencedAttempts, Rivals
  <2> QED
    BY <2>2, <2>3, <2>4
<1>11. ASSUME NEW q \in Processes, Works(q)'
       PROVE  LET row == job'[worker'[q].post]
              IN /\ worker'[q].budget =< row.budget
                 /\ worker'[q].budget = row.budget => worker'[q].attempt =< row.attempts
  <2>1. CASE q = p
    BY <1>2, <1>3, <1>5, <2>1
  <2>2. CASE q # p /\ worker[q].post = x
    <3>1. Works(q) /\ worker'[q] = worker[q]
      BY <1>4, <1>8, <1>11, <2>2
    <3>2. worker[q].budget \in Nat /\ worker[q].attempt \in Nat
      BY <3>1, HandsFields
    <3>3. /\ worker[q].budget =< job[x].budget
          /\ worker[q].budget = job[x].budget => worker[q].attempt =< job[x].attempts
      BY <1>7, <2>2, <3>1
    <3> QED
      BY <1>2, <1>5, <2>2, <3>1, <3>2, <3>3
  <2>3. CASE q # p /\ worker[q].post # x
    <3>1. Works(q) /\ worker'[q] = worker[q] /\ worker[q].post \in Posts
      BY <1>4, <1>8, <1>11, <2>3, HandsFields
    <3>2. job'[worker[q].post] = job[worker[q].post]
      BY <1>6, <2>3, <3>1
    <3> QED
      BY <1>7, <3>1, <3>2
  <2> QED
    BY <2>1, <2>2, <2>3
<1> QED
  BY <1>10, <1>11 DEF FenceInv, NobodyIsAhead

\* Every step but a claim keeps the hands.
LEMMA HandsStep ==
    ASSUME TypeInv, [Next]_vars
    PROVE  HandsKept \/ \E p \in Processes, x \in Posts, d \in Bodies : Claim(p, x, d)
<1>1. worker \in [Processes -> Consumers]
  BY DEF TypeInv, TypeOK
<1>2. CASE worker' = worker
  BY <1>2 DEF HandsKept, Works
<1>3. ASSUME NEW p \in Processes, NEW pc \in {"down", "dead", "idle"},
             worker' = [worker EXCEPT ![p] = Consumer(pc)]
      PROVE  HandsKept
  <2>1. Consumer(pc).pc \notin Working
    BY IdleConsumers
  <2> QED
    BY <1>1, <1>3, <2>1 DEF HandsKept, Works
<1>4. ASSUME NEW p \in Processes, Works(p), NEW pc, Goto(p, pc) PROVE HandsKept
  <2>1. ASSUME NEW q \in Processes
        PROVE  /\ worker'[q].post = worker[q].post /\ worker'[q].attempt = worker[q].attempt
               /\ worker'[q].budget = worker[q].budget /\ (q # p => worker'[q] = worker[q])
    BY <1>1, <1>4 DEF Goto, Consumers
  <2> QED
    BY <1>4, <2>1 DEF HandsKept, Works
<1>5. ASSUME NEW p \in Processes, WorkStep(p) PROVE HandsKept
  <2>1. CASE PersistContent(p) \/ PersistCases(p) \/ PersistConstructs(p)
             \/ CheckComplete(p) \/ AttemptFails(p)
    <3>1. Works(p) /\ \E pc \in Working : Goto(p, pc)
      BY <2>1
         DEF PersistContent, PersistCases, PersistConstructs, CheckComplete, AttemptFails, Working, Works
    <3> QED
      BY <1>4, <3>1
  <2>2. CASE FinishSucceeded(p) \/ FinishBlank(p) \/ FinishFailed(p) \/ FinishRaises(p)
    <3>1. \E pc \in {"down", "dead", "idle"} : worker' = [worker EXCEPT ![p] = Consumer(pc)]
      BY <2>2 DEF FinishSucceeded, FinishBlank, FinishFailed, FinishRaises, Finish
    <3> QED
      BY <1>3, <3>1
  <2> QED
    BY <1>5, <2>1, <2>2 DEF WorkStep
<1>6. ASSUME NEW p \in Processes, Start(p) \/ Crash(p) \/ Dies(p) PROVE HandsKept
  BY <1>3, <1>6 DEF Start, Crash, Dies
<1>7. ASSUME NEW p \in Processes, TakeStep(p)
      PROVE  worker' = worker \/ \E x \in Posts, d \in Bodies : Claim(p, x, d)
  BY <1>7 DEF TakeStep, RefuseExhausted, IgnoreWakeup
<1>8. ASSUME NEW p \in Processes, Republish(p) PROVE worker' = worker
  BY <1>8 DEF Republish
<1>9. ASSUME NEW c \in Clients, ClientStep(c) \/ Abandon(c) PROVE worker' = worker
  BY <1>9 DEF ClientStep, Abandon, Ensure, Requeue, PersistDirectly, RecordBackfill, Publish
<1>10. ASSUME NEW c \in Clients, NEW x \in Posts, Look(c, x) \/ Edit(c, x) PROVE worker' = worker
  BY <1>10 DEF Look, Edit
<1>11. ASSUME NEW x \in Posts, RetryComesDue(x) \/ LeaseExpires(x) PROVE worker' = worker
  BY <1>11 DEF RetryComesDue, LeaseExpires
<1>12. CASE UNCHANGED vars
  BY <1>2, <1>12 DEF vars
<1> QED
  BY <1>2, <1>5, <1>6, <1>7, <1>8, <1>9, <1>10, <1>11, <1>12 DEF Next

LEMMA FenceInit == Init => FenceInv
BY IdleConsumers DEF Init, FenceInv, FencedAttempts, NobodyIsAhead, Rivals, Works

LEMMA FenceNext ==
    ASSUME TypeInv, FenceInv, [Next]_vars
    PROVE  FenceInv'
BY HandsStep, FenceKept, FenceClaim

\* "expected_attempt_count fences stale workers after lease recovery": no two holders of a
\* claim of one budget have the same attempt, for any number of consumers and lost leases.
THEOREM AttemptsAreFenced == Spec => []FencedAttempts
<1>1. FenceInv => FencedAttempts
  BY DEF FenceInv
<1> QED
  BY <1>1, FenceInit, FenceNext, TypeInvHolds, PTL DEF Spec

\* A consumer drops its job only by finishing it or with its process.
LEMMA DropStep ==
    ASSUME TypeInv, [Next]_vars, NEW p \in Processes, Works(p), worker'[p].pc \notin Working
    PROVE  FinishSucceeded(p) \/ FinishBlank(p) \/ FinishFailed(p) \/ job' = job
<1>1. worker \in [Processes -> Consumers] /\ worker[p].pc \in Working
  BY DEF TypeInv, TypeOK, Works
<1>2. worker'[p] # worker[p]
  BY <1>1
<1>3. ASSUME NEW q \in Processes, WorkStep(q)
      PROVE  FinishSucceeded(p) \/ FinishBlank(p) \/ FinishFailed(p) \/ job' = job
  <2>1. CASE q = p
    BY <1>3, <2>1
       DEF WorkStep, PersistContent, PersistCases, PersistConstructs, CheckComplete, AttemptFails,
           FinishRaises
  <2>2. CASE q # p
    <3>1. \E w : worker' = [worker EXCEPT ![q] = w]
      BY <1>3
         DEF WorkStep, PersistContent, PersistCases, PersistConstructs, CheckComplete, AttemptFails,
             FinishSucceeded, FinishBlank, FinishFailed, FinishRaises, Finish, Goto
    <3> QED
      BY <1>1, <1>2, <2>2, <3>1
  <2> QED
    BY <2>1, <2>2
<1>4. ASSUME NEW q \in Processes, TakeStep(q) PROVE worker'[p] = worker[p] \/ q = p
  BY <1>1, <1>4 DEF TakeStep, Claim, RefuseExhausted, IgnoreWakeup
<1>5. ~TakeStep(p)
  BY <1>1 DEF TakeStep, Claim, RefuseExhausted, IgnoreWakeup, Takes, Working
<1>6. ASSUME NEW q \in Processes, Republish(q) \/ Start(q) \/ Crash(q) \/ Dies(q) PROVE job' = job
  BY <1>6 DEF Republish, Start, Crash, Dies
<1>7. ASSUME NEW c \in Clients, ClientStep(c) \/ Abandon(c) PROVE worker' = worker
  BY <1>7 DEF ClientStep, Abandon, Ensure, Requeue, PersistDirectly, RecordBackfill, Publish
<1>8. ASSUME NEW c \in Clients, NEW x \in Posts, Look(c, x) \/ Edit(c, x) PROVE job' = job
  BY <1>8 DEF Look, Edit
<1>9. ASSUME NEW x \in Posts, RetryComesDue(x) \/ LeaseExpires(x) PROVE worker' = worker
  BY <1>9 DEF RetryComesDue, LeaseExpires
<1>10. CASE UNCHANGED vars
  BY <1>10 DEF vars
<1> QED
  BY <1>2, <1>3, <1>4, <1>5, <1>6, <1>7, <1>8, <1>9, <1>10 DEF Next

LEMMA SupersededDoesNotWrite ==
    ASSUME TypeInv, [Next]_vars, NEW p \in Processes, Works(p), worker'[p].pc \notin Working,
           worker[p].attempt < job[worker[p].post].attempts
    PROVE  job' = job
<1>1. job[worker[p].post].attempts # worker[p].attempt
  BY HandsFields, RowFields
<1>2. CASE FinishSucceeded(p) \/ FinishBlank(p)
  BY <1>1, <1>2 DEF FinishSucceeded, FinishBlank, Finish, Accepts
<1>3. CASE FinishFailed(p)
  BY <1>1, <1>3 DEF FinishFailed
<1> QED
  BY <1>2, <1>3, DropStep

\* "A stale worker therefore cannot overwrite the newer attempt", within one budget.
THEOREM SupersededLeaveNoTrace == Spec => NewerAttemptSurvives
<1>1. TypeInv /\ [Next]_vars =>
        [\A p \in Processes :
           LET x == worker[p].post
           IN Works(p) /\ worker'[p].pc \notin Working
              /\ worker[p].budget = job[x].budget /\ worker[p].attempt < job[x].attempts
              => job' = job]_vars
  BY SupersededDoesNotWrite
<1> QED
  BY <1>1, TypeInvHolds, PTL DEF Spec, NewerAttemptSurvives

=============================================================================
