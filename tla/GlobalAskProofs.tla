--------------------------- MODULE GlobalAskProofs ---------------------------
(* Theorems about GlobalAskQueue for every value of its constants. *)
EXTENDS GlobalAskQueue, TLAPS

-----------------------------------------------------------------------------
(* Type correctness. *)

\* A row written by any operation of the queue is a row of the table.
LEMMA RowTypes ==
    ASSUME TypeOK, NEW j \in Jobs
    PROVE  /\ job[j] \in JobRows
           /\ NoRow \in JobRows
           /\ \A scope \in Scopes :
                [NoRow EXCEPT !.status = "queued", !.scope = scope] \in JobRows
           /\ [job[j] EXCEPT !.status = "running", !.age = 0] \in JobRows
           /\ [job[j] EXCEPT !.status = "queued", !.age = 0] \in JobRows
           /\ [job[j] EXCEPT !.status = "failed", !.age = 0] \in JobRows
           /\ \A posts \in SUBSET Places :
                [job[j] EXCEPT !.status = "succeeded", !.evidence = posts, !.age = 0] \in JobRows
<1>1. job[j] \in JobRows
  BY DEF TypeOK
<1>2. NoScope \in Scopes
  BY DEF NoScope, Scopes
<1>3. 0 \in 0 .. OrphanAfter + 1 /\ 0 \in 0 .. RepublishAfter + 1
  BY TimeAssumption
<1> QED
  BY <1>1, <1>2, <1>3 DEF JobRows, Statuses, NoRow

LEMMA TokenScopesAreScopes ==
    ASSUME TypeOK PROVE TokenScopes \subseteq Scopes
<1>1. \A a \in affiliations : a[1] \in Entities /\ (a[2] # NoUnit => a[2] \in Units)
  BY DEF TypeOK, Places
<1>2. ASSUME NEW a \in {x \in affiliations : x[2] # NoUnit}
      PROVE  [entities |-> {a[1]}, units |-> {a[2]}, limited |-> TRUE] \in Scopes
  <2>1. {a[1]} \in SUBSET Entities /\ {a[2]} \in SUBSET Units
    BY <1>1
  <2> QED
    BY <2>1 DEF Scopes
<1>3. [entities |-> {a[1] : a \in affiliations}, units |-> {}, limited |-> FALSE] \in Scopes
  <2>1. {a[1] : a \in affiliations} \in SUBSET Entities
    BY <1>1
  <2> QED
    BY <2>1 DEF Scopes
<1> QED
  BY <1>2, <1>3 DEF TokenScopes

\* An idle slot, and a slot that has just claimed a job.
LEMMA TaskTypes ==
    /\ IdleTask \in Tasks
    /\ \A j \in Jobs :
         /\ [IdleTask EXCEPT !.phase = "claimed", !.job = j] \in Tasks
         /\ [IdleTask EXCEPT !.phase = "claimed", !.job = j].job = j
BY DEF IdleTask, NoScope, Tasks, Phases, Scopes

LEMMA TypeInit == Init => TypeOK
<1> SUFFICES ASSUME Init PROVE TypeOK
  OBVIOUS
<1>1. NoScope \in Scopes
  BY DEF NoScope, Scopes
<1>2. 0 \in 0 .. OrphanAfter + 1 /\ 0 \in 0 .. RepublishAfter + 1
  BY TimeAssumption
<1>3. NoRow \in JobRows
  BY <1>1, <1>2 DEF NoRow, JobRows, Statuses
<1>4. IdleTask.phase = "idle"
  BY DEF IdleTask
<1> QED
  <2>1. Init => task \in [Processes -> [Slots -> Tasks]]
    BY TaskTypes DEF Init
  <2>2. Init => \A p \in Processes, s \in Slots : ~Busy(p, s)
    BY <1>4 DEF Init, Busy
  <2> QED
    BY <1>3, <2>1, <2>2, BoundsAssumption DEF Init, TypeOK

\* Replacing the task of one slot by another task keeps the types of all.
LEMMA OneTaskType ==
    ASSUME TypeOK, NEW p \in Processes, NEW s \in Slots, NEW t \in Tasks,
           t.phase # "idle" => t.job \in Jobs,
           Put(p, s, t)
    PROVE  /\ task' \in [Processes -> [Slots -> Tasks]]
           /\ \A q \in Processes, r \in Slots : Busy(q, r)' => task'[q][r].job \in Jobs
<1>1. task' \in [Processes -> [Slots -> Tasks]]
  <2>1. task[p] \in [Slots -> Tasks]
    BY DEF TypeOK
  <2>2. [task[p] EXCEPT ![s] = t] \in [Slots -> Tasks]
    BY <2>1
  <2> QED
    BY <2>2 DEF TypeOK, Put
<1>2. ASSUME NEW q \in Processes, NEW r \in Slots, Busy(q, r)'
      PROVE  task'[q][r].job \in Jobs
  <2>1. CASE q = p /\ r = s
    BY <1>2, <2>1 DEF TypeOK, Busy, Put
  <2>2. CASE ~(q = p /\ r = s)
    <3>1. task'[q][r] = task[q][r]
      BY <2>2 DEF TypeOK, Put
    <3> QED
      BY <1>2, <3>1 DEF TypeOK, Busy
  <2> QED
    BY <2>1, <2>2
<1> QED
  BY <1>1, <1>2

\* The records the steps of a task write back to its slot.
LEMMA TaskUpdates ==
    ASSUME TypeOK, NEW p \in Processes, NEW s \in Slots,
           NEW phase \in Phases, NEW n \in Nat,
           NEW es \in SUBSET Entities, NEW us \in SUBSET Units, NEW limited \in BOOLEAN
    PROVE  LET t == task[p][s] IN
           /\ [t EXCEPT !.phase = phase, !.timer = n] \in Tasks
           /\ [t EXCEPT !.phase = phase, !.scope = [@ EXCEPT !.entities = es]] \in Tasks
           /\ [t EXCEPT !.phase = phase, !.timer = n,
                        !.scope = [@ EXCEPT !.units = us, !.limited = limited]] \in Tasks
<1>1. task[p][s] \in Tasks
  BY DEF TypeOK
<1>2. task[p][s].scope \in Scopes
  BY <1>1 DEF Tasks
<1>3. /\ [task[p][s].scope EXCEPT !.entities = es] \in Scopes
      /\ [task[p][s].scope EXCEPT !.units = us, !.limited = limited] \in Scopes
  BY <1>2 DEF Scopes
<1> QED
  BY <1>1, <1>3 DEF Tasks

\* A step of a task keeps every variable in its type.
LEMMA TypeTaskStep ==
    ASSUME TypeOK, NEW p \in Processes, NEW s \in Slots, TaskStep(p, s)
    PROVE  TypeOK'
<1> DEFINE captured == job[task[p][s].job].scope
<1>1. task[p][s] \in Tasks /\ (Busy(p, s) => task[p][s].job \in Jobs)
  BY DEF TypeOK
<1>2. Busy(p, s) => captured \in Scopes
  BY <1>1 DEF TypeOK, JobRows
<1>3. CASE LoadEntities(p, s)
  <2> DEFINE t == [task[p][s] EXCEPT !.phase = "entities",
                                     !.scope = [@ EXCEPT !.entities = NarrowedEntities(captured)]]
  <2>1. NarrowedEntities(captured) \in SUBSET Entities
    BY <1>1, <1>2, <1>3 DEF NarrowedEntities, LoadEntities, Busy, Scopes
  <2>2. t \in Tasks
    BY <2>1, TaskUpdates DEF Phases
  <2>3. t.job \in Jobs
    BY <1>1, <1>3 DEF LoadEntities, Busy, Tasks
  <2>4. Put(p, s, t)
    BY <1>3 DEF LoadEntities
  <2> HIDE DEF t
  <2> QED
    BY <1>3, <2>2, <2>3, <2>4, OneTaskType DEF LoadEntities, TypeOK, Busy
<1>4. CASE LoadUnits(p, s)
  <2> DEFINE phase == IF postRead THEN "compute" ELSE "refused"
             t == [task[p][s] EXCEPT !.phase = phase,
                                     !.timer = 0,
                                     !.scope = [@ EXCEPT
                                         !.units = NarrowedUnits(captured),
                                         !.limited = LimitedByCapturedUnits(captured)]]
  <2>1. NarrowedUnits(captured) \in SUBSET Units
    BY <1>1, <1>2, <1>4 DEF NarrowedUnits, LoadUnits, Busy, Scopes
  <2>2. t \in Tasks
    <3>1. phase \in Phases /\ LimitedByCapturedUnits(captured) \in BOOLEAN
      BY DEF Phases, LimitedByCapturedUnits
    <3> HIDE DEF phase, captured
    <3> QED
      BY <2>1, <3>1, TaskUpdates
  <2>3. t.job \in Jobs
    BY <1>1, <1>4 DEF LoadUnits, Busy, Tasks
  <2>4. Put(p, s, t)
    BY <1>4 DEF LoadUnits
  <2> HIDE DEF t
  <2> QED
    BY <1>4, <2>2, <2>3, <2>4, OneTaskType DEF LoadUnits, TypeOK, Busy
<1>5. ASSUME NEW phase \in Phases, Busy(p, s), Enter(p, s, phase),
             UNCHANGED <<job, worker, inbox, batch, affiliations, postRead, faults,
                         deadStarts, regrants>>
      PROVE  TypeOK'
  <2> DEFINE t == [task[p][s] EXCEPT !.phase = phase, !.timer = 0]
  <2>1. t \in Tasks
    BY TaskUpdates
  <2>2. t.job \in Jobs
    BY <1>1, <1>5 DEF Tasks
  <2>3. Put(p, s, t)
    BY <1>5 DEF Enter
  <2> HIDE DEF t
  <2> QED
    BY <1>5, <2>1, <2>2, <2>3, OneTaskType DEF TypeOK, Busy
<1>6. CASE Fails(p, s) \/ Answers(p, s) \/ DeadlineFires(p, s)
  BY <1>5, <1>6 DEF Fails, Answers, DeadlineFires, Busy, Phases
<1>7. CASE Settle(p, s)
  <2>1. Put(p, s, IdleTask)
    BY <1>7 DEF Settle
  <2>2. IdleTask.phase = "idle"
    BY DEF IdleTask
  <2>3. SettledRow(task[p][s]) \in JobRows
    <3>1. task[p][s].job \in Jobs
      BY <1>1, <1>7 DEF Settle, Busy
    <3>2. Visible(task[p][s].scope) \in SUBSET Places
      BY DEF Visible
    <3> QED
      BY <3>1, <3>2, RowTypes DEF SettledRow
  <2>4. job' \in [Jobs -> JobRows]
    BY <1>7, <2>3 DEF Settle, TypeOK
  <2>5. faults' \in 0 .. MaxFaults
    BY <1>7, BoundsAssumption DEF Settle, Fault, TypeOK
  <2> QED
    BY <1>7, <2>1, <2>2, <2>4, <2>5, TaskTypes, OneTaskType DEF Settle, TypeOK, Busy
<1> QED
  BY <1>3, <1>4, <1>6, <1>7 DEF TaskStep

\* The clock keeps every variable in its type: the ages saturate.
LEMMA TypeTick == ASSUME TypeOK, Tick PROVE TypeOK'
<1>1. job' \in [Jobs -> JobRows]
  <2> SUFFICES ASSUME NEW j \in Jobs PROVE job'[j] \in JobRows
    BY DEF Tick
  <2>1. job[j] \in JobRows
    BY DEF TypeOK
  <2>2. /\ (IF job[j].age > OrphanAfter THEN job[j].age ELSE job[j].age + 1)
              \in 0 .. OrphanAfter + 1
        /\ (IF job[j].created > RepublishAfter THEN job[j].created ELSE job[j].created + 1)
              \in 0 .. RepublishAfter + 1
    BY <2>1, TimeAssumption DEF JobRows
  <2> QED
    BY <2>1, <2>2 DEF Tick, JobRows
<1>2. task' \in [Processes -> [Slots -> Tasks]]
  <2> SUFFICES ASSUME NEW p \in Processes, NEW s \in Slots PROVE task'[p][s] \in Tasks
    BY DEF Tick
  <2>1. task[p][s] \in Tasks /\ [task[p][s] EXCEPT !.timer = @ + 1] \in Tasks
    <3>1. task[p][s] \in Tasks
      BY DEF TypeOK
    <3> QED
      BY <3>1 DEF Tasks
  <2> QED
    BY <2>1 DEF Tick
<1>3. \A p \in Processes, s \in Slots : Busy(p, s)' => task'[p][s].job \in Jobs
  <2> SUFFICES ASSUME NEW p \in Processes, NEW s \in Slots, Busy(p, s)'
               PROVE  task'[p][s].job \in Jobs
    OBVIOUS
  <2>1. task[p][s] \in Tasks
    BY DEF TypeOK
  <2>2. task'[p][s].phase = task[p][s].phase /\ task'[p][s].job = task[p][s].job
    BY <2>1 DEF Tick, Tasks
  <2> QED
    BY <2>2 DEF Busy, TypeOK
<1> QED
  BY <1>1, <1>2, <1>3 DEF Tick, TypeOK

\* Every step keeps every variable in its type.
LEMMA TypeNext == TypeOK /\ [Next]_vars => TypeOK'
<1> SUFFICES ASSUME TypeOK, [Next]_vars PROVE TypeOK'
  OBVIOUS
<1>1. ASSUME NEW j \in Jobs, Submit(j) PROVE TypeOK'
  <2>1. PICK scope \in TokenScopes :
           job' = [job EXCEPT ![j] = [NoRow EXCEPT !.status = "queued", !.scope = scope]]
    BY <1>1 DEF Submit
  <2>2. scope \in Scopes
    BY <2>1, TokenScopesAreScopes
  <2>3. job' \in [Jobs -> JobRows]
    BY <2>1, <2>2, RowTypes DEF TypeOK
  <2>4. inbox' \in [Processes -> SUBSET Jobs] /\ faults' \in 0 .. MaxFaults
    BY <1>1, BoundsAssumption DEF Submit, Wake, Fault, TypeOK
  <2> QED
    BY <1>1, <2>3, <2>4 DEF Submit, TypeOK, Busy
<1>2. CASE Regrant
  <2>1. affiliations' \subseteq Places /\ postRead' \in BOOLEAN
    BY <1>2, Zenon DEF Regrant, TypeOK
  <2>2. regrants' \in 0 .. MaxRegrants
    BY <1>2, BoundsAssumption DEF Regrant, TypeOK
  <2> QED
    BY <1>2, <2>1, <2>2 DEF Regrant, TypeOK, Busy
<1>3. ASSUME NEW p \in Processes, Sweep(p) PROVE TypeOK'
  <2>1. job' \in [Jobs -> JobRows]
    BY <1>3, RowTypes DEF Sweep, Requeued, TypeOK
  <2>2. inbox' \in [Processes -> SUBSET Jobs] /\ faults' \in 0 .. MaxFaults
    <3>1. LostQueued \subseteq Jobs
      BY DEF LostQueued
    <3>2. ASSUME NEW woken \in SUBSET Jobs, Wake(woken)
          PROVE  inbox' \in [Processes -> SUBSET Jobs]
      BY <3>2 DEF Wake, TypeOK
    <3>3. CASE Wake(LostQueued) /\ UNCHANGED faults
      BY <3>1, <3>2, <3>3 DEF TypeOK
    <3>4. CASE Fault /\ \E woken \in SUBSET LostQueued : Wake(woken)
      BY <3>1, <3>2, <3>4, BoundsAssumption DEF Fault, TypeOK
    <3> QED
      BY <1>3, <3>3, <3>4 DEF Sweep
  <2> QED
    BY <1>3, <2>1, <2>2 DEF Sweep, TypeOK, Busy
<1>4. ASSUME NEW p \in Processes, Read(p) PROVE TypeOK'
  BY <1>4 DEF Read, TypeOK, Busy
<1>5. ASSUME NEW p \in Processes, NEW s \in Slots, NEW j \in Jobs, Dispatch(p, s, j)
      PROVE  TypeOK'
  <2>1. job' \in [Jobs -> JobRows]
    BY <1>5, RowTypes DEF Dispatch, TypeOK
  <2>2. /\ task' \in [Processes -> [Slots -> Tasks]]
        /\ \A q \in Processes, r \in Slots : Busy(q, r)' => task'[q][r].job \in Jobs
    <3>1. CASE job[j].status \in Claimable
      <4> DEFINE t == [IdleTask EXCEPT !.phase = "claimed", !.job = j]
      <4>1. Put(p, s, t)
        BY <1>5, <3>1 DEF Dispatch
      <4>2. t \in Tasks /\ t.job = j
        BY TaskTypes
      <4> HIDE DEF t
      <4> QED
        BY <4>1, <4>2, OneTaskType
    <3>2. CASE job[j].status \notin Claimable
      BY <1>5, <3>2 DEF Dispatch, TypeOK, Busy
    <3> QED
      BY <3>1, <3>2
  <2> QED
    BY <1>5, <2>1, <2>2 DEF Dispatch, TypeOK
<1>6. ASSUME NEW p \in Processes, Crash(p) PROVE TypeOK'
  <2>1. IdleTask.phase = "idle"
    BY DEF IdleTask
  <2>2. task' \in [Processes -> [Slots -> Tasks]]
    BY <1>6, TaskTypes DEF Crash, TypeOK
  <2>3. \A q \in Processes, r \in Slots : Busy(q, r)' => task'[q][r].job \in Jobs
    BY <1>6, <2>1 DEF Crash, TypeOK, Busy
  <2> QED
    BY <1>6, <2>2, <2>3, BoundsAssumption DEF Crash, Fault, TypeOK
<1>7. ASSUME NEW p \in Processes, Start(p) PROVE TypeOK'
  BY <1>7 DEF Start, TypeOK, Busy
<1>8. ASSUME NEW p \in Processes, StartsDead(p) PROVE TypeOK'
  BY <1>8, BoundsAssumption DEF StartsDead, TypeOK, Busy
<1>9. ASSUME NEW p \in Processes, NEW j \in Jobs, Trim(p, j) PROVE TypeOK'
  BY <1>9, BoundsAssumption DEF Trim, Fault, TypeOK, Busy
<1>10. ASSUME NEW p \in Processes, NEW s \in Slots, NEW j \in Jobs, ClaimFails(p, s, j)
       PROVE  TypeOK'
  BY <1>10, BoundsAssumption DEF ClaimFails, Fault, TypeOK, Busy
<1>11. CASE UNCHANGED vars
  BY <1>11 DEF vars, TypeOK, Busy
<1> QED
  BY <1>1, <1>2, <1>3, <1>4, <1>5, <1>6, <1>7, <1>8, <1>9, <1>10, <1>11,
     TypeTaskStep, TypeTick
     DEF Next, LoopStep

\* Every variable keeps its type; in particular no operation of the queue writes
\* a status code the job table does not know.
THEOREM TypeCorrectness == Spec => []TypeOK
BY TypeInit, TypeNext, PTL DEF Spec

-----------------------------------------------------------------------------
(* The captured scope bounds everything. *)

\* A scope with fewer entities and fewer units, limited whenever the other one
\* names a unit, admits fewer posts.
LEMMA NarrowerSeesLess ==
    ASSUME NEW narrow \in Scopes, NEW captured \in Scopes,
           narrow.entities \subseteq captured.entities,
           narrow.units \subseteq captured.units,
           narrow.limited = (captured.units # {}),
           captured.limited => captured.units # {}
    PROVE  Visible(narrow) \subseteq Visible(captured)
BY DEF Visible, Scopes

\* No step changes the scope of a job that exists, or removes the job.
LEMMA CapturedScopeFixed ==
    ASSUME TypeOK, Next, NEW j \in Jobs, job[j].status # "absent"
    PROVE  job'[j].status # "absent" /\ job'[j].scope = job[j].scope
<1>1. job[j] \in JobRows
  BY DEF TypeOK
<1>2. ASSUME NEW i \in Jobs, Submit(i) PROVE job'[j] = job[j]
  BY <1>2 DEF Submit, TypeOK
<1>3. ASSUME NEW p \in Processes, Sweep(p)
      PROVE  job'[j].status # "absent" /\ job'[j].scope = job[j].scope
  BY <1>1, <1>3 DEF Sweep, Requeued, JobRows
<1>4. ASSUME NEW p \in Processes, NEW s \in Slots, NEW i \in Jobs, Dispatch(p, s, i)
      PROVE  job'[j].status # "absent" /\ job'[j].scope = job[j].scope
  <2>1. CASE job[i].status \in Claimable /\ i = j
    <3>1. job'[j] = [job[j] EXCEPT !.status = "running", !.age = 0]
      BY <1>4, <2>1 DEF Dispatch, TypeOK
    <3> QED
      BY <1>1, <3>1 DEF JobRows
  <2>2. CASE job[i].status \notin Claimable \/ i # j
    BY <1>4, <2>2 DEF Dispatch, TypeOK
  <2> QED
    BY <2>1, <2>2
<1>5. ASSUME NEW p \in Processes, NEW s \in Slots, Settle(p, s)
      PROVE  job'[j].status # "absent" /\ job'[j].scope = job[j].scope
  <2>1. CASE job' = job
    BY <2>1
  <2>2. CASE job' = [job EXCEPT ![task[p][s].job] = SettledRow(task[p][s])]
    <3>1. CASE task[p][s].job = j
      <4>1. job'[j] = SettledRow(task[p][s])
        BY <2>2, <3>1 DEF TypeOK
      <4> QED
        BY <1>1, <3>1, <4>1 DEF SettledRow, JobRows
    <3>2. CASE task[p][s].job # j
      BY <2>2, <3>2 DEF TypeOK
    <3> QED
      BY <3>1, <3>2
  <2> QED
    BY <1>5, <2>1, <2>2 DEF Settle
<1>6. CASE Tick
  BY <1>1, <1>6 DEF Tick, JobRows
<1>7. CASE UNCHANGED job
  BY <1>7
<1> QED
  BY <1>2, <1>3, <1>4, <1>5, <1>6, <1>7
     DEF Next, LoopStep, TaskStep, Regrant, Read, ClaimFails, Crash, Start, StartsDead, Trim,
         LoadEntities, LoadUnits, Fails, Answers, DeadlineFires

\* What the passing of time does to a live task and to its row.
LEMMA TickEffect ==
    ASSUME TypeOK, Tick, NEW p \in Processes, NEW s \in Slots, Busy(p, s)'
    PROVE  /\ Busy(p, s)
           /\ task'[p][s].phase = task[p][s].phase
           /\ task'[p][s].job = task[p][s].job
           /\ task'[p][s].scope = task[p][s].scope
           /\ task'[p][s].timer = task[p][s].timer + 1
           /\ job'[task[p][s].job].status = job[task[p][s].job].status
           /\ job'[task[p][s].job].age \in Int
           /\ job'[task[p][s].job].age =< job[task[p][s].job].age + 1
<1> DEFINE t == task[p][s]
           u == task'[p][s]
<1>1. t \in Tasks
  BY DEF TypeOK
<1>2. u = IF Busy(p, s) THEN [t EXCEPT !.timer = @ + 1] ELSE t
  BY DEF Tick
<1>3. Busy(p, s)
  BY <1>2 DEF Busy
<1>4. u = [t EXCEPT !.timer = @ + 1]
  BY <1>2, <1>3
<1>5. u.phase = t.phase /\ u.job = t.job /\ u.timer = t.timer + 1
  BY <1>1, <1>4 DEF Tasks
<1>6. u.scope = t.scope
  BY <1>1, <1>4 DEF Tasks
<1>7. /\ job'[t.job].status = job[t.job].status
      /\ job'[t.job].age \in Int
      /\ job'[t.job].age =< job[t.job].age + 1
  <2> DEFINE row == job[t.job]
  <2>1. t.job \in Jobs
    BY <1>3 DEF TypeOK
  <2>2. row \in JobRows
    BY <2>1 DEF TypeOK
  <2>3. row.age \in Int
    BY <2>2, TimeAssumption DEF JobRows
  <2>4. CASE row.status = "absent"
    <3>1. job'[t.job] = row
      BY <2>1, <2>4 DEF Tick
    <3> QED
      BY <2>3, <3>1
  <2>5. CASE row.status # "absent"
    <3>1. job'[t.job] = [row EXCEPT !.age = IF @ > OrphanAfter THEN @ ELSE @ + 1,
                                    !.created = IF @ > RepublishAfter THEN @ ELSE @ + 1]
      BY <2>1, <2>5 DEF Tick
    <3> HIDE DEF row
    <3>2. job'[t.job].status = row.status
          /\ job'[t.job].age = IF row.age > OrphanAfter THEN row.age ELSE row.age + 1
      BY <2>2, <3>1 DEF JobRows
    <3>3. row = job[t.job]
      BY DEF row
    <3> QED
      BY <2>3, <3>2, <3>3
  <2> QED
    BY <2>4, <2>5
<1> QED
  BY <1>3, <1>5, <1>6, <1>7

\* The task a slot holds after a step is the one it held, or an idle one, or one
\* that a step of this very slot put there.
LEMMA PutFrame ==
    ASSUME TypeOK, NEW p \in Processes, NEW s \in Slots, NEW t, Put(p, s, t),
           NEW q \in Processes, NEW r \in Slots
    PROVE  task'[q][r] = IF <<q, r>> = <<p, s>> THEN t ELSE task[q][r]
<1>1. CASE q = p
  <2>1. task'[p] = [task[p] EXCEPT ![s] = t]
    BY DEF Put, TypeOK
  <2>2. task[p] \in [Slots -> Tasks]
    BY DEF TypeOK
  <2> QED
    BY <1>1, <2>1, <2>2
<1>2. CASE q # p
  BY <1>2 DEF Put, TypeOK
<1> QED
  BY <1>1, <1>2

LEMMA ScopeInit == Init => ScopeInv
BY DEF Init, ScopeInv, NoRow, IdleTask, Busy

\* The tasks' part of ScopeInv, one slot at a time: what must hold of the task t
\* when the rows are those of the state.
LEMMA ScopeNext == TypeOK /\ ScopeInv /\ [Next]_vars => ScopeInv'
<1> DEFINE Within(t, captured) ==
             /\ t.phase \in {"entities", "compute", "answered"} =>
                  t.scope.entities \subseteq captured.entities
             /\ t.phase \in {"compute", "answered"} =>
                  /\ t.scope.units \subseteq captured.units
                  /\ t.scope.limited = (captured.units # {})
<1> SUFFICES ASSUME TypeOK, ScopeInv, [Next]_vars PROVE ScopeInv'
  OBVIOUS
<1>1. CASE UNCHANGED vars
  BY <1>1 DEF vars, ScopeInv, Busy
<1> SUFFICES ASSUME Next PROVE ScopeInv'
  BY <1>1
<1>2. TypeOK'
  BY TypeNext
<1>3. ASSUME NEW j \in Jobs
      PROVE  /\ job'[j].status # "absent" =>
                  (job'[j].scope.limited => job'[j].scope.units # {})
             /\ job'[j].evidence \subseteq Visible(job'[j].scope)
  <2>1. job[j] \in JobRows /\ job'[j] \in JobRows
    BY <1>2 DEF TypeOK
  <2>2. /\ job[j].status # "absent" => (job[j].scope.limited => job[j].scope.units # {})
        /\ job[j].evidence \subseteq Visible(job[j].scope)
    BY DEF ScopeInv
  <2>3. ASSUME NEW i \in Jobs, Submit(i)
        PROVE  \/ job'[j] = job[j]
               \/ job'[j].scope \in TokenScopes /\ job'[j].evidence = {}
    <3>1. CASE i = j
      <4>1. PICK scope \in TokenScopes :
               job'[j] = [NoRow EXCEPT !.status = "queued", !.scope = scope]
        BY <2>3, <3>1 DEF Submit, TypeOK
      <4> QED
        BY <4>1 DEF NoRow
    <3>2. CASE i # j
      BY <2>3, <3>2 DEF Submit, TypeOK
    <3> QED
      BY <3>1, <3>2
  <2>4. \A scope \in TokenScopes : scope.limited => scope.units # {}
    BY DEF TokenScopes
  <2>5. CASE job'[j].scope \in TokenScopes /\ job'[j].evidence = {}
    BY <2>4, <2>5
  <2>6. CASE /\ job'[j].scope = job[j].scope
             /\ job'[j].evidence = job[j].evidence
             /\ job'[j].status = "absent" \/ job[j].status # "absent"
    BY <2>2, <2>6
  <2>7. ASSUME NEW p \in Processes, NEW s \in Slots, Settle(p, s), job'[j] # job[j]
        PROVE  /\ job'[j].scope = job[j].scope
               /\ job[j].status # "absent"
               /\ job'[j].evidence \subseteq Visible(job[j].scope)
    <3> DEFINE t == task[p][s]
    <3>1. t \in Tasks /\ Busy(p, s) /\ t.phase \in {"answered", "refused"}
      BY <2>7 DEF Settle, Busy, TypeOK
    <3>2. t.job = j /\ job'[j] = SettledRow(t)
      BY <2>7 DEF Settle, TypeOK
    <3>3. job[j].status # "absent"
      BY <3>1, <3>2 DEF ScopeInv
    <3>4. job'[j].scope = job[j].scope
      BY <3>3, CapturedScopeFixed
    <3>5. t.scope \in Scopes /\ job[j].scope \in Scopes
      BY <2>1, <3>1 DEF Tasks, JobRows
    <3>6. CASE t.phase = "answered"
      <4>1. job'[j].evidence = Visible(t.scope)
        BY <2>1, <3>2, <3>6 DEF SettledRow, JobRows
      <4>2. Within(t, job[j].scope)
        BY <3>1, <3>2 DEF ScopeInv
      <4>3. Visible(t.scope) \subseteq Visible(job[j].scope)
        BY <2>2, <3>3, <3>5, <3>6, <4>2, NarrowerSeesLess
      <4> QED
        BY <3>3, <3>4, <4>1, <4>3
    <3>7. CASE t.phase = "refused"
      <4>1. job'[j].evidence = job[j].evidence
        BY <2>1, <3>2, <3>7 DEF SettledRow, JobRows
      <4> QED
        BY <2>2, <3>3, <3>4, <4>1
    <3> QED
      BY <3>1, <3>6, <3>7
  <2>8. ASSUME NEW p \in Processes, Sweep(p)
        PROVE  /\ job'[j].scope = job[j].scope
               /\ job'[j].evidence = job[j].evidence
               /\ job'[j].status = "absent" \/ job[j].status # "absent"
    BY <2>1, <2>8 DEF Sweep, Requeued, Orphans, JobRows
  <2>9. ASSUME NEW p \in Processes, NEW s \in Slots, NEW i \in Jobs, Dispatch(p, s, i)
        PROVE  /\ job'[j].scope = job[j].scope
               /\ job'[j].evidence = job[j].evidence
               /\ job'[j].status = "absent" \/ job[j].status # "absent"
    <3>1. CASE job[i].status \in Claimable /\ i = j
      <4>1. job'[j] = [job[j] EXCEPT !.status = "running", !.age = 0]
        BY <2>9, <3>1 DEF Dispatch, TypeOK
      <4> QED
        BY <2>1, <3>1, <4>1 DEF JobRows, Claimable
    <3>2. CASE job[i].status \notin Claimable \/ i # j
      BY <2>9, <3>2 DEF Dispatch, TypeOK
    <3> QED
      BY <3>1, <3>2
  <2>10. CASE Tick
    <3>1. /\ job'[j].scope = job[j].scope
          /\ job'[j].evidence = job[j].evidence
          /\ job'[j].status = job[j].status
      BY <2>1, <2>10 DEF Tick, JobRows
    <3> QED
      BY <2>2, <3>1
  <2>11. CASE UNCHANGED job
    BY <2>2, <2>11
  <2> QED
    BY <2>2, <2>3, <2>5, <2>6, <2>7, <2>8, <2>9, <2>10, <2>11
       DEF Next, LoopStep, TaskStep, Regrant, Read, ClaimFails, Crash, Start, StartsDead, Trim,
           LoadEntities, LoadUnits, Fails, Answers, DeadlineFires
<1>4. ASSUME NEW q \in Processes, NEW r \in Slots, Busy(q, r)'
      PROVE  /\ job'[task'[q][r].job].status # "absent"
             /\ Within(task'[q][r], job'[task'[q][r].job].scope)
  <2> DEFINE t == task[q][r]
             u == task'[q][r]
  <2>1. t \in Tasks /\ u \in Tasks
    BY <1>2 DEF TypeOK
  <2>2. ASSUME Busy(q, r)
        PROVE  /\ t.job \in Jobs
               /\ job[t.job].status # "absent" /\ job'[t.job].status # "absent"
               /\ job'[t.job].scope = job[t.job].scope
               /\ Within(t, job[t.job].scope)
    BY <2>2, CapturedScopeFixed DEF ScopeInv, TypeOK
  \* What a step may do to the slot without touching the scope it has loaded.
  <2>3. CASE /\ Busy(q, r) /\ u.job = t.job /\ u.scope = t.scope
             /\ u.phase = t.phase \/ (t.phase = "compute" /\ u.phase = "answered")
                                  \/ u.phase = "refused"
    BY <2>2, <2>3
  <2>4. CASE u = t
    BY <2>3, <2>4, <1>4 DEF Busy
  <2>5. ASSUME NEW p \in Processes, NEW s \in Slots, NEW i \in Jobs, Dispatch(p, s, i), u # t
        PROVE  /\ u.job = i /\ u.phase = "claimed"
               /\ job[i].status # "absent"
    <3>1. job[i].status \in Claimable
          /\ Put(p, s, [IdleTask EXCEPT !.phase = "claimed", !.job = i])
      BY <2>5 DEF Dispatch
    <3>2. u = [IdleTask EXCEPT !.phase = "claimed", !.job = i]
      BY <2>5, <3>1, PutFrame
    <3> QED
      BY <3>1, <3>2 DEF IdleTask, Claimable
  <2>6. ASSUME NEW p \in Processes, NEW s \in Slots, TaskStep(p, s)
        PROVE  /\ job'[u.job].status # "absent"
               /\ Within(u, job'[u.job].scope)
    <3>1. CASE <<q, r>> # <<p, s>>
      <4>1. u = t
        <5>1. \E v : Put(p, s, v)
          BY <2>6 DEF TaskStep, LoadEntities, LoadUnits, Fails, Answers, DeadlineFires,
                      Settle, Enter
        <5> QED
          BY <3>1, <5>1, PutFrame
      <4> QED
        BY <2>4, <4>1
    <3>2. CASE <<q, r>> = <<p, s>>
      <4> DEFINE captured == job[t.job].scope
      <4>1. p = q /\ s = r
        BY <3>2
      <4>2. ASSUME NEW phase, Busy(q, r), Enter(q, r, phase)
            PROVE  u.job = t.job /\ u.scope = t.scope /\ u.phase = phase
        <5>1. u = [t EXCEPT !.phase = phase, !.timer = 0]
          BY <4>2, PutFrame DEF Enter
        <5> QED
          BY <2>1, <5>1 DEF Tasks
      <4>3. CASE LoadEntities(p, s)
        <5>1. u = [t EXCEPT !.phase = "entities",
                            !.scope = [@ EXCEPT !.entities = NarrowedEntities(captured)]]
          BY <4>1, <4>3, PutFrame DEF LoadEntities
        <5>2. u.job = t.job /\ u.phase = "entities"
              /\ u.scope.entities = NarrowedEntities(captured)
          BY <2>1, <5>1 DEF Tasks, Scopes
        <5>3. NarrowedEntities(captured) \subseteq captured.entities
          BY DEF NarrowedEntities
        <5> QED
          BY <2>2, <4>1, <4>3, <5>2, <5>3 DEF LoadEntities, Busy
      <4>4. CASE LoadUnits(p, s)
        <5> DEFINE scope == [t.scope EXCEPT !.units = NarrowedUnits(captured),
                                            !.limited = LimitedByCapturedUnits(captured)]
        <5>1. PICK phase \in {"compute", "refused"} :
                 u = [t EXCEPT !.phase = phase, !.timer = 0, !.scope = scope]
          <6>1. u = [t EXCEPT !.phase = IF postRead THEN "compute" ELSE "refused",
                              !.timer = 0,
                              !.scope = [@ EXCEPT
                                 !.units = NarrowedUnits(captured),
                                 !.limited = LimitedByCapturedUnits(captured)]]
            BY <4>1, <4>4, PutFrame DEF LoadUnits
          <6>2. (IF postRead THEN "compute" ELSE "refused") \in {"compute", "refused"}
            BY Zenon
          <6> QED
            BY <6>1, <6>2, Zenon
        <5>2. u.job = t.job /\ u.scope = scope
          BY <2>1, <5>1 DEF Tasks
        <5>3. /\ scope.entities = t.scope.entities
              /\ scope.units = NarrowedUnits(captured)
              /\ scope.limited = LimitedByCapturedUnits(captured)
          BY <2>1 DEF Tasks, Scopes
        <5>4. NarrowedUnits(captured) \subseteq captured.units
          BY DEF NarrowedUnits
        <5> HIDE DEF scope
        <5> QED
          BY <2>2, <4>1, <4>4, <5>2, <5>3, <5>4 DEF LoadUnits, LimitedByCapturedUnits, Busy
      <4>5. CASE Fails(p, s) \/ DeadlineFires(p, s)
        BY <2>3, <4>1, <4>2, <4>5 DEF Fails, DeadlineFires, Busy
      <4>6. CASE Answers(p, s)
        BY <2>3, <4>1, <4>2, <4>6 DEF Answers, Busy
      <4>7. CASE Settle(p, s)
        <5>1. u = IdleTask
          BY <4>1, <4>7, PutFrame DEF Settle
        <5> QED
          BY <1>4, <5>1 DEF Busy, IdleTask
      <4> QED
        BY <2>6, <4>3, <4>4, <4>5, <4>6, <4>7 DEF TaskStep
    <3> QED
      BY <3>1, <3>2
  <2>7. ASSUME NEW p \in Processes, Crash(p) PROVE u = t
    <3>1. u = t \/ u = IdleTask
      BY <2>7 DEF Crash, TypeOK
    <3> QED
      BY <1>4, <3>1 DEF Busy, IdleTask
  <2>8. CASE Tick
    <3>1. Busy(q, r) /\ u.job = t.job /\ u.scope = t.scope /\ u.phase = t.phase
      BY <1>4, <2>8, TickEffect
    <3> QED
      BY <2>3, <3>1
  <2>9. CASE UNCHANGED task
    BY <2>4, <2>9
  <2>10. ASSUME NEW p \in Processes, NEW s \in Slots, NEW i \in Jobs, Dispatch(p, s, i)
         PROVE  /\ job'[u.job].status # "absent"
                /\ Within(u, job'[u.job].scope)
    BY <2>4, <2>5, <2>10, CapturedScopeFixed
  <2> QED
    BY <2>4, <2>6, <2>7, <2>8, <2>9, <2>10
       DEF Next, LoopStep, Submit, Regrant, Sweep, Read, ClaimFails, Start, StartsDead, Trim
<1> QED
  BY <1>3, <1>4 DEF ScopeInv

\* ScopeInv says at least what ScopeOnlyNarrows says.
LEMMA ScopeInvSuffices == TypeOK /\ ScopeInv => ScopeOnlyNarrows
<1> SUFFICES ASSUME TypeOK, ScopeInv PROVE ScopeOnlyNarrows
  OBVIOUS
<1>1. ASSUME NEW p \in Processes, NEW s \in Slots,
             task[p][s].phase \in {"compute", "answered"}
      PROVE  Visible(task[p][s].scope) \subseteq Visible(job[task[p][s].job].scope)
  <2> DEFINE t == task[p][s]
             captured == job[t.job].scope
  <2>1. Busy(p, s)
    BY <1>1 DEF Busy
  <2>2. t \in Tasks /\ t.job \in Jobs
    BY <2>1 DEF TypeOK
  <2>3. t.scope \in Scopes /\ captured \in Scopes
    BY <2>2 DEF TypeOK, Tasks, JobRows
  <2>4. /\ t.scope.entities \subseteq captured.entities
        /\ t.scope.units \subseteq captured.units
        /\ t.scope.limited = (captured.units # {})
        /\ captured.limited => captured.units # {}
    BY <1>1, <2>1, <2>2 DEF ScopeInv
  <2> QED
    BY <2>3, <2>4, NarrowerSeesLess
<1> QED
  BY <1>1 DEF ScopeInv, ScopeOnlyNarrows

\* For every set of entities and units and any history of grants: neither a
\* waiting task nor a stored answer reaches beyond the scope captured at submit.
\* No assumption on time is needed.
THEOREM ScopeNeverWidens == Spec => []ScopeOnlyNarrows
<1>1. Spec => [](TypeOK /\ ScopeInv)
  BY TypeInit, TypeNext, ScopeInit, ScopeNext, PTL DEF Spec
<1> QED
  BY <1>1, ScopeInvSuffices, PTL

-----------------------------------------------------------------------------
(* The slack fits: a live worker keeps its row. *)

LEMMA ClaimInit == Init => ClaimInv
BY DEF Init, ClaimInv, LiveWorkerKeepsRow, OneTaskPerJob, Timely, IdleTask, Busy

\* The sweep takes no row of a live task, of whatever process.
LEMMA LiveRowIsNoOrphan ==
    ASSUME SlackFits, TypeOK, ClaimInv,
           NEW p \in Processes, NEW s \in Slots, Busy(p, s)
    PROVE  task[p][s].job \notin Orphans
<1> DEFINE t == task[p][s]
<1>1. t \in Tasks /\ t.timer \in Nat /\ t.job \in Jobs
  BY DEF TypeOK, Tasks
<1>2. t.timer =< PhaseLimit(t.phase) /\ job[t.job].age =< Elapsed(t)
  BY DEF ClaimInv, Timely
<1>3. job[t.job].age \in Int
  BY <1>1 DEF TypeOK, JobRows
<1>4. Elapsed(t) =< OrphanAfter
  BY <1>1, <1>2, TimeAssumption DEF SlackFits, Elapsed, PhaseLimit
<1>5. Elapsed(t) \in Int
  BY <1>1, TimeAssumption DEF Elapsed
<1> QED
  BY <1>2, <1>3, <1>4, <1>5, TimeAssumption DEF Orphans

\* When time passes, a live task has not yet used up its phase.
LEMMA TickKeepsTimely ==
    ASSUME TypeOK, ClaimInv, Tick, NEW p \in Processes, NEW s \in Slots, Busy(p, s)'
    PROVE  /\ Busy(p, s)
           /\ task'[p][s].job = task[p][s].job
           /\ job'[task'[p][s].job].status = job[task[p][s].job].status
           /\ task'[p][s].timer =< PhaseLimit(task'[p][s].phase)
           /\ job'[task'[p][s].job].age =< Elapsed(task'[p][s])
<1> DEFINE t == task[p][s]
           u == task'[p][s]
<1>1. t \in Tasks
  BY DEF TypeOK
<1>2. Busy(p, s) /\ u.phase = t.phase /\ u.job = t.job /\ u.timer = t.timer + 1
  BY TickEffect
<1>3. t.job \in Jobs /\ t.timer \in Nat
  BY <1>1, <1>2 DEF TypeOK, Tasks
<1>4. t.timer < PhaseLimit(t.phase) /\ PhaseLimit(t.phase) \in Nat
  BY <1>2, TimeAssumption DEF Tick, PhaseLimit
<1>5. u.timer =< PhaseLimit(u.phase)
  BY <1>2, <1>3, <1>4
<1>6. job[t.job].age =< Elapsed(t) /\ job[t.job].age \in Int
  BY <1>2, <1>3 DEF ClaimInv, Timely, TypeOK, JobRows
<1>7. /\ job'[t.job].status = job[t.job].status
      /\ job'[t.job].age =< job[t.job].age + 1 /\ job'[t.job].age \in Int
  BY <1>2, TickEffect
<1>8. Elapsed(u) = Elapsed(t) + 1 /\ Elapsed(t) \in Int
  BY <1>2, <1>3, TimeAssumption DEF Elapsed
<1> QED
  BY <1>2, <1>5, <1>6, <1>7, <1>8

\* Entering a later phase in time keeps the task timely: each phase starts with
\* a fresh timer and inherits the full limit of those before it.
LEMMA EnterKeepsTimely ==
    ASSUME NEW t \in Tasks, NEW u \in Tasks, t.timer =< PhaseLimit(t.phase),
           \/ t.phase = "claimed" /\ u.phase = "entities" /\ u.timer = t.timer
           \/ t.phase \in {"claimed", "entities"} /\ u.phase \in {"compute", "refused"} /\ u.timer = 0
           \/ t.phase = "compute" /\ u.phase \in {"answered", "refused"} /\ u.timer = 0
    PROVE  u.timer =< PhaseLimit(u.phase) /\ Elapsed(t) =< Elapsed(u)
BY TimeAssumption DEF Tasks, PhaseLimit, Elapsed

\* What a task's own step does to its slot: the job stays, the row is untouched,
\* and the clock stays within the limits; or the slot becomes idle.
LEMMA OwnStep ==
    ASSUME TypeOK, TypeOK', ClaimInv, NEW p \in Processes, NEW s \in Slots, TaskStep(p, s)
    PROVE  \/ /\ Busy(p, s) /\ task'[p][s].job = task[p][s].job /\ job' = job
              /\ task'[p][s].timer =< PhaseLimit(task'[p][s].phase)
              /\ Elapsed(task[p][s]) =< Elapsed(task'[p][s])
           \/ Settle(p, s) /\ task'[p][s] = IdleTask
<1> DEFINE t == task[p][s]
           u == task'[p][s]
<1>1. t \in Tasks /\ u \in Tasks
  BY DEF TypeOK
<1>2. Busy(p, s) => t.timer =< PhaseLimit(t.phase)
  BY DEF ClaimInv, Timely
<1>3. ASSUME NEW phase, Enter(p, s, phase)
      PROVE  u.job = t.job /\ u.phase = phase /\ u.timer = 0
  <2>1. u = [t EXCEPT !.phase = phase, !.timer = 0]
    BY <1>3, PutFrame DEF Enter
  <2> QED
    BY <1>1, <2>1 DEF Tasks
<1>4. CASE LoadEntities(p, s)
  <2> DEFINE captured == job[t.job].scope
  <2>1. u = [t EXCEPT !.phase = "entities",
                      !.scope = [@ EXCEPT !.entities = NarrowedEntities(captured)]]
    BY <1>4, PutFrame DEF LoadEntities
  <2>2. u.job = t.job /\ u.phase = "entities" /\ u.timer = t.timer /\ t.phase = "claimed"
    BY <1>1, <1>4, <2>1 DEF Tasks, LoadEntities
  <2> QED
    BY <1>1, <1>2, <1>4, <2>2, EnterKeepsTimely DEF LoadEntities, Busy
<1>5. CASE LoadUnits(p, s)
  <2> DEFINE captured == job[t.job].scope
  <2>1. u = [t EXCEPT !.phase = IF postRead THEN "compute" ELSE "refused",
                      !.timer = 0,
                      !.scope = [@ EXCEPT
                          !.units = NarrowedUnits(captured),
                          !.limited = LimitedByCapturedUnits(captured)]]
    BY <1>5, PutFrame DEF LoadUnits
  <2>2. /\ u.job = t.job /\ u.phase \in {"compute", "refused"} /\ u.timer = 0
        /\ t.phase = "entities"
    BY <1>1, <1>5, <2>1 DEF Tasks, LoadUnits
  <2> QED
    BY <1>1, <1>2, <1>5, <2>2, EnterKeepsTimely DEF LoadUnits, Busy
<1>6. CASE Fails(p, s)
  <2>1. u.job = t.job /\ u.phase = "refused" /\ u.timer = 0
        /\ t.phase \in {"claimed", "entities", "compute"}
    BY <1>3, <1>6 DEF Fails
  <2> QED
    BY <1>1, <1>2, <1>6, <2>1, EnterKeepsTimely DEF Fails, Busy
<1>7. CASE Answers(p, s)
  <2>1. u.job = t.job /\ u.phase = "answered" /\ u.timer = 0 /\ t.phase = "compute"
    BY <1>3, <1>7 DEF Answers
  <2> QED
    BY <1>1, <1>2, <1>7, <2>1, EnterKeepsTimely DEF Answers, Busy
<1>8. CASE DeadlineFires(p, s)
  <2>1. u.job = t.job /\ u.phase = "refused" /\ u.timer = 0 /\ t.phase = "compute"
    BY <1>3, <1>8 DEF DeadlineFires
  <2> QED
    BY <1>1, <1>2, <1>8, <2>1, EnterKeepsTimely DEF DeadlineFires, Busy
<1>9. CASE Settle(p, s)
  BY <1>9, PutFrame DEF Settle
<1> QED
  BY <1>4, <1>5, <1>6, <1>7, <1>8, <1>9 DEF TaskStep

\* The claim invariant survives every step.  The exclusion between tasks is used
\* where one settles (its row is nobody else's), the timing where the sweep runs.
LEMMA ClaimNext == SlackFits /\ TypeOK /\ ClaimInv /\ [Next]_vars => ClaimInv'
<1> SUFFICES ASSUME SlackFits, TypeOK, ClaimInv, [Next]_vars PROVE ClaimInv'
  OBVIOUS
<1>1. CASE UNCHANGED vars
  BY <1>1 DEF vars, ClaimInv, LiveWorkerKeepsRow, OneTaskPerJob, Timely, Busy
<1> SUFFICES ASSUME Next PROVE ClaimInv'
  BY <1>1
<1>2. TypeOK'
  BY TypeNext
\* A task that this step leaves alone, on a row that this step leaves alone.
<1>3. ASSUME NEW q \in Processes, NEW r \in Slots,
             Busy(q, r), task'[q][r] = task[q][r],
             job'[task[q][r].job] = job[task[q][r].job]
      PROVE  /\ job'[task'[q][r].job].status = "running"
             /\ task'[q][r].timer =< PhaseLimit(task'[q][r].phase)
             /\ job'[task'[q][r].job].age =< Elapsed(task'[q][r])
  BY <1>3 DEF ClaimInv, LiveWorkerKeepsRow, Timely
\* What has to hold of each live task after the step, given that every live
\* task either worked on the same job before or has just claimed a queued one.
<1>4. ASSUME \A q \in Processes, r \in Slots : Busy(q, r)' =>
                /\ job'[task'[q][r].job].status = "running"
                /\ task'[q][r].timer =< PhaseLimit(task'[q][r].phase)
                /\ job'[task'[q][r].job].age =< Elapsed(task'[q][r]),
             \A q \in Processes, r \in Slots : Busy(q, r)' =>
                Busy(q, r) /\ task'[q][r].job = task[q][r].job
      PROVE  ClaimInv'
  <2>1. LiveWorkerKeepsRow' /\ Timely'
    BY <1>4 DEF LiveWorkerKeepsRow, Timely
  <2>2. OneTaskPerJob'
    BY <1>4 DEF ClaimInv, OneTaskPerJob
  <2> QED
    BY <2>1, <2>2 DEF ClaimInv
<1>5. ASSUME NEW j \in Jobs, Submit(j) PROVE ClaimInv'
  <2> SUFFICES ASSUME NEW q \in Processes, NEW r \in Slots, Busy(q, r)
               PROVE  job'[task[q][r].job] = job[task[q][r].job]
    BY <1>3, <1>4, <1>5 DEF Submit, Busy
  <2>1. job[task[q][r].job].status = "running"
    BY DEF ClaimInv, LiveWorkerKeepsRow
  <2> QED
    BY <1>5, <2>1 DEF Submit, TypeOK
<1>6. ASSUME NEW p \in Processes, Sweep(p) PROVE ClaimInv'
  <2> SUFFICES ASSUME NEW q \in Processes, NEW r \in Slots, Busy(q, r)
               PROVE  job'[task[q][r].job] = job[task[q][r].job]
    BY <1>3, <1>4, <1>6 DEF Sweep, Busy
  <2>1. task[q][r].job \in Jobs
    BY DEF TypeOK
  <2> QED
    BY <1>6, <2>1, LiveRowIsNoOrphan DEF Sweep, Requeued
<1>7. ASSUME NEW p \in Processes, NEW s \in Slots, NEW j \in Jobs, Dispatch(p, s, j)
      PROVE  ClaimInv'
  <2> DEFINE u == [IdleTask EXCEPT !.phase = "claimed", !.job = j]
  <2>1. CASE job[j].status \notin Claimable
    BY <1>3, <1>4, <1>7, <2>1 DEF Dispatch, Busy
  <2>2. CASE job[j].status \in Claimable
    <3>1. Put(p, s, u) /\ ~Busy(p, s)
      BY <1>7, <2>2 DEF Dispatch, Busy
    <3>2. u.job = j /\ u.phase = "claimed" /\ u.timer = 0
      BY DEF IdleTask
    <3>3. \A q \in Processes, r \in Slots :
             Busy(q, r) => task[q][r].job # j
      BY <2>2 DEF Claimable, ClaimInv, LiveWorkerKeepsRow
    <3>4. \A i \in Jobs : job'[i] = IF i = j THEN [job[j] EXCEPT !.status = "running", !.age = 0]
                                            ELSE job[i]
      BY <1>7, <2>2 DEF Dispatch, TypeOK
    <3>5. job'[j].status = "running" /\ job'[j].age = 0
      <4>1. job[j] \in JobRows
        BY DEF TypeOK
      <4> QED
        BY <3>4, <4>1 DEF JobRows
    <3>6. \A q \in Processes, r \in Slots :
             task'[q][r] = IF <<q, r>> = <<p, s>> THEN u ELSE task[q][r]
      BY <3>1, PutFrame
    <3> HIDE DEF u
    <3>7. ASSUME NEW q \in Processes, NEW r \in Slots, Busy(q, r)', <<q, r>> # <<p, s>>
          PROVE  /\ Busy(q, r) /\ task'[q][r] = task[q][r] /\ task[q][r].job \in Jobs
                 /\ job'[task[q][r].job] = job[task[q][r].job]
      <4>1. Busy(q, r) /\ task'[q][r] = task[q][r]
        BY <3>6, <3>7 DEF Busy
      <4>2. task[q][r].job \in Jobs
        BY <4>1 DEF TypeOK
      <4> QED
        BY <3>3, <3>4, <4>1, <4>2
    <3>8. LiveWorkerKeepsRow' /\ Timely'
      <4> SUFFICES ASSUME NEW q \in Processes, NEW r \in Slots, Busy(q, r)'
                   PROVE  /\ job'[task'[q][r].job].status = "running"
                          /\ task'[q][r].timer =< PhaseLimit(task'[q][r].phase)
                          /\ job'[task'[q][r].job].age =< Elapsed(task'[q][r])
        BY DEF LiveWorkerKeepsRow, Timely
      <4>1. CASE <<q, r>> = <<p, s>>
        <5>1. task'[q][r] = u
          BY <3>6, <4>1
        <5>2. 0 =< PhaseLimit("claimed")
          BY TimeAssumption DEF PhaseLimit
        <5>3. Elapsed(u) = 0
          BY <3>2 DEF Elapsed
        <5> QED
          BY <3>2, <3>5, <5>1, <5>2, <5>3
      <4>2. CASE <<q, r>> # <<p, s>>
        BY <1>3, <3>7, <4>2
      <4> QED
        BY <4>1, <4>2
    <3>9. OneTaskPerJob'
      <4> SUFFICES ASSUME NEW q1 \in Processes, NEW q2 \in Processes,
                          NEW r1 \in Slots, NEW r2 \in Slots,
                          Busy(q1, r1)', Busy(q2, r2)',
                          task'[q1][r1].job = task'[q2][r2].job
                   PROVE  <<q1, r1>> = <<q2, r2>>
        BY DEF OneTaskPerJob
      <4> QED
        BY <3>2, <3>3, <3>6, <3>7 DEF ClaimInv, OneTaskPerJob
    <3> QED
      BY <3>8, <3>9 DEF ClaimInv
  <2> QED
    BY <2>1, <2>2
<1>8. ASSUME NEW p \in Processes, NEW s \in Slots, TaskStep(p, s) PROVE ClaimInv'
  <2>1. ASSUME NEW q \in Processes, NEW r \in Slots, <<q, r>> # <<p, s>>
        PROVE  task'[q][r] = task[q][r]
    <3>1. \E v : Put(p, s, v)
      BY <1>8 DEF TaskStep, LoadEntities, LoadUnits, Fails, Answers, DeadlineFires,
                  Settle, Enter
    <3> QED
      BY <2>1, <3>1, PutFrame
  <2>2. CASE /\ Busy(p, s) /\ task'[p][s].job = task[p][s].job /\ job' = job
             /\ task'[p][s].timer =< PhaseLimit(task'[p][s].phase)
             /\ Elapsed(task[p][s]) =< Elapsed(task'[p][s])
    <3>1. job[task[p][s].job].status = "running" /\ job[task[p][s].job].age =< Elapsed(task[p][s])
      BY <2>2 DEF ClaimInv, LiveWorkerKeepsRow, Timely
    <3>2. job[task[p][s].job].age \in Int
      BY <2>2 DEF TypeOK, JobRows
    <3>3. Elapsed(task[p][s]) \in Int /\ Elapsed(task'[p][s]) \in Int
      <4>1. task[p][s] \in Tasks /\ task'[p][s] \in Tasks
        BY <1>2 DEF TypeOK
      <4> QED
        BY <4>1, TimeAssumption DEF Tasks, Elapsed
    <3>4. job'[task'[p][s].job].age =< Elapsed(task'[p][s])
      BY <2>2, <3>1, <3>2, <3>3
    <3>5. \A q \in Processes, r \in Slots : Busy(q, r)' =>
             Busy(q, r) /\ task'[q][r].job = task[q][r].job
      BY <2>1, <2>2 DEF Busy
    <3>6. ASSUME NEW q \in Processes, NEW r \in Slots, Busy(q, r)'
          PROVE  /\ job'[task'[q][r].job].status = "running"
                 /\ task'[q][r].timer =< PhaseLimit(task'[q][r].phase)
                 /\ job'[task'[q][r].job].age =< Elapsed(task'[q][r])
      <4>1. CASE <<q, r>> = <<p, s>>
        BY <2>2, <3>1, <3>4, <4>1
      <4>2. CASE <<q, r>> # <<p, s>>
        BY <1>3, <2>1, <2>2, <3>5, <3>6, <4>2
      <4> QED
        BY <4>1, <4>2
    <3> QED
      BY <1>4, <3>5, <3>6
  <2>3. CASE Settle(p, s) /\ task'[p][s] = IdleTask
    <3>1. ~Busy(p, s)'
      BY <2>3 DEF Busy, IdleTask
    <3>2. Busy(p, s)
      BY <2>3 DEF Settle, Busy
    <3>3. ASSUME NEW q \in Processes, NEW r \in Slots, Busy(q, r)'
          PROVE  /\ Busy(q, r) /\ task'[q][r] = task[q][r]
                 /\ job'[task[q][r].job] = job[task[q][r].job]
      <4>1. <<q, r>> # <<p, s>>
        BY <3>1, <3>3
      <4>2. Busy(q, r) /\ task'[q][r] = task[q][r]
        BY <2>1, <3>3, <4>1 DEF Busy
      <4>3. task[q][r].job # task[p][s].job
        BY <3>2, <4>1, <4>2 DEF ClaimInv, OneTaskPerJob
      <4>4. task[q][r].job \in Jobs
        BY <4>2 DEF TypeOK
      <4> QED
        BY <2>3, <4>2, <4>3, <4>4 DEF Settle, TypeOK
    <3> QED
      BY <1>3, <1>4, <3>3
  <2> QED
    BY <1>2, <1>8, <2>2, <2>3, OwnStep
<1>9. ASSUME NEW p \in Processes, Crash(p) PROVE ClaimInv'
  <2>1. ASSUME NEW q \in Processes, NEW r \in Slots, Busy(q, r)'
        PROVE  Busy(q, r) /\ task'[q][r] = task[q][r] /\ job' = job
    BY <1>9, <2>1 DEF Crash, TypeOK, Busy, IdleTask
  <2> QED
    BY <1>3, <1>4, <2>1
<1>10. CASE Tick
  <2>1. ASSUME NEW q \in Processes, NEW r \in Slots, Busy(q, r)'
        PROVE  /\ Busy(q, r) /\ task'[q][r].job = task[q][r].job
               /\ job'[task'[q][r].job].status = "running"
               /\ task'[q][r].timer =< PhaseLimit(task'[q][r].phase)
               /\ job'[task'[q][r].job].age =< Elapsed(task'[q][r])
    BY <1>10, <2>1, TickKeepsTimely DEF ClaimInv, LiveWorkerKeepsRow
  <2> QED
    BY <1>4, <2>1
<1>11. CASE UNCHANGED <<job, task>>
  BY <1>3, <1>4, <1>11 DEF Busy
<1> QED
  BY <1>5, <1>6, <1>7, <1>8, <1>9, <1>10, <1>11
     DEF Next, LoopStep, Regrant, Read, ClaimFails, Start, StartsDead, Trim

\* If the work around the computation takes no longer than the slack of the
\* orphan window, then for any number of processes, slots and jobs a live worker
\* keeps its row and no two tasks ever work on one job.
THEOREM ClaimIsExclusive ==
    SlackFits => (Spec => [](LiveWorkerKeepsRow /\ OneTaskPerJob))
<1> SUFFICES ASSUME SlackFits PROVE Spec => [](LiveWorkerKeepsRow /\ OneTaskPerJob)
  OBVIOUS
<1>1. Init => TypeOK /\ ClaimInv
  BY TypeInit, ClaimInit
<1>2. TypeOK /\ ClaimInv /\ [Next]_vars => (TypeOK /\ ClaimInv)'
  BY TypeNext, ClaimNext
<1>3. ClaimInv => LiveWorkerKeepsRow /\ OneTaskPerJob
  BY DEF ClaimInv
<1> QED
  BY <1>1, <1>2, <1>3, PTL DEF Spec

-----------------------------------------------------------------------------
(* The promise to the reader. *)

\* The reader sees nothing of this step in row j.
Still(j) ==
    /\ Outcome(job'[j]) = Outcome(job[j])
    /\ job'[j].scope = job[j].scope
    /\ job'[j].evidence = job[j].evidence

\* The one row that a visible step moves, and how.
Moves(j) ==
    \/ /\ job[j].status = "absent" /\ job'[j].status = "queued"
       /\ job'[j].scope \in Scopes /\ job'[j].evidence = job[j].evidence
    \/ /\ job[j].status = "running" /\ job'[j].status = "succeeded"
       /\ job'[j].scope = job[j].scope
       /\ job'[j].evidence \subseteq Visible(job[j].scope)
    \/ /\ job[j].status = "running" /\ job'[j].status = "failed"
       /\ job'[j].scope = job[j].scope /\ job'[j].evidence = job[j].evidence

\* A row that does not exist holds nothing.
BlankRows == \A j \in Jobs : job[j].status = "absent" => job[j] = NoRow

LEMMA BlankInit == Init => BlankRows
BY DEF Init, BlankRows

\* Both the visible and the invisible effect of each step on the rows.
LEMMA RowStep ==
    ASSUME TypeOK, ScopeInv, ScopeInv', LiveWorkerKeepsRow, BlankRows, Next
    PROVE  /\ \/ \A j \in Jobs : Still(j)
              \/ \E j \in Jobs : Moves(j) /\ \A i \in Jobs \ {j} : Still(i)
           /\ BlankRows'
<1>1. \A j \in Jobs : job[j] \in JobRows
  BY DEF TypeOK
<1>2. CASE UNCHANGED job
  BY <1>2 DEF Still, BlankRows
<1>3. ASSUME NEW j \in Jobs, Submit(j)
      PROVE  Moves(j) /\ BlankRows' /\ \A i \in Jobs \ {j} : Still(i)
  <2>1. PICK scope \in TokenScopes :
          job' = [job EXCEPT ![j] = [NoRow EXCEPT !.status = "queued", !.scope = scope]]
    BY <1>3 DEF Submit
  <2>2. scope \in Scopes
    BY TokenScopesAreScopes DEF TypeOK
  <2>3. job'[j] = [NoRow EXCEPT !.status = "queued", !.scope = scope]
    BY <2>1 DEF TypeOK
  <2>4. job'[j].status = "queued" /\ job'[j].scope = scope /\ job'[j].evidence = {}
    BY <2>3 DEF NoRow
  <2>5. job[j].status = "absent" /\ job[j].evidence = {}
    BY <1>3 DEF Submit, BlankRows, NoRow
  <2>6. \A i \in Jobs \ {j} : job'[i] = job[i]
    BY <2>1 DEF TypeOK
  <2> QED
    BY <2>2, <2>4, <2>5, <2>6 DEF Moves, Still, BlankRows
<1>4. ASSUME NEW p \in Processes, Sweep(p)
      PROVE  BlankRows' /\ \A j \in Jobs : Still(j)
  <2> SUFFICES ASSUME NEW j \in Jobs
               PROVE  Still(j) /\ (job'[j].status = "absent" => job'[j] = NoRow)
    BY DEF BlankRows
  <2>1. CASE j \notin Orphans
    BY <1>4, <2>1 DEF Sweep, Requeued, Still, BlankRows
  <2>2. CASE j \in Orphans
    <3>1. job'[j] = [job[j] EXCEPT !.status = "queued", !.age = 0]
      BY <1>4, <2>2 DEF Sweep, Requeued
    <3>2. job[j].status = "running"
      BY <2>2 DEF Orphans
    <3>3. /\ job'[j].status = "queued"
          /\ job'[j].scope = job[j].scope
          /\ job'[j].evidence = job[j].evidence
      BY <1>1, <3>1 DEF JobRows
    <3> QED
      BY <3>2, <3>3 DEF Still, Outcome
  <2> QED
    BY <2>1, <2>2
<1>5. ASSUME NEW p \in Processes, NEW s \in Slots, NEW k \in Jobs, Dispatch(p, s, k)
      PROVE  BlankRows' /\ \A j \in Jobs : Still(j)
  <2>1. CASE job[k].status \notin Claimable
    BY <1>2, <1>5, <2>1 DEF Dispatch, Still, BlankRows
  <2>2. CASE job[k].status \in Claimable
    <3>1. job' = [job EXCEPT ![k] = [@ EXCEPT !.status = "running", !.age = 0]]
      BY <1>5, <2>2 DEF Dispatch
    <3>2. job'[k] = [job[k] EXCEPT !.status = "running", !.age = 0]
      BY <3>1 DEF TypeOK
    <3>3. /\ job'[k].status = "running"
          /\ job'[k].scope = job[k].scope
          /\ job'[k].evidence = job[k].evidence
      BY <1>1, <3>2 DEF JobRows
    <3>4. Still(k)
      BY <2>2, <3>3 DEF Still, Outcome, Claimable
    <3>5. \A i \in Jobs \ {k} : job'[i] = job[i]
      BY <3>1 DEF TypeOK
    <3> QED
      BY <3>3, <3>4, <3>5 DEF Still, BlankRows
  <2> QED
    BY <2>1, <2>2
<1>6. ASSUME NEW p \in Processes, NEW s \in Slots, Settle(p, s), job' # job
      PROVE  /\ \E j \in Jobs : Moves(j) /\ \A i \in Jobs \ {j} : Still(i)
             /\ BlankRows'
  <2> DEFINE t == task[p][s]
             j == t.job
  <2>1. Busy(p, s) /\ t \in Tasks /\ j \in Jobs /\ t.phase \in {"answered", "refused"}
    BY <1>6 DEF Settle, Busy, TypeOK
  <2>2. job' = [job EXCEPT ![j] = SettledRow(t)]
    BY <1>6 DEF Settle
  <2>3. job[j].status = "running"
    BY <2>1 DEF LiveWorkerKeepsRow
  <2>4. job'[j] = SettledRow(t) /\ \A i \in Jobs \ {j} : job'[i] = job[i]
    BY <2>1, <2>2 DEF TypeOK
  <2>5. CASE t.phase = "answered"
    <3>1. job'[j] = [job[j] EXCEPT !.status = "succeeded", !.evidence = Visible(t.scope),
                                   !.age = 0]
      BY <2>4, <2>5 DEF SettledRow
    <3>2. job'[j].status = "succeeded" /\ job'[j].scope = job[j].scope
      BY <1>1, <2>1, <3>1 DEF JobRows
    <3>3. job'[j].evidence \subseteq Visible(job[j].scope)
      BY <2>1, <3>2 DEF ScopeInv
    <3> HIDE DEF j
    <3> QED
      BY <2>1, <2>3, <2>4, <3>2, <3>3 DEF Moves, Still, BlankRows
  <2>6. CASE t.phase = "refused"
    <3>1. job'[j] = [job[j] EXCEPT !.status = "failed", !.age = 0]
      BY <2>4, <2>6 DEF SettledRow
    <3>2. /\ job'[j].status = "failed" /\ job'[j].scope = job[j].scope
          /\ job'[j].evidence = job[j].evidence
      BY <1>1, <2>1, <3>1 DEF JobRows
    <3> HIDE DEF j
    <3> QED
      BY <2>1, <2>3, <2>4, <3>2 DEF Moves, Still, BlankRows
  <2> QED
    BY <2>1, <2>5, <2>6
<1>7. CASE Tick
  <2> SUFFICES ASSUME NEW j \in Jobs
               PROVE  Still(j) /\ (job'[j].status = "absent" => job'[j] = NoRow)
    BY DEF BlankRows
  <2>1. CASE job[j].status = "absent"
    <3>1. job'[j] = job[j]
      BY <1>7, <2>1 DEF Tick
    <3> QED
      BY <2>1, <3>1 DEF Still, BlankRows
  <2>2. CASE job[j].status # "absent"
    <3>1. PICK a, c : job'[j] = [job[j] EXCEPT !.age = a, !.created = c]
      BY <1>7, <2>2, Zenon DEF Tick
    <3>2. /\ job'[j].status = job[j].status
          /\ job'[j].scope = job[j].scope
          /\ job'[j].evidence = job[j].evidence
      BY <1>1, <3>1 DEF JobRows
    <3> QED
      BY <2>2, <3>2 DEF Still, Outcome
  <2> QED
    BY <2>1, <2>2
<1> QED
  BY <1>2, <1>3, <1>4, <1>5, <1>6, <1>7
     DEF Next, LoopStep, TaskStep, Regrant, Read, ClaimFails, Crash, Start, StartsDead, Trim,
         LoadEntities, LoadUnits, Fails, Answers, DeadlineFires

\* All the invariants together; the slack is what ClaimInv needs.
ReaderInv == TypeOK /\ ScopeInv /\ ClaimInv /\ BlankRows

LEMMA ReaderInvariant == SlackFits => (Spec => []ReaderInv)
<1> SUFFICES ASSUME SlackFits PROVE Spec => []ReaderInv
  OBVIOUS
<1>1. Init => ReaderInv
  BY TypeInit, ScopeInit, ClaimInit, BlankInit DEF ReaderInv
<1>2. ReaderInv /\ [Next]_vars => ReaderInv'
  <2> SUFFICES ASSUME ReaderInv, [Next]_vars PROVE ReaderInv'
    OBVIOUS
  <2>1. TypeOK' /\ ScopeInv' /\ ClaimInv'
    BY TypeNext, ScopeNext, ClaimNext DEF ReaderInv
  <2>2. BlankRows'
    <3>1. CASE Next
      BY <2>1, <3>1, RowStep DEF ReaderInv, ClaimInv
    <3>2. CASE UNCHANGED vars
      BY <3>2 DEF ReaderInv, BlankRows, vars
    <3> QED
      BY <3>1, <3>2
  <2> QED
    BY <2>1, <2>2 DEF ReaderInv
<1> QED
  BY <1>1, <1>2, PTL DEF Spec

\* If the slack fits, a settled response never changes under its reader: no
\* second worker, late settle or sweep rewrites it.
THEOREM SettledResponsesStay == SlackFits => (Spec => SettledIsFinal)
<1> SUFFICES ASSUME SlackFits PROVE Spec => SettledIsFinal
  OBVIOUS
<1> DEFINE Stays == \A j \in Jobs : job[j].status \in Settled =>
                      /\ job'[j].status = job[j].status
                      /\ job'[j].evidence = job[j].evidence
<1>1. ReaderInv /\ ReaderInv' /\ [Next]_vars => [Stays]_vars
  <2> SUFFICES ASSUME ReaderInv, ReaderInv', Next PROVE Stays
    OBVIOUS
  <2> SUFFICES ASSUME NEW j \in Jobs, job[j].status \in Settled
               PROVE  /\ job'[j].status = job[j].status
                      /\ job'[j].evidence = job[j].evidence
    OBVIOUS
  <2>1. Still(j)
    BY RowStep DEF ReaderInv, ClaimInv, Moves, Settled
  <2>2. job'[j].status \in Statuses
    BY DEF ReaderInv, TypeOK, JobRows
  <2> QED
    BY <2>1, <2>2 DEF Still, Outcome, Settled, Statuses
<1>2. SlackFits => (Spec => []ReaderInv)
  BY ReaderInvariant
<1> QED
  BY <1>1, <1>2, PTL DEF Spec, SettledIsFinal

\* If the slack fits, the queue implements DurableAnswer: each job is submitted
\* once, keeps its scope and gets at most one outcome, from within that scope.
THEOREM QueueKeepsPromise == SlackFits => (Spec => ImplementsPromise)
<1> SUFFICES ASSUME SlackFits PROVE Spec => ImplementsPromise
  OBVIOUS
<1>1. Init => Promise!Init
  BY DEF Init, Promise!Init, NoRow, Outcome
<1>2. ReaderInv /\ ReaderInv' /\ [Next]_vars => [Promise!Next]_(Promise!vars)
  <2> SUFFICES ASSUME ReaderInv, ReaderInv', [Next]_vars
               PROVE  [Promise!Next]_(Promise!vars)
    OBVIOUS
  <2> DEFINE outcome == [j \in Jobs |-> Outcome(job[j])]
             scope == [j \in Jobs |-> job[j].scope]
             evidence == [j \in Jobs |-> job[j].evidence]
  <2>1. CASE UNCHANGED vars
    BY <2>1 DEF vars, Promise!vars
  <2>2. CASE \A j \in Jobs : Still(j)
    BY <2>2 DEF Still, Promise!vars
  <2>3. ASSUME NEW j \in Jobs, Moves(j), \A i \in Jobs \ {j} : Still(i)
        PROVE  Promise!Next
    <3>1. \A i \in Jobs : outcome[i] = Outcome(job[i]) /\ outcome'[i] = Outcome(job'[i])
      OBVIOUS
    <3>2. outcome' = [outcome EXCEPT ![j] = Outcome(job'[j])]
      BY <2>3 DEF Still
    <3>3. evidence' = [evidence EXCEPT ![j] = job'[j].evidence]
      BY <2>3 DEF Still
    <3>4. scope' = [scope EXCEPT ![j] = job'[j].scope]
      BY <2>3 DEF Still
    <3>5. job[j].evidence = job'[j].evidence => UNCHANGED evidence
      BY <2>3 DEF Still
    <3>6. job[j].scope = job'[j].scope => UNCHANGED scope
      BY <2>3 DEF Still
    <3>7. scope[j] = job[j].scope
      OBVIOUS
    <3>8. job'[j].evidence \in SUBSET Places
      BY DEF ReaderInv, TypeOK, JobRows
    <3>9. /\ job[j].status = "absent" => outcome[j] = "none"
          /\ job[j].status = "running" => outcome[j] = "pending"
          /\ job'[j].status = "queued" => Outcome(job'[j]) = "pending"
          /\ job'[j].status = "succeeded" => Outcome(job'[j]) = "answered"
          /\ job'[j].status = "failed" => Outcome(job'[j]) = "failed"
      BY <3>1 DEF Outcome
    <3> HIDE DEF outcome, scope, evidence
    <3>10. CASE job[j].status = "absent"
      <4>1. Promise!Submit(j, job'[j].scope)
        BY <2>3, <3>2, <3>4, <3>5, <3>9, <3>10 DEF Moves, Promise!Submit, outcome, scope, evidence
      <4> QED
        <5>1. job'[j].scope \in Scopes
          BY <2>3, <3>10 DEF Moves
        <5> QED
          BY <4>1, <5>1, Zenon DEF Promise!Next, Promise!Submit
    <3>11. CASE job[j].status = "running" /\ job'[j].status = "succeeded"
      <4>1. Promise!Answer(j, job'[j].evidence)
        BY <2>3, <3>2, <3>3, <3>6, <3>7, <3>9, <3>11
           DEF Moves, Promise!Answer, outcome, scope, evidence
      <4> QED
        BY <3>8, <4>1, Zenon DEF Promise!Next, Promise!Answer
    <3>12. CASE job[j].status = "running" /\ job'[j].status = "failed"
      <4>1. Promise!Refuse(j)
        BY <2>3, <3>2, <3>5, <3>6, <3>9, <3>12
           DEF Moves, Promise!Refuse, outcome, scope, evidence
      <4> QED
        BY <4>1 DEF Promise!Next
    <3> QED
      BY <2>3, <3>10, <3>11, <3>12 DEF Moves
  <2> QED
    BY <2>1, <2>2, <2>3, RowStep DEF ReaderInv, ClaimInv
<1>3. SlackFits => (Spec => []ReaderInv)
  BY ReaderInvariant
<1> QED
  BY <1>1, <1>2, <1>3, PTL DEF Spec, ImplementsPromise, Promise!Spec
=============================================================================
