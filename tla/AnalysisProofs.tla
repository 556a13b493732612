---------------------------- MODULE AnalysisProofs ----------------------------
(* Theorems about AnalysisDelivery and AnalysisRegistry for every value of their *)
(* constants.                                                                    *)
EXTENDS MCAnalysis, SequenceTheorems, WellFoundedInduction, TLAPS

-----------------------------------------------------------------------------
(* The events of a run, seen through the lengths of its histories.           *)

\* What is stored of a run, and the words that occur in it.
RowsOK ==
    /\ statuses \in [Runs -> Seq({"pending", "running"} \cup Terminal)]
    /\ deliveries \in [Runs -> Seq({"claimed", "delivered"})]
    /\ outbox \in SUBSET Runs /\ receipt \in SUBSET Runs /\ result \in [Runs -> Results]

\* A status is named by the length of its history.
LEMMA StatusByLength ==
    ASSUME RowsOK, EventsAgree, NEW r \in Runs
    PROVE  /\ Status(r) = "pending" <=> Len(statuses[r]) = 1
           /\ Status(r) = "running" <=> Len(statuses[r]) = 2
           /\ Status(r) \in Terminal <=> Len(statuses[r]) = 3
           /\ Len(statuses[r]) \in {1, 2, 3}
<1>1. Len(statuses[r]) \in {1, 2, 3}
  BY DEF EventsAgree
<1>2. CASE Len(statuses[r]) = 1
  BY <1>2 DEF EventsAgree, Status, Terminal
<1>3. CASE Len(statuses[r]) = 2
  BY <1>3 DEF EventsAgree, Status, Terminal
<1>4. CASE Len(statuses[r]) = 3
  BY <1>4 DEF EventsAgree, Status, Terminal
<1> QED
  BY <1>1, <1>2, <1>3, <1>4

LEMMA DeliveredByLength ==
    ASSUME RowsOK, EventsAgree, NEW r \in Runs
    PROVE  /\ Delivered(r) <=> Len(deliveries[r]) = 2
           /\ Claimed(r) <=> Len(deliveries[r]) = 1
           /\ Len(deliveries[r]) \in {0, 1, 2}
<1>1. deliveries[r] \in Seq({"claimed", "delivered"})
  BY DEF RowsOK
<1>2. Len(deliveries[r]) \in {0, 1, 2} /\ (deliveries[r] = <<>> <=> Len(deliveries[r]) = 0)
  <2>1. Len(deliveries[r]) \in Nat /\ (deliveries[r] # <<>> => Len(deliveries[r]) # 0)
    BY <1>1, EmptySeq
  <2>2. deliveries[r] = <<>> => Len(deliveries[r]) = 0
    BY EmptySeq
  <2>3. Len(deliveries[r]) \in {0, 1, 2}
    BY DEF EventsAgree
  <2> QED
    BY <2>1, <2>2, <2>3
<1>3. CASE Len(deliveries[r]) = 0
  BY <1>2, <1>3 DEF Delivered, Claimed
<1>4. CASE Len(deliveries[r]) = 1
  BY <1>2, <1>4 DEF EventsAgree, Delivered, Claimed
<1>5. CASE Len(deliveries[r]) = 2
  BY <1>2, <1>5 DEF EventsAgree, Delivered, Claimed
<1> QED
  BY <1>2, <1>3, <1>4, <1>5

-----------------------------------------------------------------------------
(* The inductive invariant. *)

\* What a driver has in hand belongs to a run, and what it computes or persists has
\* been claimed.
HandsOK ==
    /\ driver \in [Drivers -> Deliveries]
    /\ \A d \in Drivers :
          /\ driver[d].pc # "idle" => driver[d].run \in Runs
          /\ driver[d].pc \in {"compute", "persist"} => Len(deliveries[driver[d].run]) >= 1

\* A worker never handles an entry past the end of the stream.
Within(x, n) == x.cursor =< n /\ x.next =< n /\ x.end =< n
ReadersOK ==
    /\ stream \in Seq(Runs)
    /\ reader \in [Workers -> Readers]
    /\ \A w \in Workers : Within(reader[w], Len(stream))

\* A reader who has seen a success will find its result.
ViewsOK ==
    /\ seen \in [Runs -> {"none", "pending", "running"} \cup Terminal]
    /\ shown \in [Runs -> Views]
    /\ \A r \in Runs : seen[r] = "succeeded" => result[r] # NoResult
    /\ SucceededIsShownWithResult

OthersOK ==
    /\ kind \in [Runs -> Kinds] /\ members \in [Runs -> SUBSET Posts]
    /\ eligible \in SUBSET Posts /\ weights \in BOOLEAN
    /\ remote \in [Runs -> {"unknown", "accepted", "succeeded", "failed"}]
    /\ lock \in [Runs -> Drivers \cup {NoDriver}]
    /\ deliveryFaults \in 0 .. MaxFaults /\ postEdits \in 0 .. MaxEdits

DeliveryInv == RowsOK /\ EventsAgree /\ HandsOK /\ ReadersOK /\ ViewsOK /\ OthersOK

LEMMA InvImpliesType == DeliveryInv => DeliveryTypeOK
BY DEF DeliveryInv, DeliveryTypeOK, RowsOK, HandsOK, ReadersOK, ViewsOK, OthersOK

\* Claims stay and results are never taken back.
RowsGrow ==
    \A r \in Runs :
        /\ Len(deliveries[r]) >= 1 => Len(deliveries'[r]) >= 1
        /\ result[r] # NoResult => result'[r] = result[r]

LEMMA RowsStay ==
    ASSUME RowsOK, EventsAgree, UNCHANGED rows
    PROVE  RowsOK' /\ EventsAgree' /\ RowsGrow
BY DEF rows, RowsOK, EventsAgree, Status, RowsGrow

LEMMA NoDeliveryType ==
    /\ NoDelivery \in Deliveries /\ NoDelivery.pc = "idle"
    /\ \A r \in Runs, pc \in Phases :
          DeliveryOf(r, pc) \in Deliveries /\ DeliveryOf(r, pc).pc = pc /\ DeliveryOf(r, pc).run = r
BY DEF NoDelivery, Deliveries, Phases, Outcomes, DeliveryOf

\* Replacing one delivery in hand.
LEMMA OneHand ==
    ASSUME HandsOK, RowsGrow, NEW d \in Drivers, NEW x \in Deliveries,
           x.pc # "idle" => x.run \in Runs,
           x.pc \in {"compute", "persist"} => Len(deliveries'[x.run]) >= 1,
           Hold(d, x)
    PROVE  HandsOK'
<1>1. driver' = [driver EXCEPT ![d] = x] /\ driver' \in [Drivers -> Deliveries]
  BY DEF Hold, HandsOK
<1>2. ASSUME NEW e \in Drivers
      PROVE  /\ driver'[e].pc # "idle" => driver'[e].run \in Runs
             /\ driver'[e].pc \in {"compute", "persist"} => Len(deliveries'[driver'[e].run]) >= 1
  <2>1. CASE e = d
    BY <1>1, <2>1 DEF HandsOK
  <2>2. CASE e # d
    BY <1>1, <2>2 DEF HandsOK, RowsGrow
  <2> QED
    BY <2>1, <2>2
<1> QED
  BY <1>1, <1>2 DEF HandsOK

\* A delivery in hand that only moves on.
LEMMA HandGoes ==
    ASSUME HandsOK, RowsGrow, NEW d \in Drivers, NEW pc \in Phases \ {"idle", "compute", "persist"},
           driver[d].pc # "idle", Goto(d, pc)
    PROVE  HandsOK'
<1> DEFINE x == [driver[d] EXCEPT !.pc = pc]
<1>1. x \in Deliveries /\ x.pc = pc /\ x.run = driver[d].run
  BY DEF HandsOK, Deliveries
<1>2. x.run \in Runs
  BY <1>1 DEF HandsOK
<1>3. Hold(d, x)
  BY DEF Goto
<1> HIDE DEF x
<1> QED
  BY <1>1, <1>2, <1>3, OneHand

LEMMA HandDropped ==
    ASSUME HandsOK, RowsGrow, NEW d \in Drivers, Hold(d, NoDelivery)
    PROVE  HandsOK'
BY NoDeliveryType, OneHand

LEMMA HandsStay ==
    ASSUME HandsOK, RowsGrow, UNCHANGED driver
    PROVE  HandsOK'
BY DEF HandsOK, RowsGrow

LEMMA ReadersStay ==
    ASSUME ReadersOK, UNCHANGED <<stream, reader>>
    PROVE  ReadersOK'
BY DEF ReadersOK

LEMMA NewReaderType ==
    ASSUME stream \in Seq(Runs)
    PROVE  \A up \in {"down", "up", "dead"} :
               NewReader(up) \in Readers /\ Within(NewReader(up), Len(stream))
BY LenProperties DEF NewReader, Readers, Within

LEMMA MovedReaders ==
    ASSUME NEW y \in Readers, NEW n \in Nat, Within(y, n)
    PROVE  /\ LET x == [y EXCEPT !.next = y.cursor, !.end = n]
              IN  x \in Readers /\ Within(x, n)
           /\ y.next < y.end =>
                 LET x == [y EXCEPT !.next = @ + 1,
                                    !.cursor = IF y.next + 1 = y.end THEN y.end ELSE @]
                 IN  x \in Readers /\ Within(x, n)
<1> DEFINE a == [y EXCEPT !.next = y.cursor, !.end = n]
           b == [y EXCEPT !.next = @ + 1,
                          !.cursor = IF y.next + 1 = y.end THEN y.end ELSE @]
<1>1. y.cursor \in Nat /\ y.next \in Nat /\ y.end \in Nat
  BY DEF Readers
<1>2. a \in Readers
  BY <1>1 DEF Readers
<1>3. a.cursor = y.cursor /\ a.next = y.cursor /\ a.end = n
  BY DEF Readers
<1>4. Within(a, n)
  BY <1>1, <1>3 DEF Within
<1>5. ASSUME y.next < y.end PROVE b \in Readers /\ Within(b, n)
  <2>1. y.next + 1 \in Nat /\ y.next + 1 =< n
    BY <1>1, <1>5 DEF Within
  <2>2. b \in Readers
    BY <1>1, <2>1 DEF Readers
  <2>3. b.cursor \in {y.cursor, y.end} /\ b.next = y.next + 1 /\ b.end = y.end
    BY DEF Readers
  <2> QED
    BY <2>1, <2>2, <2>3 DEF Within
<1> QED
  BY <1>2, <1>4, <1>5

LEMMA OneReader ==
    ASSUME ReadersOK, NEW w, NEW x \in Readers, Within(x, Len(stream)),
           reader' = [reader EXCEPT ![w] = x], UNCHANGED stream
    PROVE  ReadersOK'
BY DEF ReadersOK

LEMMA ViewsStay ==
    ASSUME ViewsOK, RowsGrow, UNCHANGED views
    PROVE  ViewsOK'
BY DEF ViewsOK, RowsGrow, views, SucceededIsShownWithResult

LEMMA LockReleased ==
    ASSUME OthersOK, NEW d \in Drivers, Release(d)
    PROVE  lock' \in [Runs -> Drivers \cup {NoDriver}]
BY DEF OthersOK, Release

LEMMA FaultCounted ==
    ASSUME OthersOK, Fault
    PROVE  deliveryFaults' \in 0 .. MaxFaults
BY DeliveryLimits DEF OthersOK, Fault

-----------------------------------------------------------------------------
(* The steps that write rows. *)

LEMMA HistoryAppended ==
    ASSUME NEW S, NEW h \in Seq(S), NEW e \in S, NEW n \in Nat, Len(h) = n
    PROVE  /\ Append(h, e) \in Seq(S) /\ Len(Append(h, e)) = n + 1
           /\ Append(h, e)[n + 1] = e
           /\ n >= 1 => Append(h, e)[1] = h[1]
           /\ n >= 2 => Append(h, e)[2] = h[2]
BY AppendProperties

\* What EventsAgree says of one run.
Agrees(r) ==
    /\ Len(deliveries[r]) \in 0 .. 2
    /\ Len(deliveries[r]) >= 1 => deliveries[r][1] = "claimed" /\ r \in outbox
    /\ Len(deliveries[r]) = 2 => deliveries[r][2] = "delivered"
    /\ Len(statuses[r]) \in 1 .. 3
    /\ statuses[r][1] = "pending"
    /\ Len(statuses[r]) >= 2 => statuses[r][2] = "running"
    /\ Len(statuses[r]) = 3 => statuses[r][3] \in Terminal
    /\ Len(statuses[r]) >= 2 <=> r \in outbox
    /\ Len(statuses[r]) = 3 <=> Len(deliveries[r]) = 2
    /\ Status(r) = "succeeded" <=> result[r] # NoResult

LEMMA EventsAgreeByRun == EventsAgree <=> \A r \in Runs : Agrees(r)
BY DEF EventsAgree, Agrees

LEMMA EventsAgreeByRunNext == (\A r \in Runs : Agrees(r)') => EventsAgree'
BY DEF EventsAgree, Agrees

LEMMA RowsStarted ==
    ASSUME RowsOK, EventsAgree, NEW r \in Runs, Status(r) = "pending",
           statuses' = [statuses EXCEPT ![r] = Append(@, "running")],
           outbox' = outbox \cup {r},
           UNCHANGED <<deliveries, receipt, result>>
    PROVE  RowsOK' /\ EventsAgree' /\ RowsGrow
<1>1. Len(statuses[r]) = 1
  BY StatusByLength
<1>2. /\ statuses' \in [Runs -> Seq({"pending", "running"} \cup Terminal)]
      /\ \A q \in Runs : q # r => statuses'[q] = statuses[q]
      /\ Len(statuses'[r]) = 2 /\ statuses'[r][1] = statuses[r][1]
      /\ statuses'[r][2] = "running"
  <2> DEFINE h == statuses[r]
             k == Append(h, "running")
  <2>1. h \in Seq({"pending", "running"} \cup Terminal)
    BY DEF RowsOK
  <2>2. /\ k \in Seq({"pending", "running"} \cup Terminal)
        /\ Len(k) = 2 /\ k[1] = h[1] /\ k[2] = "running"
    BY <1>1, <2>1, HistoryAppended
  <2> HIDE DEF k
  <2>3. statuses' = [statuses EXCEPT ![r] = k]
    BY DEF k
  <2> QED
    BY <2>2, <2>3 DEF RowsOK
<1>3. Agrees(r)
  BY EventsAgreeByRun
<1>4. Agrees(r)'
  BY <1>1, <1>2, <1>3 DEF Agrees, Status, Terminal
<1>5. ASSUME NEW q \in Runs, q # r PROVE Agrees(q)'
  BY <1>2, <1>5, EventsAgreeByRun DEF Agrees, Status
<1>6. EventsAgree'
  BY <1>4, <1>5, EventsAgreeByRunNext
<1> QED
  BY <1>2, <1>6 DEF RowsOK, RowsGrow

LEMMA RowsClaimed ==
    ASSUME RowsOK, EventsAgree, NEW r \in Runs, ~Delivered(r), r \in outbox,
           deliveries' = [deliveries EXCEPT ![r] = IF Claimed(r) THEN @ ELSE Append(@, "claimed")],
           UNCHANGED <<statuses, outbox, receipt, result>>
    PROVE  RowsOK' /\ EventsAgree' /\ RowsGrow /\ Len(deliveries'[r]) >= 1
<1>1. CASE Claimed(r)
  <2>1. deliveries' = deliveries /\ Len(deliveries[r]) = 1
    BY <1>1, DeliveredByLength DEF RowsOK
  <2> QED
    BY <2>1, RowsStay DEF rows
<1>2. CASE ~Claimed(r)
  <2>1. Len(deliveries[r]) = 0
    BY <1>2, DeliveredByLength
  <2>2. deliveries' = [deliveries EXCEPT ![r] = Append(@, "claimed")]
    BY <1>2
  <2>3. /\ deliveries' \in [Runs -> Seq({"claimed", "delivered"})]
        /\ \A q \in Runs : q # r => deliveries'[q] = deliveries[q]
        /\ Len(deliveries'[r]) = 1 /\ deliveries'[r][1] = "claimed"
    <3> DEFINE h == deliveries[r]
               k == Append(h, "claimed")
    <3>1. h \in Seq({"claimed", "delivered"})
      BY DEF RowsOK
    <3>2. k \in Seq({"claimed", "delivered"}) /\ Len(k) = 1 /\ k[1] = "claimed"
      BY <2>1, <3>1, HistoryAppended
    <3> HIDE DEF k
    <3>3. deliveries' = [deliveries EXCEPT ![r] = k]
      BY <2>2 DEF k
    <3> QED
      BY <3>2, <3>3 DEF RowsOK
  <2>4. Agrees(r)
    BY EventsAgreeByRun
  <2>5. Agrees(r)'
    BY <2>1, <2>3, <2>4 DEF Agrees, Status
  <2>6. ASSUME NEW q \in Runs, q # r PROVE Agrees(q)'
    BY <2>3, <2>6, EventsAgreeByRun DEF Agrees, Status
  <2>7. EventsAgree'
    BY <2>5, <2>6, EventsAgreeByRunNext
  <2> QED
    BY <2>1, <2>3, <2>7 DEF RowsOK, RowsGrow
<1> QED
  BY <1>1, <1>2

\* The outcomes that Settle is called with.
Endings == {x \in [status : Terminal, code : {"null", "code", ""}, result : Results] :
                x.status = "succeeded" <=> x.result # NoResult}

LEMMA RowsSettled ==
    ASSUME RowsOK, EventsAgree, NEW r \in Runs, NEW x \in Endings,
           ~Delivered(r), Len(deliveries[r]) >= 1,
           Status(r) = "running",
           statuses' = [statuses EXCEPT ![r] = Append(@, x.status)],
           deliveries' = [deliveries EXCEPT ![r] = Append(@, "delivered")],
           result' = [result EXCEPT ![r] = IF x.result = NoResult THEN @ ELSE x.result],
           UNCHANGED <<outbox, receipt>>
    PROVE  RowsOK' /\ EventsAgree' /\ RowsGrow
<1>1. Len(statuses[r]) = 2 /\ Len(deliveries[r]) = 1
  BY StatusByLength, DeliveredByLength
<1>2. x.status \in Terminal /\ x.result \in Results
      /\ (x.status = "succeeded" <=> x.result # NoResult)
  BY DEF Endings
<1>3. /\ statuses' \in [Runs -> Seq({"pending", "running"} \cup Terminal)]
      /\ \A q \in Runs : q # r => statuses'[q] = statuses[q]
      /\ Len(statuses'[r]) = 3 /\ statuses'[r][1] = statuses[r][1]
      /\ statuses'[r][2] = statuses[r][2] /\ statuses'[r][3] = x.status
  <2> DEFINE h == statuses[r]
             k == Append(h, x.status)
  <2>1. h \in Seq({"pending", "running"} \cup Terminal)
    BY DEF RowsOK
  <2>2. /\ k \in Seq({"pending", "running"} \cup Terminal)
        /\ Len(k) = 3 /\ k[1] = h[1] /\ k[2] = h[2] /\ k[3] = x.status
    BY <1>1, <1>2, <2>1, HistoryAppended
  <2> HIDE DEF k
  <2>3. statuses' = [statuses EXCEPT ![r] = k]
    BY DEF k
  <2> QED
    BY <2>2, <2>3 DEF RowsOK
<1>4. /\ deliveries' \in [Runs -> Seq({"claimed", "delivered"})]
      /\ \A q \in Runs : q # r => deliveries'[q] = deliveries[q]
      /\ Len(deliveries'[r]) = 2 /\ deliveries'[r][1] = deliveries[r][1]
      /\ deliveries'[r][2] = "delivered"
  <2> DEFINE h == deliveries[r]
             k == Append(h, "delivered")
  <2>1. h \in Seq({"claimed", "delivered"})
    BY DEF RowsOK
  <2>2. /\ k \in Seq({"claimed", "delivered"})
        /\ Len(k) = 2 /\ k[1] = h[1] /\ k[2] = "delivered"
    BY <1>1, <2>1, HistoryAppended
  <2> HIDE DEF k
  <2>3. deliveries' = [deliveries EXCEPT ![r] = k]
    BY DEF k
  <2> QED
    BY <2>2, <2>3 DEF RowsOK
<1>5. Agrees(r) /\ result[r] = NoResult
  BY EventsAgreeByRun DEF Agrees
<1>6. /\ result' \in [Runs -> Results] /\ result'[r] = x.result
      /\ \A q \in Runs : q # r => result'[q] = result[q]
  BY <1>2, <1>5 DEF RowsOK
<1>7. Agrees(r)'
  <2>1. Status(r)' = x.status
    BY <1>3 DEF Status
  <2> QED
    BY <1>1, <1>2, <1>3, <1>4, <1>5, <1>6, <2>1 DEF Agrees
<1>8. ASSUME NEW q \in Runs, q # r PROVE Agrees(q)'
  BY <1>3, <1>4, <1>6, <1>8, EventsAgreeByRun DEF Agrees, Status
<1>9. EventsAgree'
  BY <1>7, <1>8, EventsAgreeByRunNext
<1>10. RowsGrow
  BY <1>4, <1>5, <1>6 DEF RowsGrow
<1> QED
  BY <1>3, <1>4, <1>6, <1>9, <1>10 DEF RowsOK

-----------------------------------------------------------------------------
(* Every step keeps the invariant. *)

LEMMA DeliveryInvInit == DeliveryInit => DeliveryInv
<1> SUFFICES ASSUME DeliveryInit PROVE DeliveryInv
  OBVIOUS
<1>1. /\ <<"pending">> \in Seq({"pending", "running"} \cup Terminal)
      /\ Len(<<"pending">>) = 1 /\ <<"pending">>[1] = "pending"
  BY DEF Terminal
<1>2. <<>> \in Seq({"claimed", "delivered"}) /\ Len(<<>>) = 0
  BY EmptySeq
<1>3. NoResult \in Results
  BY DEF NoResult, Results
<1>4. RowsOK
  BY <1>1, <1>2, <1>3 DEF DeliveryInit, RowsOK
<1>5. EventsAgree
  BY <1>1, <1>2 DEF DeliveryInit, EventsAgree, Status
<1>6. HandsOK
  BY NoDeliveryType DEF DeliveryInit, HandsOK
<1>7. <<>> \in Seq(Runs) /\ Len(<<>>) = 0 /\ NewReader("down") \in Readers
  BY EmptySeq DEF NewReader, Readers
<1>8. ReadersOK
  BY <1>7 DEF DeliveryInit, ReadersOK, NewReader, Within
<1>9. NotShown \in Views /\ NotShown.status # "succeeded"
  BY DEF NotShown, Views
<1>10. ViewsOK
  BY <1>9 DEF DeliveryInit, ViewsOK, SucceededIsShownWithResult
<1>11. OthersOK
  BY DeliveryLimits DEF DeliveryInit, OthersOK
<1> QED
  BY <1>4, <1>5, <1>6, <1>8, <1>10, <1>11 DEF DeliveryInv

LEMMA EnqueueStep ==
    ASSUME DeliveryInv, NEW c \in Requests, NEW r \in Runs, Enqueue(c, r)
    PROVE  DeliveryInv'
<1>1. RowsOK' /\ EventsAgree' /\ RowsGrow
  <2>1. CASE EnqueueNew(c, r)
    BY <2>1, RowsStarted DEF DeliveryInv, EnqueueNew
  <2>2. CASE EnqueueResume(c, r)
    BY <2>2, RowsStay DEF DeliveryInv, EnqueueResume
  <2> QED
    BY <2>1, <2>2 DEF Enqueue
<1>2. c \in Drivers /\ Hold(c, DeliveryOf(r, "publish"))
  BY DEF Enqueue, EnqueueNew, EnqueueResume, Drivers
<1>3. DeliveryOf(r, "publish") \in Deliveries /\ DeliveryOf(r, "publish").pc = "publish"
      /\ DeliveryOf(r, "publish").run = r
  BY NoDeliveryType DEF Phases
<1>4. HandsOK'
  BY <1>1, <1>2, <1>3, OneHand DEF DeliveryInv
<1>5. UNCHANGED <<posts, views, remote, lock, stream, reader, deliveryFaults>>
  BY DEF Enqueue, EnqueueNew, EnqueueResume
<1>6. ReadersOK' /\ ViewsOK'
  BY <1>1, <1>5, ReadersStay, ViewsStay DEF DeliveryInv
<1>7. OthersOK'
  BY <1>5 DEF DeliveryInv, OthersOK, posts
<1> QED
  BY <1>1, <1>4, <1>6, <1>7 DEF DeliveryInv

LEMMA PublishStep ==
    ASSUME DeliveryInv, NEW c \in Requests, PublishWakeup(c)
    PROVE  DeliveryInv'
<1>1. RowsOK' /\ EventsAgree' /\ RowsGrow
  BY RowsStay DEF DeliveryInv, PublishWakeup
<1>2. c \in Drivers /\ driver[c].pc = "publish" /\ Goto(c, "connect")
  BY DEF PublishWakeup, Drivers
<1>3. HandsOK'
  BY <1>1, <1>2, HandGoes DEF DeliveryInv, Phases
<1>4. UNCHANGED <<posts, views, remote, lock, reader, deliveryFaults>>
  BY DEF PublishWakeup
<1>5. ReadersOK'
  <2>1. CASE stream' = Append(stream, driver[c].run)
    <3>1. driver[c].run \in Runs
      BY <1>2 DEF DeliveryInv, HandsOK
    <3>2. stream' \in Seq(Runs) /\ Len(stream') = Len(stream) + 1 /\ Len(stream) \in Nat
      BY <2>1, <3>1, AppendProperties, LenProperties DEF DeliveryInv, ReadersOK
    <3> QED
      BY <1>4, <3>2 DEF DeliveryInv, ReadersOK, Readers, Within
  <2>2. CASE UNCHANGED stream
    BY <1>4, <2>2, ReadersStay DEF DeliveryInv
  <2> QED
    BY <2>1, <2>2 DEF PublishWakeup
<1>6. ViewsOK'
  BY <1>1, <1>4, ViewsStay DEF DeliveryInv
<1>7. OthersOK'
  BY <1>4 DEF DeliveryInv, OthersOK, posts
<1> QED
  BY <1>1, <1>3, <1>5, <1>6, <1>7 DEF DeliveryInv

\* The session and the claim transaction.
LEMMA ConnectStep ==
    ASSUME DeliveryInv, NEW d \in Drivers, Connect(d)
    PROVE  DeliveryInv'
<1>1. RowsOK' /\ EventsAgree' /\ RowsGrow
  BY RowsStay DEF DeliveryInv, Connect
<1>2. driver[d].pc = "connect" /\ driver[d].run \in Runs
  BY DEF Connect, DeliveryInv, HandsOK
<1>3. HandsOK'
  BY <1>1, <1>2, HandGoes, HandDropped DEF DeliveryInv, Connect, Phases
<1>4. ReadersOK' /\ ViewsOK'
  BY <1>1, ReadersStay, ViewsStay DEF DeliveryInv, Connect
<1>5. lock' \in [Runs -> Drivers \cup {NoDriver}]
  BY <1>2 DEF Connect, DeliveryInv, OthersOK
<1>6. OthersOK'
  BY <1>5 DEF DeliveryInv, OthersOK, posts, Connect
<1> QED
  BY <1>1, <1>3, <1>4, <1>6 DEF DeliveryInv

LEMMA ClaimReturnsStep ==
    ASSUME DeliveryInv, NEW d \in Drivers, ClaimReturns(d)
    PROVE  DeliveryInv'
<1>1. RowsOK' /\ EventsAgree' /\ RowsGrow
  BY RowsStay DEF DeliveryInv, ClaimReturns
<1>2. HandsOK'
  BY <1>1, HandGoes DEF DeliveryInv, ClaimReturns, Phases
<1>3. ReadersOK' /\ ViewsOK'
  BY <1>1, ReadersStay, ViewsStay DEF DeliveryInv, ClaimReturns
<1>4. OthersOK'
  BY DEF DeliveryInv, OthersOK, posts, ClaimReturns
<1> QED
  BY <1>1, <1>2, <1>3, <1>4 DEF DeliveryInv

LEMMA InputType ==
    ASSUME DeliveryInv, NEW d \in Drivers, NEW r \in Runs
    PROVE  InputPosts(d, r) \in SUBSET Posts
BY DEF DeliveryInv, OthersOK, InputPosts, LivePosts

LEMMA ClaimedType ==
    ASSUME NEW x \in Deliveries, NEW u \in SUBSET Posts, NEW b \in BOOLEAN
    PROVE  LET y == [x EXCEPT !.pc = "compute", !.used = u, !.receipted = b]
           IN  y \in Deliveries /\ y.pc = "compute" /\ y.run = x.run
BY DEF Deliveries, Phases

LEMMA ClaimStep ==
    ASSUME DeliveryInv, NEW d \in Drivers, Claim(d)
    PROVE  DeliveryInv'
<1> DEFINE r == driver[d].run
           x == [driver[d] EXCEPT
                    !.pc = "compute",
                    !.used = IF kind[r] = "lineage" THEN InputPosts(d, r) ELSE {},
                    !.receipted = r \in receipt]
<1>1. r \in Runs /\ driver[d] \in Deliveries
  BY DEF Claim, DeliveryInv, HandsOK
<1>2. ~Delivered(r) /\ r \in outbox
  BY DEF Claim, ClaimEnds
<1>3. deliveries' = [deliveries EXCEPT ![r] = IF Claimed(r) THEN @ ELSE Append(@, "claimed")]
      /\ UNCHANGED <<statuses, outbox, receipt, result>>
  BY DEF Claim
<1>4. RowsOK' /\ EventsAgree' /\ RowsGrow /\ Len(deliveries'[r]) >= 1
  BY <1>1, <1>2, <1>3, RowsClaimed DEF DeliveryInv
<1>5. (IF kind[r] = "lineage" THEN InputPosts(d, r) ELSE {}) \in SUBSET Posts
  BY <1>1, InputType
<1>6. x \in Deliveries /\ x.pc = "compute" /\ x.run = r
  <2> DEFINE u == IF kind[r] = "lineage" THEN InputPosts(d, r) ELSE {}
             b == r \in receipt
  <2>1. b \in BOOLEAN /\ u \in SUBSET Posts
    BY <1>5
  <2> HIDE DEF u, b
  <2>2. LET y == [driver[d] EXCEPT !.pc = "compute", !.used = u, !.receipted = b]
        IN  y \in Deliveries /\ y.pc = "compute" /\ y.run = driver[d].run
    BY <1>1, <2>1, ClaimedType
  <2> QED
    BY <2>2 DEF u, b
<1>7. Hold(d, x)
  BY DEF Claim
<1>8. HandsOK'
  <2> HIDE DEF x
  <2> QED
    BY <1>1, <1>4, <1>6, <1>7, OneHand DEF DeliveryInv
<1>9. ReadersOK' /\ ViewsOK'
  BY <1>4, ReadersStay, ViewsStay DEF DeliveryInv, Claim
<1>10. OthersOK'
  BY DEF DeliveryInv, OthersOK, posts, Claim
<1> QED
  BY <1>4, <1>8, <1>9, <1>10 DEF DeliveryInv

LEMMA ComputedType ==
    ASSUME DeliveryInv, RowsGrow, NEW d \in Drivers, driver[d].pc = "compute",
           NEW outcome \in Outcomes, Computed(d, outcome)
    PROVE  HandsOK'
<1> DEFINE x == [driver[d] EXCEPT !.pc = "persist", !.outcome = outcome]
<1>1. driver[d] \in Deliveries /\ driver[d].run \in Runs
      /\ Len(deliveries[driver[d].run]) >= 1
  BY DEF DeliveryInv, HandsOK
<1>2. x \in Deliveries /\ x.pc = "persist" /\ x.run = driver[d].run
  BY <1>1 DEF Deliveries, Phases
<1>3. Hold(d, x)
  BY DEF Computed
<1> HIDE DEF x
<1>4. Len(deliveries'[x.run]) >= 1
  BY <1>1, <1>2 DEF RowsGrow
<1> QED
  BY <1>1, <1>2, <1>3, <1>4, OneHand DEF DeliveryInv

LEMMA ComputeStep ==
    ASSUME DeliveryInv, NEW d \in Drivers, Compute(d)
    PROVE  DeliveryInv'
<1>1. RowsOK' /\ EventsAgree' /\ RowsGrow
  BY RowsStay DEF DeliveryInv, Compute
<1>2. driver[d].pc = "compute" /\ driver[d].run \in Runs
  BY DEF Compute, DeliveryInv, HandsOK
<1>3. ReadersOK' /\ ViewsOK'
  BY <1>1, ReadersStay, ViewsStay DEF DeliveryInv, Compute
<1>4. /\ HandsOK'
      /\ remote' \in [Runs -> {"unknown", "accepted", "succeeded", "failed"}]
      /\ deliveryFaults' \in 0 .. MaxFaults
  <2>1. CASE Reconstruct(d)
    BY <1>1, <1>2, <2>1, ComputedType DEF Reconstruct, Outcomes, DeliveryInv, OthersOK
  <2>2. CASE AdjudicationFails(d)
    BY <1>1, <1>2, <2>2, HandGoes, FaultCounted DEF AdjudicationFails, Phases, DeliveryInv, OthersOK
  <2>3. CASE SubmitMeasurement(d)
    <3>1. HandsOK'
      BY <1>1, <1>2, <2>3, ComputedType DEF SubmitMeasurement, Outcomes
    <3>2. remote' \in [Runs -> {"unknown", "accepted", "succeeded", "failed"}]
      BY <2>3 DEF SubmitMeasurement, DeliveryInv, OthersOK
    <3> QED
      BY <2>3, <3>1, <3>2 DEF SubmitMeasurement, DeliveryInv, OthersOK
  <2>4. CASE ReadMeasurement(d)
    BY <1>1, <1>2, <2>4, ComputedType DEF ReadMeasurement, Outcomes, DeliveryInv, OthersOK
  <2> QED
    BY <2>1, <2>2, <2>3, <2>4 DEF Compute
<1>5. OthersOK'
  BY <1>4 DEF DeliveryInv, OthersOK, posts, Compute
<1> QED
  BY <1>1, <1>3, <1>4, <1>5 DEF DeliveryInv

\* The four kinds of outcome are endings.
LEMMA EndingType ==
    ASSUME DeliveryInv, NEW d \in Drivers, driver[d].outcome \in {"tree", "measured", "failed"}
    PROVE  Ending(d) \in Endings
<1>1. driver[d].used \in SUBSET Posts
  BY DEF DeliveryInv, HandsOK, Deliveries
<1>2. Tree(driver[d].used) \in Results /\ Tree(driver[d].used) # NoResult
      /\ Measurement \in Results /\ Measurement # NoResult /\ NoResult \in Results
  BY <1>1 DEF Tree, Results, NoResult, Measurement
<1>3. CASE driver[d].outcome = "tree"
  BY <1>2, <1>3 DEF Ending, Endings, Terminal
<1>4. CASE driver[d].outcome = "measured"
  BY <1>2, <1>4 DEF Ending, Endings, Terminal
<1>5. CASE driver[d].outcome = "failed"
  BY <1>2, <1>5 DEF Ending, Endings, Terminal
<1> QED
  BY <1>3, <1>4, <1>5

LEMMA FailureType == [status |-> "failed", code |-> "code", result |-> NoResult] \in Endings
BY DEF Endings, Terminal, NoResult, Results

LEMMA SettleStep ==
    ASSUME DeliveryInv, NEW d \in Drivers, NEW x \in Endings, Unsettled(d), Settle(d, x),
           deliveryFaults' \in 0 .. MaxFaults
    PROVE  DeliveryInv'
<1> DEFINE r == driver[d].run
<1>1. r \in Runs /\ ~Delivered(r) /\ Len(deliveries[r]) >= 1
  BY DEF Unsettled, DeliveryInv, HandsOK
<1>2. RowsOK' /\ EventsAgree' /\ RowsGrow
  BY <1>1, RowsSettled DEF Settle, DeliveryInv
<1>3. HandsOK'
  BY <1>2, HandGoes DEF Settle, Unsettled, DeliveryInv, Phases
<1>4. ReadersOK' /\ ViewsOK'
  BY <1>2, ReadersStay, ViewsStay DEF DeliveryInv, Settle
<1>5. OthersOK'
  BY DEF DeliveryInv, OthersOK, posts, Settle
<1> QED
  BY <1>2, <1>3, <1>4, <1>5 DEF DeliveryInv

LEMMA PersistStep ==
    ASSUME DeliveryInv, NEW d \in Drivers, Persist(d)
    PROVE  DeliveryInv'
<1>1. deliveryFaults \in 0 .. MaxFaults
  BY DEF DeliveryInv, OthersOK
<1>2. CASE PersistOutcome(d)
  BY <1>1, <1>2, EndingType, SettleStep DEF PersistOutcome
<1>3. CASE PersistEvidenceFails(d)
  <2>1. deliveryFaults' \in 0 .. MaxFaults
    BY <1>1, <1>3, FaultCounted DEF PersistEvidenceFails, DeliveryInv
  <2> QED
    BY <1>3, <2>1, FailureType, SettleStep DEF PersistEvidenceFails
<1>4. CASE PersistReceipt(d)
  <2>1. driver[d].pc = "persist" /\ driver[d].run \in Runs
    BY <1>4 DEF PersistReceipt, Unsettled, DeliveryInv, HandsOK
  <2>2. RowsOK' /\ EventsAgree' /\ RowsGrow
    BY <1>4, <2>1 DEF PersistReceipt, DeliveryInv, RowsOK, EventsAgree, Status, RowsGrow
  <2>3. HandsOK'
    BY <1>4, <2>1, <2>2, HandGoes DEF PersistReceipt, DeliveryInv, Phases
  <2>4. ReadersOK' /\ ViewsOK'
    BY <1>4, <2>2, ReadersStay, ViewsStay DEF DeliveryInv, PersistReceipt
  <2>5. OthersOK'
    BY <1>4 DEF DeliveryInv, OthersOK, posts, PersistReceipt
  <2> QED
    BY <2>2, <2>3, <2>4, <2>5 DEF DeliveryInv
<1>5. CASE PersistReturns(d) \/ PersistNothing(d) \/ PersistRaises(d)
  <2>1. /\ driver[d].pc = "persist" /\ Goto(d, "close")
        /\ UNCHANGED <<posts, views, rows, remote, lock, stream, reader>>
    BY <1>5 DEF PersistReturns, PersistNothing, PersistRaises, Unsettled
  <2>2. RowsOK' /\ EventsAgree' /\ RowsGrow
    BY <2>1, RowsStay DEF DeliveryInv
  <2>3. HandsOK'
    BY <2>1, <2>2, HandGoes DEF DeliveryInv, Phases
  <2>4. ReadersOK' /\ ViewsOK'
    BY <2>1, <2>2, ReadersStay, ViewsStay DEF DeliveryInv
  <2>5. deliveryFaults' \in 0 .. MaxFaults
    BY <1>1, <1>5, FaultCounted DEF PersistReturns, PersistNothing, PersistRaises, DeliveryInv
  <2>6. OthersOK'
    BY <2>1, <2>5 DEF DeliveryInv, OthersOK, posts
  <2> QED
    BY <2>2, <2>3, <2>4, <2>6 DEF DeliveryInv
<1> QED
  BY <1>2, <1>3, <1>4, <1>5 DEF Persist

LEMMA CloseStep ==
    ASSUME DeliveryInv, NEW d \in Drivers, Close(d)
    PROVE  DeliveryInv'
<1>1. RowsOK' /\ EventsAgree' /\ RowsGrow
  BY RowsStay DEF DeliveryInv, Close
<1>2. HandsOK' /\ ReadersOK' /\ ViewsOK'
  BY <1>1, HandDropped, ReadersStay, ViewsStay DEF DeliveryInv, Close
<1>3. lock' \in [Runs -> Drivers \cup {NoDriver}]
  BY LockReleased DEF DeliveryInv, Close
<1>4. OthersOK'
  BY <1>3 DEF DeliveryInv, OthersOK, posts, Close
<1> QED
  BY <1>1, <1>2, <1>4 DEF DeliveryInv

LEMMA LoseStep ==
    ASSUME DeliveryInv, NEW d \in Drivers, LoseSession(d)
    PROVE  DeliveryInv'
<1>1. RowsOK' /\ EventsAgree' /\ RowsGrow
  BY RowsStay DEF DeliveryInv, LoseSession
<1>2. HandsOK' /\ ReadersOK' /\ ViewsOK'
  BY <1>1, HandsStay, ReadersStay, ViewsStay DEF DeliveryInv, LoseSession
<1>3. lock' \in [Runs -> Drivers \cup {NoDriver}] /\ deliveryFaults' \in 0 .. MaxFaults
  BY LockReleased, FaultCounted DEF DeliveryInv, LoseSession
<1>4. OthersOK'
  BY <1>3 DEF DeliveryInv, OthersOK, posts, LoseSession
<1> QED
  BY <1>1, <1>2, <1>4 DEF DeliveryInv

LEMMA StopStep ==
    ASSUME DeliveryInv, NEW d \in Drivers, StopDriver(d)
    PROVE  DeliveryInv'
<1>1. RowsOK' /\ EventsAgree' /\ RowsGrow
  BY RowsStay DEF DeliveryInv, StopDriver
<1>2. HandsOK' /\ ViewsOK'
  BY <1>1, HandDropped, ViewsStay DEF DeliveryInv, StopDriver
<1>3. NewReader("down") \in Readers /\ Within(NewReader("down"), Len(stream))
  BY NewReaderType DEF DeliveryInv, ReadersOK
<1>4. ReadersOK'
  BY <1>3, OneReader, ReadersStay DEF DeliveryInv, StopDriver
<1>5. lock' \in [Runs -> Drivers \cup {NoDriver}] /\ deliveryFaults' \in 0 .. MaxFaults
  BY LockReleased, FaultCounted DEF DeliveryInv, StopDriver
<1>6. OthersOK'
  BY <1>5 DEF DeliveryInv, OthersOK, posts, StopDriver
<1> QED
  BY <1>1, <1>2, <1>4, <1>6 DEF DeliveryInv

LEMMA WorkerStep ==
    ASSUME DeliveryInv, NEW w \in Workers,
           StartWorker(w) \/ ReadBatch(w) \/ HandleEntry(w) \/ LookupFails(w)
    PROVE  DeliveryInv'
<1>1. UNCHANGED <<posts, views, rows, remote, lock, stream>>
  BY DEF StartWorker, ReadBatch, HandleEntry, LookupFails
<1>2. RowsOK' /\ EventsAgree' /\ RowsGrow
  BY <1>1, RowsStay DEF DeliveryInv
<1>3. ViewsOK'
  BY <1>1, <1>2, ViewsStay DEF DeliveryInv
<1>4. deliveryFaults' \in 0 .. MaxFaults
  BY FaultCounted DEF StartWorker, ReadBatch, HandleEntry, LookupFails, DeliveryInv, OthersOK
<1>5. OthersOK'
  BY <1>1, <1>4 DEF DeliveryInv, OthersOK, posts
<1>6. Len(stream) \in Nat /\ reader[w] \in Readers /\ Within(reader[w], Len(stream))
  BY LenProperties DEF DeliveryInv, ReadersOK
<1>7. HandsOK'
  <2>1. CASE HandleEntry(w)
    <3> DEFINE r == stream[reader[w].next + 1]
    <3>1. r \in Runs
      BY <1>6, <2>1, ElementOfSeq DEF HandleEntry, DeliveryInv, ReadersOK, Readers, Within
    <3>2. w \in Drivers /\ Hold(w, DeliveryOf(r, "connect"))
      BY <2>1 DEF HandleEntry, Drivers
    <3> HIDE DEF r
    <3>3. DeliveryOf(r, "connect") \in Deliveries /\ DeliveryOf(r, "connect").pc = "connect"
          /\ DeliveryOf(r, "connect").run = r
      BY <3>1, NoDeliveryType DEF Phases
    <3> QED
      BY <1>2, <3>1, <3>2, <3>3, OneHand DEF DeliveryInv
  <2>2. CASE ~HandleEntry(w)
    BY <1>2, <2>2, HandsStay DEF DeliveryInv, StartWorker, ReadBatch, LookupFails
  <2> QED
    BY <2>1, <2>2
<1>8. \E x \in Readers : Within(x, Len(stream)) /\ Move(w, x)
  <2>1. CASE StartWorker(w)
    BY <2>1, NewReaderType DEF StartWorker, DeliveryInv, ReadersOK
  <2>2. CASE ReadBatch(w)
    <3> DEFINE x == [reader[w] EXCEPT !.next = reader[w].cursor, !.end = Len(stream)]
    <3>1. x \in Readers /\ Within(x, Len(stream))
      BY <1>6, MovedReaders
    <3> QED
      BY <2>2, <3>1 DEF ReadBatch
  <2>3. CASE HandleEntry(w)
    <3> DEFINE x == [reader[w] EXCEPT !.next = @ + 1,
                                      !.cursor = IF reader[w].next + 1 = reader[w].end
                                                 THEN reader[w].end ELSE @]
    <3>1. x \in Readers /\ Within(x, Len(stream))
      BY <1>6, <2>3, MovedReaders DEF HandleEntry
    <3> QED
      BY <2>3, <3>1 DEF HandleEntry
  <2>4. CASE LookupFails(w)
    <3> DEFINE x == [reader[w] EXCEPT !.next = reader[w].cursor, !.end = reader[w].cursor]
    <3>1. x \in Readers /\ Within(x, Len(stream))
      BY <1>6 DEF Readers, Within
    <3> QED
      BY <2>4, <3>1, NewReaderType DEF LookupFails, DeliveryInv, ReadersOK
  <2> QED
    BY <2>1, <2>2, <2>3, <2>4
<1>9. ReadersOK'
  BY <1>1, <1>8, OneReader DEF DeliveryInv, Move
<1> QED
  BY <1>2, <1>3, <1>5, <1>7, <1>9 DEF DeliveryInv

\* The readers of a run and its environment.
LEMMA ViewStep ==
    ASSUME DeliveryInv, NEW r \in Runs, ReadStatus(r) \/ ReadResult(r)
    PROVE  DeliveryInv'
<1>1. UNCHANGED <<posts, rows, remote, lock, driver, stream, reader, deliveryFaults>>
  BY DEF ReadStatus, ReadResult
<1>2. RowsOK' /\ EventsAgree' /\ RowsGrow
  BY <1>1, RowsStay DEF DeliveryInv
<1>3. HandsOK' /\ ReadersOK' /\ OthersOK'
  BY <1>1, <1>2, HandsStay, ReadersStay DEF DeliveryInv, OthersOK, posts
<1>4. result' = result
  BY <1>1 DEF rows
<1>5. CASE ReadStatus(r)
  <2>1. Status(r) \in {"pending", "running"} \cup Terminal
    BY StatusByLength DEF DeliveryInv
  <2>2. Status(r) = "succeeded" => result[r] # NoResult
    BY DEF DeliveryInv, EventsAgree
  <2> QED
    BY <1>2, <1>3, <1>4, <1>5, <2>1, <2>2
    DEF ReadStatus, DeliveryInv, ViewsOK, SucceededIsShownWithResult
<1>6. CASE ReadResult(r)
  <2>1. ShowResult(r) \in Views /\ (ShowResult(r).status = "succeeded" => ShowResult(r).result)
    BY DEF ShowResult, Views, DeliveryInv, ViewsOK, Terminal
  <2> QED
    BY <1>2, <1>3, <1>4, <1>6, <2>1
    DEF ReadResult, DeliveryInv, ViewsOK, SucceededIsShownWithResult
<1> QED
  BY <1>5, <1>6

LEMMA EnvironmentStep ==
    ASSUME DeliveryInv, EditPosts \/ EstimateWeights \/ \E r \in Runs : RemoteEnds(r)
    PROVE  DeliveryInv'
<1>1. UNCHANGED <<views, rows, lock, driver, stream, reader, deliveryFaults>>
  BY DEF EditPosts, EstimateWeights, RemoteEnds
<1>2. RowsOK' /\ EventsAgree' /\ RowsGrow
  BY <1>1, RowsStay DEF DeliveryInv
<1>3. HandsOK' /\ ReadersOK' /\ ViewsOK'
  BY <1>1, <1>2, HandsStay, ReadersStay, ViewsStay DEF DeliveryInv
<1>4. CASE EditPosts
  <2>1. OthersOK'
    BY <1>1, <1>4, DeliveryLimits DEF EditPosts, DeliveryInv, OthersOK
  <2> QED
    BY <1>2, <1>3, <2>1 DEF DeliveryInv
<1>5. CASE EstimateWeights
  BY <1>1, <1>2, <1>3, <1>5 DEF EstimateWeights, DeliveryInv, OthersOK
<1>6. CASE \E r \in Runs : RemoteEnds(r)
  BY <1>1, <1>2, <1>3, <1>6 DEF RemoteEnds, DeliveryInv, OthersOK, posts
<1> QED
  BY <1>4, <1>5, <1>6

LEMMA DeliveryInvStutters ==
    ASSUME DeliveryInv, UNCHANGED deliveryVars
    PROVE  DeliveryInv'
<1>1. UNCHANGED <<posts, views, rows, remote, lock, driver, stream, reader, deliveryFaults>>
  BY DEF deliveryVars, posts, views, rows
<1>2. RowsOK' /\ EventsAgree' /\ RowsGrow
  BY <1>1, RowsStay DEF DeliveryInv
<1> QED
  BY <1>1, <1>2, HandsStay, ReadersStay, ViewsStay DEF DeliveryInv, OthersOK, posts

LEMMA DeliveryInvStep ==
    ASSUME DeliveryInv, [DeliveryNext]_deliveryVars
    PROVE  DeliveryInv'
<1>1. CASE \E c \in Requests, r \in Runs : Enqueue(c, r)
  BY <1>1, EnqueueStep
<1>2. CASE \E c \in Requests : PublishWakeup(c)
  BY <1>2, PublishStep
<1>3. CASE \E d \in Drivers : Deliver(d) \/ LoseSession(d) \/ StopDriver(d)
  BY <1>3, ConnectStep, ClaimReturnsStep, ClaimStep, ComputeStep, PersistStep, CloseStep,
     LoseStep, StopStep DEF Deliver
<1>4. CASE \E w \in Workers : StartWorker(w) \/ ReadBatch(w) \/ HandleEntry(w) \/ LookupFails(w)
  BY <1>4, WorkerStep
<1>5. CASE \E r \in Runs : ReadStatus(r) \/ ReadResult(r)
  BY <1>5, ViewStep
<1>6. CASE EditPosts \/ EstimateWeights \/ \E r \in Runs : RemoteEnds(r)
  BY <1>6, EnvironmentStep
<1>7. CASE UNCHANGED deliveryVars
  BY <1>7, DeliveryInvStutters
<1> QED
  BY <1>1, <1>2, <1>3, <1>4, <1>5, <1>6, <1>7 DEF DeliveryNext

THEOREM DeliveryInvariant == DeliverySpec => []DeliveryInv
BY DeliveryInvInit, DeliveryInvStep, PTL DEF DeliverySpec

\* Every variable keeps its type (DeliveryTypeOK), for any runs, requests and workers.
THEOREM DeliveryTypeCorrectness == DeliverySpec => []DeliveryTypeOK
BY DeliveryInvariant, InvImpliesType, PTL

\* The event tables of a run agree, however its deliveries interleave, stop or are cut.
THEOREM EventsAlwaysAgree == DeliverySpec => []EventsAgree
<1>1. DeliveryInv => EventsAgree
  BY DEF DeliveryInv
<1> QED
  BY <1>1, DeliveryInvariant, PTL

\* A reader is never shown a succeeded run without its result.
THEOREM SuccessIsShownWhole == DeliverySpec => []SucceededIsShownWithResult
<1>1. DeliveryInv => SucceededIsShownWithResult
  BY DEF DeliveryInv, ViewsOK
<1> QED
  BY <1>1, DeliveryInvariant, PTL

-----------------------------------------------------------------------------
(* Exclusion: while no session is cut, the lock of a run is held by whoever works on *)
(* it.                                                                                *)

Holding == {"claim", "compute", "persist", "close"}

LockHeld ==
    deliveryFaults = 0 =>
        \A d \in Drivers : driver[d].pc \in Holding => lock[driver[d].run] = d

LEMMA HeldAlone == LockHeld => ComputesAlone
BY DEF LockHeld, ComputesAlone, Working, Holding

\* Steps of one driver that leave the locks alone and begin no work.
LEMMA LockStays ==
    ASSUME LockHeld, NEW d, UNCHANGED lock,
           deliveryFaults' = 0 => deliveryFaults = 0,
           \A e \in Drivers : e # d => driver'[e] = driver[e],
           driver'[d].pc \in Holding =>
               driver[d].pc \in Holding /\ driver'[d].run = driver[d].run
    PROVE  LockHeld'
BY DEF LockHeld

LEMMA HoldFrame ==
    ASSUME DeliveryInv, NEW d \in Drivers, NEW x, Hold(d, x)
    PROVE  driver'[d] = x /\ \A e \in Drivers : e # d => driver'[e] = driver[e]
BY DEF DeliveryInv, HandsOK, Hold

LEMMA GotoFrame ==
    ASSUME DeliveryInv, NEW d \in Drivers, NEW pc, Goto(d, pc)
    PROVE  /\ driver'[d].pc = pc /\ driver'[d].run = driver[d].run
           /\ \A e \in Drivers : e # d => driver'[e] = driver[e]
<1> DEFINE x == [driver[d] EXCEPT !.pc = pc]
<1>1. x.pc = pc /\ x.run = driver[d].run
  BY DEF DeliveryInv, HandsOK, Deliveries
<1>2. Hold(d, x)
  BY DEF Goto
<1> HIDE DEF x
<1> QED
  BY <1>1, <1>2, HoldFrame

LEMMA FaultsGrow ==
    ASSUME DeliveryInv, [DeliveryNext]_deliveryVars
    PROVE  /\ deliveryFaults' = 0 => deliveryFaults = 0
           /\ Fault => deliveryFaults' # 0
<1>1. deliveryFaults \in Nat
  BY DEF DeliveryInv, OthersOK
<1>2. ASSUME NEW d \in Drivers, Deliver(d) PROVE UNCHANGED deliveryFaults \/ Fault
  <2>1. CASE Connect(d) \/ ClaimReturns(d) \/ Claim(d) \/ Close(d)
    BY <2>1 DEF Connect, ClaimReturns, Claim, Close
  <2>2. CASE Compute(d)
    BY <2>2 DEF Compute, Reconstruct, AdjudicationFails, SubmitMeasurement, ReadMeasurement
  <2>3. CASE Persist(d)
    BY <2>3 DEF Persist, PersistReturns, PersistOutcome, PersistReceipt, PersistEvidenceFails,
       PersistNothing, PersistRaises
  <2> QED
    BY <1>2, <2>1, <2>2, <2>3 DEF Deliver
<1>3. ASSUME NEW d \in Drivers, LoseSession(d) \/ StopDriver(d) PROVE Fault
  BY <1>3 DEF LoseSession, StopDriver
<1>4. ASSUME NEW c \in Requests, NEW r \in Runs, Enqueue(c, r) \/ PublishWakeup(c)
      PROVE  UNCHANGED deliveryFaults
  BY <1>4 DEF Enqueue, EnqueueNew, EnqueueResume, PublishWakeup
<1>5. ASSUME NEW w \in Workers, StartWorker(w) \/ ReadBatch(w) \/ HandleEntry(w) \/ LookupFails(w)
      PROVE  UNCHANGED deliveryFaults \/ Fault
  BY <1>5 DEF StartWorker, ReadBatch, HandleEntry, LookupFails
<1>6. ASSUME \/ \E r \in Runs : ReadStatus(r) \/ ReadResult(r) \/ RemoteEnds(r)
             \/ EditPosts \/ EstimateWeights \/ UNCHANGED deliveryVars
      PROVE  UNCHANGED deliveryFaults
  BY <1>6 DEF ReadStatus, ReadResult, RemoteEnds, EditPosts, EstimateWeights, deliveryVars
<1>7. ASSUME NEW c \in Requests, PublishWakeup(c) PROVE UNCHANGED deliveryFaults
  BY <1>7 DEF PublishWakeup
<1>8. UNCHANGED deliveryFaults \/ Fault
  BY <1>2, <1>3, <1>4, <1>5, <1>6, <1>7 DEF DeliveryNext
<1> QED
  BY <1>1, <1>8 DEF Fault

LEMMA LockHeldStep ==
    ASSUME DeliveryInv, LockHeld, [DeliveryNext]_deliveryVars
    PROVE  LockHeld'
<1>1. deliveryFaults' = 0 => deliveryFaults = 0
  BY FaultsGrow
<1>2. ASSUME NEW c \in Requests, NEW r \in Runs, Enqueue(c, r) PROVE LockHeld'
  <2>1. c \in Drivers /\ Hold(c, DeliveryOf(r, "publish")) /\ UNCHANGED lock
    BY <1>2 DEF Enqueue, EnqueueNew, EnqueueResume, Drivers
  <2>2. DeliveryOf(r, "publish").pc \notin Holding
    BY NoDeliveryType DEF Phases, Holding
  <2> QED
    BY <1>1, <2>1, <2>2, HoldFrame, LockStays
<1>3. ASSUME NEW c \in Requests, PublishWakeup(c) PROVE LockHeld'
  <2>1. c \in Drivers /\ Goto(c, "connect") /\ UNCHANGED lock
    BY <1>3 DEF PublishWakeup, Drivers
  <2>2. "connect" \notin Holding
    BY DEF Holding
  <2> QED
    BY <1>1, <2>1, <2>2, GotoFrame, LockStays
<1>4. ASSUME NEW d \in Drivers, Connect(d) PROVE LockHeld'
  <2>1. driver[d].pc = "connect" /\ driver[d].run \in Runs
    BY <1>4 DEF Connect, DeliveryInv, HandsOK
  <2>2. CASE lock[driver[d].run] = NoDriver
    <3>1. lock' = [lock EXCEPT ![driver[d].run] = d] /\ Goto(d, "claim")
      BY <1>4, <2>2 DEF Connect
    <3>2. driver'[d].pc = "claim" /\ driver'[d].run = driver[d].run
          /\ \A e \in Drivers : e # d => driver'[e] = driver[e]
      BY <3>1, GotoFrame
    <3>3. lock \in [Runs -> Drivers \cup {NoDriver}]
      BY DEF DeliveryInv, OthersOK
    <3>4. ASSUME NEW e \in Drivers, driver'[e].pc \in Holding, deliveryFaults' = 0
          PROVE  lock'[driver'[e].run] = e
      <4>1. CASE e = d
        BY <2>1, <3>1, <3>2, <3>3, <4>1
      <4>2. CASE e # d
        <5>1. driver'[e] = driver[e] /\ lock[driver[e].run] = e
          BY <1>1, <3>2, <3>4, <4>2 DEF LockHeld
        <5>2. driver[e].run # driver[d].run
          BY <2>2, <5>1, DriversAssumption
        <5>3. driver[e].run \in Runs
          BY <3>4, <5>1 DEF DeliveryInv, HandsOK, Holding
        <5> QED
          BY <3>1, <3>3, <5>1, <5>2, <5>3
      <4> QED
        BY <4>1, <4>2
    <3> QED
      BY <3>4 DEF LockHeld
  <2>3. CASE lock[driver[d].run] # NoDriver
    <3>1. UNCHANGED lock /\ Hold(d, NoDelivery) /\ NoDelivery.pc \notin Holding
      BY <1>4, <2>3, NoDeliveryType DEF Connect, Holding
    <3> QED
      BY <1>1, <3>1, HoldFrame, LockStays
  <2> QED
    BY <2>2, <2>3
<1>5. ASSUME NEW d \in Drivers, ClaimReturns(d) \/ Persist(d) PROVE LockHeld'
  <2>1. driver[d].pc \in Holding /\ UNCHANGED lock /\ Goto(d, "close")
    BY <1>5 DEF ClaimReturns, Persist, PersistReturns, PersistOutcome, PersistReceipt,
       PersistEvidenceFails, PersistNothing, PersistRaises, Settle, Unsettled, Holding
  <2> QED
    BY <1>1, <2>1, GotoFrame, LockStays
<1>6. ASSUME NEW d \in Drivers, Claim(d) PROVE LockHeld'
  <2>1. driver[d].pc \in Holding /\ UNCHANGED lock
    BY <1>6 DEF Claim, Holding
  <2>2. PICK x : Hold(d, x) /\ x.run = driver[d].run
    <3> DEFINE r == driver[d].run
               u == IF kind[r] = "lineage" THEN InputPosts(d, r) ELSE {}
               b == r \in receipt
               y == [driver[d] EXCEPT !.pc = "compute", !.used = u, !.receipted = b]
    <3>1. Hold(d, y)
      BY <1>6 DEF Claim
    <3>2. y.run = driver[d].run
      <4> HIDE DEF u, b
      <4> QED
        BY DEF DeliveryInv, HandsOK, Deliveries
    <3> HIDE DEF y
    <3> QED
      BY <3>1, <3>2
  <2> QED
    BY <1>1, <2>1, <2>2, HoldFrame, LockStays
<1>7. ASSUME NEW d \in Drivers, Compute(d) PROVE LockHeld'
  <2>1. driver[d].pc \in Holding /\ UNCHANGED lock
    BY <1>7 DEF Compute, Holding
  <2>2. ASSUME NEW o, Computed(d, o) PROVE \E x : Hold(d, x) /\ x.run = driver[d].run
    <3> DEFINE y == [driver[d] EXCEPT !.pc = "persist", !.outcome = o]
    <3>1. Hold(d, y)
      BY <2>2 DEF Computed
    <3>2. y.run = driver[d].run
      BY DEF DeliveryInv, HandsOK, Deliveries
    <3> HIDE DEF y
    <3> QED
      BY <3>1, <3>2
  <2>3. CASE AdjudicationFails(d)
    BY <1>1, <2>1, <2>3, GotoFrame, LockStays DEF AdjudicationFails
  <2>4. CASE Reconstruct(d) \/ SubmitMeasurement(d) \/ ReadMeasurement(d)
    <3>1. PICK x : Hold(d, x) /\ x.run = driver[d].run
      BY <2>2, <2>4 DEF Reconstruct, SubmitMeasurement, ReadMeasurement
    <3> QED
      BY <1>1, <2>1, <3>1, HoldFrame, LockStays
  <2> QED
    BY <1>7, <2>3, <2>4 DEF Compute
<1>8. ASSUME NEW d \in Drivers, Close(d) PROVE LockHeld'
  <2>1. Hold(d, NoDelivery) /\ NoDelivery.pc \notin Holding
        /\ lock' = [r \in Runs |-> IF lock[r] = d THEN NoDriver ELSE lock[r]]
    BY <1>8, NoDeliveryType DEF Close, Release, Holding
  <2>2. ASSUME NEW e \in Drivers, driver'[e].pc \in Holding, deliveryFaults' = 0
        PROVE  lock'[driver'[e].run] = e
    <3>1. e # d /\ driver'[e] = driver[e]
      BY <2>1, <2>2, HoldFrame
    <3>2. lock[driver[e].run] = e /\ driver[e].run \in Runs
      BY <1>1, <2>2, <3>1 DEF LockHeld, DeliveryInv, HandsOK, Holding
    <3> QED
      BY <2>1, <3>1, <3>2
  <2> QED
    BY <2>2 DEF LockHeld
<1>9. ASSUME NEW d \in Drivers, LoseSession(d) \/ StopDriver(d) PROVE LockHeld'
  BY <1>9, FaultsGrow DEF LoseSession, StopDriver, LockHeld
<1>10. ASSUME NEW w \in Workers, HandleEntry(w) PROVE LockHeld'
  <2>1. reader[w].next + 1 \in 1 .. Len(stream)
    BY <1>10, LenProperties DEF HandleEntry, DeliveryInv, ReadersOK, Readers, Within
  <2>2. stream[reader[w].next + 1] \in Runs
    BY <2>1, ElementOfSeq DEF DeliveryInv, ReadersOK
  <2>3. w \in Drivers /\ UNCHANGED lock
        /\ Hold(w, DeliveryOf(stream[reader[w].next + 1], "connect"))
    BY <1>10 DEF HandleEntry, Drivers
  <2>4. DeliveryOf(stream[reader[w].next + 1], "connect").pc \notin Holding
    BY <2>2, NoDeliveryType DEF Phases, Holding
  <2> QED
    BY <1>1, <2>3, <2>4, HoldFrame, LockStays
<1>11. CASE UNCHANGED <<driver, lock>>
  BY <1>1, <1>11 DEF LockHeld
<1>12. CASE \/ \E w \in Workers : StartWorker(w) \/ ReadBatch(w) \/ LookupFails(w)
            \/ \E r \in Runs : ReadStatus(r) \/ ReadResult(r) \/ RemoteEnds(r)
            \/ EditPosts \/ EstimateWeights
            \/ UNCHANGED deliveryVars
  BY <1>11, <1>12 DEF StartWorker, ReadBatch, LookupFails, ReadStatus, ReadResult, RemoteEnds,
     EditPosts, EstimateWeights, deliveryVars
<1> QED
  BY <1>2, <1>3, <1>4, <1>5, <1>6, <1>7, <1>8, <1>9, <1>10, <1>12 DEF DeliveryNext, Deliver

\* The advisory lock keeps the computation of a run alone while no session is cut, for
\* any number of requests and workers.
THEOREM LockExcludes == DeliverySpec => []ComputesAlone
<1>1. DeliveryInit => LockHeld
  BY NoDeliveryType DEF DeliveryInit, LockHeld, Holding
<1>2. DeliveryInv /\ LockHeld /\ [DeliveryNext]_deliveryVars => LockHeld'
  BY LockHeldStep
<1> QED
  BY <1>1, <1>2, DeliveryInvariant, HeldAlone, PTL DEF DeliverySpec

-----------------------------------------------------------------------------
(* AnalysisDelivery implements OneOutcome. *)

PhaseOf == [r \in Runs |-> Phase(r)]

LEMMA PhaseByStatus ==
    ASSUME DeliveryInv, NEW r \in Runs
    PROVE  /\ Status(r) = "pending" => Phase(r) = "requested"
           /\ Status(r) = "running" => Phase(r) = "started"
           /\ Status(r) \in Terminal => Phase(r) = Status(r)
           /\ Phase(r) = "requested" => Status(r) = "pending"
           /\ Phase(r) = "started" => Status(r) = "running"
BY StatusByLength DEF DeliveryInv, Phase, Terminal

LEMMA OutcomeStutters ==
    ASSUME UNCHANGED <<statuses, result>>
    PROVE  UNCHANGED <<PhaseOf, result>>
BY DEF PhaseOf, Phase, Status

LEMMA OutcomeStarts ==
    ASSUME DeliveryInv, DeliveryInv', NEW r \in Runs, Status(r) = "pending",
           statuses' = [statuses EXCEPT ![r] = Append(@, "running")], UNCHANGED result
    PROVE  Outcome!StartRun(r)
<1>1. Len(statuses[r]) = 1 /\ statuses \in [Runs -> Seq({"pending", "running"} \cup Terminal)]
  BY StatusByLength DEF DeliveryInv, RowsOK
<1>2. Status(r)' = "running" /\ \A q \in Runs : q # r => statuses'[q] = statuses[q]
  <2> DEFINE h == statuses[r]
             k == Append(h, "running")
  <2>1. Len(k) = 2 /\ k[2] = "running"
    BY <1>1, HistoryAppended
  <2> HIDE DEF k
  <2>2. statuses' = [statuses EXCEPT ![r] = k]
    BY DEF k
  <2> QED
    BY <1>1, <2>1, <2>2 DEF Status
<1>3. Phase(r) = "requested" /\ Phase(r)' = "started"
  BY <1>2 DEF Phase
<1>4. \A q \in Runs : q # r => Phase(q)' = Phase(q)
  BY <1>2 DEF Phase, Status
<1>5. PhaseOf' = [PhaseOf EXCEPT ![r] = "started"]
  BY <1>3, <1>4 DEF PhaseOf
<1> QED
  BY <1>3, <1>5 DEF Outcome!StartRun, PhaseOf

LEMMA OutcomeEnds ==
    ASSUME DeliveryInv, NEW r \in Runs, NEW x \in Endings, Status(r) = "running",
           statuses' = [statuses EXCEPT ![r] = Append(@, x.status)],
           result' = [result EXCEPT ![r] = IF x.result = NoResult THEN @ ELSE x.result]
    PROVE  Outcome!OutcomeNext
<1>1. Len(statuses[r]) = 2 /\ statuses \in [Runs -> Seq({"pending", "running"} \cup Terminal)]
      /\ result \in [Runs -> Results]
  BY StatusByLength DEF DeliveryInv, RowsOK
<1>2. x.status \in Terminal /\ x.result \in Results
      /\ (x.status = "succeeded" <=> x.result # NoResult)
  BY DEF Endings
<1>3. Status(r)' = x.status /\ \A q \in Runs : q # r => statuses'[q] = statuses[q]
  <2> DEFINE h == statuses[r]
             k == Append(h, x.status)
  <2>1. Len(k) = 3 /\ k[3] = x.status
    <3>1. h \in Seq({"pending", "running"} \cup Terminal) /\ Len(h) = 2
      BY <1>1
    <3>2. x.status \in {"pending", "running"} \cup Terminal
      BY <1>2
    <3> QED
      BY <3>1, <3>2, HistoryAppended
  <2> HIDE DEF k
  <2>2. statuses' = [statuses EXCEPT ![r] = k]
    BY DEF k
  <2> QED
    BY <1>1, <2>1, <2>2 DEF Status
<1>4. Phase(r) = "started" /\ Phase(r)' = x.status
  BY <1>2, <1>3 DEF Phase, Terminal
<1>5. \A q \in Runs : q # r => Phase(q)' = Phase(q)
  BY <1>3 DEF Phase, Status
<1>6. PhaseOf' = [PhaseOf EXCEPT ![r] = x.status]
  BY <1>4, <1>5 DEF PhaseOf
<1>7. CASE x.status = "succeeded"
  <2>1. result' = [result EXCEPT ![r] = x.result] /\ x.result \in Results \ {NoResult}
    BY <1>1, <1>2, <1>7
  <2>2. Outcome!Succeed(r, x.result)
    BY <1>4, <1>6, <1>7, <2>1 DEF Outcome!Succeed, PhaseOf
  <2> QED
    BY <2>1, <2>2 DEF Outcome!OutcomeNext
<1>8. CASE x.status = "failed"
  <2>1. result' = result
    BY <1>1, <1>2, <1>8
  <2>2. Outcome!Fail(r)
    BY <1>4, <1>6, <1>8, <2>1 DEF Outcome!Fail, PhaseOf
  <2> QED
    BY <2>2 DEF Outcome!OutcomeNext
<1> QED
  BY <1>2, <1>7, <1>8 DEF Terminal

LEMMA OutcomeStep ==
    ASSUME DeliveryInv, DeliveryInv', [DeliveryNext]_deliveryVars
    PROVE  [Outcome!OutcomeNext]_<<PhaseOf, result>>
<1>1. ASSUME NEW c \in Requests, NEW r \in Runs, EnqueueNew(c, r) PROVE Outcome!OutcomeNext
  BY <1>1, OutcomeStarts DEF EnqueueNew, Outcome!OutcomeNext
<1>2. ASSUME NEW d \in Drivers, NEW x \in Endings, Unsettled(d), Settle(d, x)
      PROVE  Outcome!OutcomeNext
  <2>1. driver[d].run \in Runs
    BY <1>2 DEF Unsettled, DeliveryInv, HandsOK
  <2> QED
    BY <1>2, <2>1, OutcomeEnds DEF Settle
<1>3. ASSUME NEW d \in Drivers, PersistOutcome(d) \/ PersistEvidenceFails(d)
      PROVE  Outcome!OutcomeNext
  BY <1>2, <1>3, EndingType, FailureType DEF PersistOutcome, PersistEvidenceFails
<1>4. ASSUME NEW d \in Drivers,
             PersistReturns(d) \/ PersistReceipt(d) \/ PersistNothing(d) \/ PersistRaises(d)
      PROVE  UNCHANGED <<statuses, result>>
  BY <1>4 DEF PersistReturns, PersistReceipt, PersistNothing, PersistRaises, rows
<1>5. ASSUME NEW d \in Drivers,
             Connect(d) \/ ClaimReturns(d) \/ Claim(d) \/ Compute(d) \/ Close(d) \/ LoseSession(d)
                 \/ StopDriver(d)
      PROVE  UNCHANGED <<statuses, result>>
  BY <1>5 DEF Connect, ClaimReturns, Claim, Compute, Close, LoseSession, StopDriver, rows
<1>6. ASSUME NEW c \in Requests, NEW r \in Runs, EnqueueResume(c, r)
      PROVE  UNCHANGED <<statuses, result>>
  BY <1>6 DEF EnqueueResume, rows
<1>7. ASSUME \/ \E c \in Requests : PublishWakeup(c)
             \/ \E w \in Workers : StartWorker(w) \/ ReadBatch(w) \/ HandleEntry(w) \/ LookupFails(w)
             \/ \E r \in Runs : ReadStatus(r) \/ ReadResult(r) \/ RemoteEnds(r)
             \/ EditPosts \/ EstimateWeights \/ UNCHANGED deliveryVars
      PROVE  UNCHANGED <<statuses, result>>
  BY <1>7 DEF PublishWakeup, StartWorker, ReadBatch, HandleEntry, LookupFails, ReadStatus,
     ReadResult, RemoteEnds, EditPosts, EstimateWeights, deliveryVars, rows
<1> QED
  BY <1>1, <1>3, <1>4, <1>5, <1>6, <1>7, OutcomeStutters
  DEF DeliveryNext, Enqueue, Deliver, Persist

\* A run is started once, ends at most once and keeps its outcome, whatever sessions are
\* lost and whoever is stopped.
THEOREM DeliveryImplementsOutcome == DeliverySpec => ImplementsOutcome
<1>1. DeliveryInit => Outcome!OutcomeInit
  <2> SUFFICES ASSUME DeliveryInit PROVE Outcome!OutcomeInit
    OBVIOUS
  <2>1. \A r \in Runs : Status(r) = "pending"
    BY DeliveryInvInit, StatusByLength DEF DeliveryInit, Status
  <2>2. \A r \in Runs : Phase(r) = "requested"
    BY <2>1 DEF Phase
  <2> QED
    BY <2>2 DEF DeliveryInit, Outcome!OutcomeInit
<1>2. DeliveryInv /\ DeliveryInv' /\ [DeliveryNext]_deliveryVars
      => [Outcome!OutcomeNext]_<<PhaseOf, result>>
  BY OutcomeStep
<1> QED
  BY <1>1, <1>2, DeliveryInvariant, PTL DEF DeliverySpec, ImplementsOutcome, Outcome!OutcomeSpec, PhaseOf

-----------------------------------------------------------------------------
(* The registry.  NoFutureInformation needs that snapshots are found again by their *)
(* digest and that a stored post keeps its time.                                    *)

\* The type of the requests, apart from the rows.
CreatorsOK ==
    /\ creator \in [Creators -> Creating]
    /\ \A c \in Creators :
          /\ creator[c].pc # "idle" => creator[c].key \in Keys
          /\ creator[c].pc = "insert" => \A x \in creator[c].documents : born[x] # 0
          /\ creator[c].reply # "none" => creator[c].pc = "done"

\* A snapshot is the only one of its digest, and none of its posts is younger than it.
SnapshotsOK ==
    /\ \A s, t \in snapshots : s.digest = t.digest => s = t
    /\ \A s \in snapshots : \A x \in s.members : born[x] # 0 /\ born[x] =< s.available

\* A run has its snapshot, and was asked for a cutoff that its snapshot respects.
RunsOK ==
    \A k \in Keys : run[k].exists =>
        \E s \in snapshots : s.digest = run[k].digest /\ s.available =< run[k].cutoff

RegistryInv == RegistryTypeOK /\ CreatorsOK /\ SnapshotsOK /\ RunsOK /\ AnswersMatch

\* Some post of a set that is not empty is the latest.
LEMMA LatestExists ==
    ASSUME RegistryTypeOK, NEW D \in SUBSET Documents, D # {}
    PROVE  \E t \in {born[x] : x \in D} : \A x \in D : born[x] =< t
<1> DEFINE T == {MaxTime - born[x] : x \in D}
<1>1. T \in SUBSET Nat /\ T # {}
  BY RegistryLimits DEF RegistryTypeOK, Times
<1> DEFINE R == {p \in Nat \X Nat : p[1] < p[2]}
<1>2. PICK m \in T : \A n \in T : ~(<<n, m>> \in R)
  <2>1. IsWellFoundedOn(R, Nat)
    BY NatLessThanWellFounded, Zenon DEF OpToRel
  <2> HIDE DEF R, T
  <2> QED
    BY <1>1, <2>1, WFMin
<1>3. \A n \in T : ~(n < m)
  BY <1>1, <1>2
<1>4. PICK y \in D : m = MaxTime - born[y]
  BY <1>2
<1>5. \A x \in D : born[x] =< born[y]
  BY <1>3, <1>4, RegistryLimits DEF RegistryTypeOK, Times
<1> QED
  BY <1>4, <1>5

LEMMA LatestBounds ==
    ASSUME RegistryTypeOK, NEW D \in SUBSET Documents, NEW default \in Times
    PROVE  Latest(D, default) \in Times /\ \A x \in D : born[x] =< Latest(D, default)
<1>1. CASE D = {}
  BY <1>1 DEF Latest
<1>2. CASE D # {}
  <2> DEFINE t == CHOOSE t \in {born[x] : x \in D} : \A x \in D : born[x] =< t
  <2>1. t \in {born[x] : x \in D} /\ \A x \in D : born[x] =< t
    BY <1>2, LatestExists
  <2>2. t \in Times
    BY <2>1 DEF RegistryTypeOK
  <2> QED
    BY <1>2, <2>1, <2>2 DEF Latest
<1> QED
  BY <1>1, <1>2

LEMMA SnapshotForOK ==
    ASSUME RegistryInv, NEW c \in Creators, creator[c].pc = "insert"
    PROVE  /\ SnapshotFor(c) \in Snapshots /\ SnapshotFor(c).digest = DigestOf(c)
           /\ \A x \in SnapshotFor(c).members : born[x] # 0 /\ born[x] =< SnapshotFor(c).available
           /\ \A t \in snapshots : t.digest = DigestOf(c) => t = SnapshotFor(c)
<1>1. CASE \E s \in snapshots : s.digest = DigestOf(c)
  <2>1. SnapshotFor(c) \in snapshots /\ SnapshotFor(c).digest = DigestOf(c)
    BY <1>1 DEF SnapshotFor
  <2> QED
    BY <2>1 DEF RegistryInv, RegistryTypeOK, SnapshotsOK
<1>2. CASE ~\E s \in snapshots : s.digest = DigestOf(c)
  <2> DEFINE D == creator[c].documents
             t == Latest(D, creator[c].cutoff)
             s == [digest |-> DigestOf(c), members |-> D, available |-> t]
  <2>1. creator[c] \in Creating
    BY DEF RegistryInv, CreatorsOK
  <2>2. D \in SUBSET Documents /\ creator[c].cutoff \in Times /\ DigestOf(c) \in Digests
    BY <2>1 DEF Creating, DigestOf, Digests
  <2>3. t \in Times /\ \A x \in D : born[x] =< t
    BY <2>2, LatestBounds DEF RegistryInv
  <2>4. SnapshotFor(c) = s
    BY <1>2 DEF SnapshotFor
  <2>5. \A x \in D : born[x] # 0
    BY DEF RegistryInv, CreatorsOK
  <2> HIDE DEF t, D
  <2>6. s \in Snapshots
    BY <2>2, <2>3 DEF Snapshots
  <2> QED
    BY <1>2, <2>3, <2>4, <2>5, <2>6
<1> QED
  BY <1>1, <1>2

LEMMA RegistryInvInit == RegistryInit => RegistryInv
<1> SUFFICES ASSUME RegistryInit PROVE RegistryInv
  OBVIOUS
<1>1. NotCreating \in Creating /\ NotCreating.pc = "idle" /\ NotCreating.reply = "none"
  BY RegistryLimits DEF NotCreating, Creating, Tokens, Times, Unspecified, Replies
<1>2. NoRunRow \in RunRows /\ ~NoRunRow.exists
  BY RegistryLimits DEF NoRunRow, RunRows, NoDigest, Digests, Tokens, Times, Unspecified
<1>3. RegistryTypeOK
  BY <1>1, <1>2, RegistryLimits DEF RegistryInit, RegistryTypeOK, Times
<1> QED
  BY <1>1, <1>2, <1>3
  DEF RegistryInit, RegistryInv, CreatorsOK, SnapshotsOK, RunsOK, AnswersMatch

\* Replacing the state of one request.
LEMMA OneCreator ==
    ASSUME RegistryInv, NEW c \in Creators, NEW x \in Creating,
           x.pc # "idle" => x.key \in Keys,
           x.pc = "insert" => \A y \in x.documents : born[y] # 0,
           x.reply # "none" => x.pc = "done",
           x.reply \in {"created", "replayed"} => run'[x.key].exists /\ run'[x.key].token = x.token,
           \A k \in Keys : run[k].exists => run'[k] = run[k],
           creator' = [creator EXCEPT ![c] = x], UNCHANGED born
    PROVE  CreatorsOK' /\ AnswersMatch' /\ creator' \in [Creators -> Creating]
<1>1. creator' \in [Creators -> Creating] /\ creator'[c] = x
      /\ \A e \in Creators : e # c => creator'[e] = creator[e]
  BY DEF RegistryInv, CreatorsOK
<1>2. CreatorsOK'
  BY <1>1 DEF RegistryInv, CreatorsOK
<1>3. \A a \in Creators : creator[a].reply # "none" => creator[a].key \in Keys
  BY DEF RegistryInv, CreatorsOK
<1>4. AnswersMatch'
  BY <1>1, <1>3 DEF RegistryInv, AnswersMatch
<1> QED
  BY <1>1, <1>2, <1>4

\* The new states of a request.
LEMMA AnsweredType ==
    ASSUME RegistryInv, NEW c \in Creators, NEW reply \in Replies, Answer(c, reply)
    PROVE  \E x \in Creating :
               /\ creator' = [creator EXCEPT ![c] = x]
               /\ x.pc = "done" /\ x.reply = reply
               /\ x.key = creator[c].key /\ x.token = creator[c].token
<1> DEFINE x == [creator[c] EXCEPT !.pc = "done", !.reply = reply]
<1>1. creator[c] \in Creating /\ creator \in [Creators -> Creating]
  BY DEF RegistryInv, CreatorsOK
<1>2. x \in Creating /\ x.pc = "done" /\ x.reply = reply /\ x.key = creator[c].key
      /\ x.token = creator[c].token
  BY <1>1 DEF Creating
<1>3. creator' = [creator EXCEPT ![c] = x]
  BY <1>1 DEF Answer
<1> HIDE DEF x
<1> QED
  BY <1>2, <1>3

LEMMA AskStep ==
    ASSUME RegistryInv, NEW c \in Creators, NEW k \in Keys, NEW token \in Tokens,
           AskRun(c, k, token)
    PROVE  RegistryInv'
<1> DEFINE cut == IF token = Unspecified THEN clock ELSE token
           x == [NotCreating EXCEPT !.pc = "read", !.key = k, !.token = token, !.cutoff = cut]
<1>1. cut \in Times
  BY DEF RegistryInv, RegistryTypeOK, Tokens, Times
<1>2. x \in Creating /\ x.pc = "read" /\ x.key = k /\ x.reply = "none"
  <2> HIDE DEF cut
  <2> QED
    BY <1>1 DEF Creating, NotCreating, Replies
<1>3. creator' = [creator EXCEPT ![c] = x]
  BY DEF AskRun
<1> HIDE DEF x
<1>4. CreatorsOK' /\ AnswersMatch' /\ creator' \in [Creators -> Creating]
  BY <1>2, <1>3, OneCreator DEF AskRun
<1>5. RegistryTypeOK'
  BY <1>4, RegistryLimits DEF AskRun, RegistryInv, RegistryTypeOK
<1> QED
  BY <1>4, <1>5 DEF AskRun, RegistryInv, SnapshotsOK, RunsOK

LEMMA ReplayStep ==
    ASSUME RegistryInv, NEW c \in Creators, ReplayRun(c)
    PROVE  RegistryInv'
<1> DEFINE reply == IF SameConfiguration(c) THEN "replayed" ELSE "refused"
<1>1. PICK x \in Creating :
          /\ creator' = [creator EXCEPT ![c] = x]
          /\ x.pc = "done" /\ x.reply = reply
          /\ x.key = creator[c].key /\ x.token = creator[c].token
  BY AnsweredType DEF ReplayRun, Replies
<1>2. x.key \in Keys
  BY <1>1 DEF ReplayRun, RegistryInv, CreatorsOK
<1>3. CreatorsOK' /\ AnswersMatch' /\ creator' \in [Creators -> Creating]
  BY <1>1, <1>2, OneCreator DEF ReplayRun, SameConfiguration
<1>4. RegistryTypeOK'
  BY <1>3 DEF ReplayRun, RegistryInv, RegistryTypeOK
<1> QED
  BY <1>3, <1>4 DEF ReplayRun, RegistryInv, SnapshotsOK, RunsOK

LEMMA CaptureStep ==
    ASSUME RegistryInv, NEW c \in Creators, CapturePosts(c)
    PROVE  RegistryInv'
<1> DEFINE D == Admitted(creator[c].cutoff)
           x == [creator[c] EXCEPT !.pc = "insert", !.documents = D]
<1>1. creator[c] \in Creating /\ creator \in [Creators -> Creating]
      /\ creator[c].key \in Keys /\ creator[c].reply = "none"
  BY DEF CapturePosts, RegistryInv, CreatorsOK
<1>2. D \in SUBSET Documents /\ \A y \in D : born[y] # 0
  BY DEF Admitted
<1>3. x \in Creating /\ x.pc = "insert" /\ x.key \in Keys /\ x.reply = "none" /\ x.documents = D
  <2> HIDE DEF D
  <2> QED
    BY <1>1, <1>2 DEF Creating
<1>4. creator' = [creator EXCEPT ![c] = x]
  BY <1>1 DEF CapturePosts
<1> HIDE DEF x, D
<1>5. CreatorsOK' /\ AnswersMatch' /\ creator' \in [Creators -> Creating]
  BY <1>2, <1>3, <1>4, OneCreator DEF CapturePosts
<1>6. RegistryTypeOK'
  BY <1>5 DEF CapturePosts, RegistryInv, RegistryTypeOK
<1> QED
  BY <1>5, <1>6 DEF CapturePosts, RegistryInv, SnapshotsOK, RunsOK

LEMMA InsertStep ==
    ASSUME RegistryInv, NEW c \in Creators, InsertRun(c)
    PROVE  RegistryInv'
<1> DEFINE k == creator[c].key
           s == SnapshotFor(c)
           row == [exists |-> TRUE, token |-> creator[c].token, cutoff |-> creator[c].cutoff,
                   digest |-> DigestOf(c)]
<1>1. creator[c] \in Creating /\ k \in Keys /\ ~run[k].exists
  BY DEF InsertRun, RegistryInv, CreatorsOK
<1>2. /\ s \in Snapshots /\ s.digest = DigestOf(c)
      /\ \A x \in s.members : born[x] # 0 /\ born[x] =< s.available
      /\ \A t \in snapshots : t.digest = DigestOf(c) => t = s
      /\ s.available =< creator[c].cutoff
      /\ snapshots' = snapshots \cup {s}
  BY SnapshotForOK DEF InsertRun, CutoffAllows
<1>3. row \in RunRows /\ row.exists /\ row.digest = DigestOf(c) /\ row.token = creator[c].token
      /\ row.cutoff = creator[c].cutoff
  BY <1>1 DEF RunRows, Creating, DigestOf, Digests
<1>4. run' = [run EXCEPT ![k] = row] /\ run \in [Keys -> RunRows] /\ UNCHANGED <<clock, born, withdrawn, creates>>
  BY DEF InsertRun, RegistryInv, RegistryTypeOK
<1> HIDE DEF row, s
<1>5. PICK x \in Creating :
          /\ creator' = [creator EXCEPT ![c] = x]
          /\ x.pc = "done" /\ x.reply = "created"
          /\ x.key = k /\ x.token = creator[c].token
  BY AnsweredType DEF InsertRun, Replies
<1>6. run'[k] = row /\ \A q \in Keys : q # k => run'[q] = run[q]
  BY <1>1, <1>4
<1>7. CreatorsOK' /\ AnswersMatch' /\ creator' \in [Creators -> Creating]
  BY <1>1, <1>3, <1>4, <1>5, <1>6, OneCreator
<1>8. RegistryTypeOK'
  BY <1>2, <1>3, <1>4, <1>7 DEF RegistryInv, RegistryTypeOK
<1>9. SnapshotsOK'
  BY <1>2, <1>4 DEF RegistryInv, SnapshotsOK
<1>10. RunsOK'
  BY <1>2, <1>3, <1>6 DEF RegistryInv, RunsOK
<1> QED
  BY <1>7, <1>8, <1>9, <1>10 DEF RegistryInv

LEMMA RaiseStep ==
    ASSUME RegistryInv, NEW c \in Creators, InsertRaises(c)
    PROVE  RegistryInv'
<1>1. PICK x \in Creating :
          /\ creator' = [creator EXCEPT ![c] = x]
          /\ x.pc = "done" /\ x.reply = "error"
          /\ x.key = creator[c].key /\ x.token = creator[c].token
  BY AnsweredType DEF InsertRaises, Replies
<1>2. x.key \in Keys
  BY <1>1 DEF InsertRaises, RegistryInv, CreatorsOK
<1>3. CreatorsOK' /\ AnswersMatch' /\ creator' \in [Creators -> Creating]
  BY <1>1, <1>2, OneCreator DEF InsertRaises
<1>4. RegistryTypeOK'
  BY <1>3 DEF InsertRaises, RegistryInv, RegistryTypeOK
<1> QED
  BY <1>3, <1>4 DEF InsertRaises, RegistryInv, SnapshotsOK, RunsOK

LEMMA EndStep ==
    ASSUME RegistryInv, NEW c \in Creators, EndCreate(c)
    PROVE  RegistryInv'
<1>1. NotCreating \in Creating /\ NotCreating.pc = "idle" /\ NotCreating.reply = "none"
  BY RegistryLimits DEF NotCreating, Creating, Tokens, Times, Unspecified, Replies
<1>2. CreatorsOK' /\ AnswersMatch' /\ creator' \in [Creators -> Creating]
  BY <1>1, OneCreator DEF EndCreate
<1>3. RegistryTypeOK'
  BY <1>2 DEF EndCreate, RegistryInv, RegistryTypeOK
<1> QED
  BY <1>2, <1>3 DEF EndCreate, RegistryInv, SnapshotsOK, RunsOK

\* A post that is written had no time before; nothing that is stored refers to it.
LEMMA WriteStep ==
    ASSUME RegistryInv, NEW x \in Documents, WritePost(x)
    PROVE  RegistryInv'
<1>1. PICK t \in 1 .. clock : born' = [born EXCEPT ![x] = t]
  BY DEF WritePost
<1>2. clock \in Times /\ born \in [Documents -> Times] /\ born[x] = 0 /\ t \in Times /\ t # 0
  BY RegistryLimits DEF WritePost, RegistryInv, RegistryTypeOK, Times
<1>3. born' \in [Documents -> Times] /\ born'[x] # 0 /\ \A y : y # x => born'[y] = born[y]
  BY <1>1, <1>2
<1>4. UNCHANGED <<clock, withdrawn, snapshots, run, creator, creates>>
  BY DEF WritePost
<1>5. RegistryTypeOK'
  BY <1>3, <1>4 DEF RegistryInv, RegistryTypeOK
<1>6. CreatorsOK'
  BY <1>3, <1>4 DEF RegistryInv, CreatorsOK
<1>7. SnapshotsOK'
  BY <1>2, <1>3, <1>4 DEF RegistryInv, SnapshotsOK
<1> QED
  BY <1>4, <1>5, <1>6, <1>7 DEF RegistryInv, RunsOK, AnswersMatch

LEMMA RegistryInvStep ==
    ASSUME RegistryInv, [RegistryNext]_registryVars
    PROVE  RegistryInv'
<1>1. ASSUME NEW x \in Documents, WithdrawPost(x) PROVE RegistryInv'
  BY <1>1 DEF WithdrawPost, RegistryInv, RegistryTypeOK, CreatorsOK, SnapshotsOK, RunsOK, AnswersMatch
<1>2. CASE ClockTicks
  BY <1>2, RegistryLimits
  DEF ClockTicks, RegistryInv, RegistryTypeOK, CreatorsOK, SnapshotsOK, RunsOK, AnswersMatch, Times
<1>3. CASE UNCHANGED registryVars
  BY <1>3 DEF registryVars, RegistryInv, RegistryTypeOK, CreatorsOK, SnapshotsOK, RunsOK, AnswersMatch
<1> QED
  BY <1>1, <1>2, <1>3, AskStep, ReplayStep, CaptureStep, InsertStep, RaiseStep, EndStep, WriteStep
  DEF RegistryNext

THEOREM RegistryInvariant == RegistrySpec => []RegistryInv
BY RegistryInvInit, RegistryInvStep, PTL DEF RegistrySpec

\* Every variable of the registry keeps its type.
THEOREM RegistryTypeCorrectness == RegistrySpec => []RegistryTypeOK
<1>1. RegistryInv => RegistryTypeOK
  BY DEF RegistryInv
<1> QED
  BY <1>1, RegistryInvariant, PTL

\* No run rests on evidence younger than its cutoff, for any number of requests, keys and
\* posts, however their transactions interleave and whatever is backdated.
THEOREM NothingFromTheFuture == RegistrySpec => []NoFutureInformation
<1>1. RegistryInv => NoFutureInformation
  <2> SUFFICES ASSUME RegistryInv, NEW k \in Keys, run[k].exists
               PROVE  /\ \E s \in snapshots : s.digest = run[k].digest
                      /\ SnapshotOf(k).available =< run[k].cutoff
                      /\ \A x \in SnapshotOf(k).members : born[x] =< run[k].cutoff
    BY DEF NoFutureInformation
  <2>1. PICK s \in snapshots : s.digest = run[k].digest /\ s.available =< run[k].cutoff
    BY DEF RegistryInv, RunsOK
  <2>2. SnapshotOf(k) = s
    BY <2>1 DEF SnapshotOf, RegistryInv, SnapshotsOK
  <2>3. ASSUME NEW x \in s.members PROVE born[x] =< run[k].cutoff
    <3>1. s \in Snapshots /\ run[k] \in RunRows /\ x \in Documents
      BY <2>1 DEF RegistryInv, RegistryTypeOK, Snapshots
    <3>2. born[x] \in Times /\ s.available \in Times /\ run[k].cutoff \in Times
      BY <3>1 DEF RegistryInv, RegistryTypeOK, Snapshots, RunRows
    <3>3. born[x] =< s.available
      BY <2>1 DEF RegistryInv, SnapshotsOK
    <3> QED
      BY <2>1, <3>2, <3>3 DEF Times
  <2> QED
    BY <2>1, <2>2, <2>3
<1> QED
  BY <1>1, RegistryInvariant, PTL

\* Whoever is told that a run exists gets the run that was asked for, in any race.
THEOREM AnswersAlwaysMatch == RegistrySpec => []AnswersMatch
<1>1. RegistryInv => AnswersMatch
  BY DEF RegistryInv
<1> QED
  BY <1>1, RegistryInvariant, PTL

-----------------------------------------------------------------------------
(* Both next to each other. *)

analysisVars == <<part, deliveryVars, registryVars>>

\* A behaviour of the composition is one of the delivery, with its fairness, and one of the
\* registry.
LEMMA AnalysisImplementsParts == AnalysisSpec => DeliverySpec /\ RegistrySpec
<1>1. AnalysisInit => DeliveryInit /\ RegistryInit
  BY DEF AnalysisInit
<1>2. [DeliveryStep \/ RegistryStep]_analysisVars => [DeliveryNext]_deliveryVars /\ [RegistryNext]_registryVars
  BY DEF DeliveryStep, RegistryStep, analysisVars
<1> QED
  BY <1>1, <1>2, PTL DEF AnalysisSpec, DeliverySpec, RegistrySpec, analysisVars

\* Every row and every request of the delivery and of the registry keeps its type.
THEOREM AnalysisTyped == AnalysisSpec => []AnalysisTypeOK
BY AnalysisImplementsParts, DeliveryTypeCorrectness, RegistryTypeCorrectness, PTL DEF AnalysisTypeOK

\* What is said of delivery and registry alone is true of them together: the events of a run
\* agree, one driver computes it, success is shown with its result, each delivery implements one
\* outcome, no run rests on younger evidence and every answer matches what was asked.
THEOREM AnalysisSound ==
    AnalysisSpec => /\ [](EventsAgree /\ ComputesAlone /\ SucceededIsShownWithResult)
                    /\ ImplementsOutcome
                    /\ [](NoFutureInformation /\ AnswersMatch)
BY AnalysisImplementsParts, EventsAlwaysAgree, LockExcludes, SuccessIsShownWhole,
   DeliveryImplementsOutcome, NothingFromTheFuture, AnswersAlwaysMatch, PTL
=============================================================================
