----------------------------- MODULE TicketProofs -----------------------------
(* Theorems about IssueTickets for every number of requests, rows and events. *)
EXTENDS IssueTickets, SequenceTheorems, WellFoundedInduction, TLAPS

TicketRow == [status : Statuses, day : Days \cup {NoDay}, derived : BOOLEAN, been : SUBSET Statuses]
Event == [event : Told, ticket : Nat, status : Statuses \cup {Untouched, "unknown"}]
Request ==
    [pc : {"idle", "create", "patch", "extract", "select", "upsert"} \cup Told,
     status : Statuses \cup {Untouched, "unknown"}, day : Days \cup {NoDay, BadDay},
     ticket : Nat \cup {Nobody}]

TypesInv ==
    /\ tickets \in Seq(TicketRow)
    /\ activity \in Seq(Event)
    /\ clerk \in [Clerks -> Request]
    /\ disturbed \in BOOLEAN

\* What a request has chosen or written is there, and is what it will be told to be.
RequestOK(rows, r) ==
    /\ r.ticket \in DOMAIN rows \cup {Nobody}
    /\ r.pc \in {"patch"} \cup Told => r.ticket \in DOMAIN rows
    /\ r.pc = "upsert" /\ r.ticket # Nobody => rows[r.ticket].derived
    /\ r.pc = "ticket_status_changed" => r.status \in rows[r.ticket].been
    /\ r.pc = "commitment_derived" => rows[r.ticket].derived

EventOK(rows, e) ==
    /\ e.ticket \in DOMAIN rows
    /\ e.event = "ticket_status_changed" => e.status \in rows[e.ticket].been
    /\ e.event = "commitment_derived" => rows[e.ticket].derived

RowsOK == \A t \in DOMAIN tickets : tickets[t].status \in tickets[t].been

\* One derived commitment is outstanding at most.
OneOutstanding == disturbed \/ \A t, u \in Outstanding(tickets) : t = u

TicketsInv ==
    /\ TypesInv
    /\ RowsOK
    /\ \A c \in Clerks : RequestOK(tickets, clerk[c])
    /\ \A i \in DOMAIN activity : EventOK(tickets, activity[i])
    /\ OneOutstanding

LEMMA TicketsInvInit == TicketsInit => TicketsInv
<1> SUFFICES ASSUME TicketsInit PROVE TicketsInv
  OBVIOUS
<1>1. TypesInv
  <2>1. NotCalled \in Request
    BY DEF NotCalled, Request
  <2>2. clerk \in [Clerks -> Request]
    BY <2>1 DEF TicketsInit
  <2>3. tickets \in Seq(TicketRow) /\ activity \in Seq(Event)
    BY EmptySeq DEF TicketsInit
  <2>4. disturbed \in BOOLEAN
    BY DEF TicketsInit
  <2> QED
    BY <2>2, <2>3, <2>4 DEF TypesInv
<1>2. /\ \A c \in Clerks : RequestOK(tickets, clerk[c])
      /\ \A i \in DOMAIN activity : EventOK(tickets, activity[i])
      /\ RowsOK /\ OneOutstanding
  BY DEF TicketsInit, RequestOK, NotCalled, Told, OneOutstanding, Outstanding, RowsOK
<1> QED
  BY <1>1, <1>2 DEF TicketsInv

\* Rows that succeed others: all are still there, with what they were derived from and have been.
Succeed(next, rows) ==
    /\ DOMAIN rows \subseteq DOMAIN next
    /\ \A t \in DOMAIN rows : rows[t].been \subseteq next[t].been /\ next[t].derived = rows[t].derived

\* A request proceeds and the rows grow.
LEMMA Proceeding ==
    ASSUME TicketsInv, NEW c \in Clerks, NEW state, Proceeds(c, state), UNCHANGED activity,
           tickets' \in Seq(TicketRow), Succeed(tickets', tickets),
           state \in Request, RequestOK(tickets', state),
           RowsOK', disturbed' \in BOOLEAN, OneOutstanding'
    PROVE  TicketsInv'
<1>1. clerk' = [clerk EXCEPT ![c] = state] /\ clerk \in [Clerks -> Request]
  BY DEF Proceeds, TicketsInv, TypesInv
<1>2. TypesInv'
  BY <1>1 DEF TicketsInv, TypesInv
<1>3. ASSUME NEW b \in Clerks PROVE RequestOK(tickets', clerk'[b])
  <2>1. CASE b = c
    BY <1>1, <2>1
  <2>2. CASE b # c
    <3>1. clerk'[b] = clerk[b] /\ RequestOK(tickets, clerk[b])
      BY <1>1, <2>2 DEF TicketsInv
    <3> QED
      BY <3>1 DEF RequestOK, Succeed, Told, TicketsInv, TypesInv
  <2> QED
    BY <2>1, <2>2
<1>4. ASSUME NEW i \in DOMAIN activity' PROVE EventOK(tickets', activity'[i])
  <2>1. activity' = activity /\ EventOK(tickets, activity[i])
    BY DEF TicketsInv
  <2> QED
    BY <2>1 DEF EventOK, Succeed
<1>5. /\ \A b \in Clerks : RequestOK(tickets, clerk[b])'
      /\ \A i \in DOMAIN activity' : EventOK(tickets, activity[i])'
  BY <1>3, <1>4 DEF RequestOK, EventOK
<1> QED
  BY <1>2, <1>5 DEF TicketsInv

\* A request proceeds and nothing is written.
LEMMA ProceedingIdly ==
    ASSUME TicketsInv, NEW c \in Clerks, NEW state, Proceeds(c, state),
           UNCHANGED <<tickets, activity, disturbed>>, state \in Request, RequestOK(tickets, state)
    PROVE  TicketsInv'
<1>1. tickets' \in Seq(TicketRow) /\ Succeed(tickets', tickets) /\ disturbed' \in BOOLEAN
  BY DEF TicketsInv, TypesInv, Succeed
<1>2. RowsOK' /\ OneOutstanding'
  BY DEF TicketsInv, RowsOK, OneOutstanding, Outstanding
<1> QED
  BY <1>1, <1>2, Proceeding

\* A row more, derived only if none is outstanding.
LEMMA OneMore ==
    ASSUME TicketsInv, NEW row \in TicketRow, row.status \in row.been, tickets' = Append(tickets, row),
           disturbed' \in BOOLEAN, disturbed => disturbed',
           disturbed' \/ ~row.derived \/ Outstanding(tickets) = {}
    PROVE  /\ tickets' \in Seq(TicketRow) /\ Succeed(tickets', tickets) /\ RowsOK' /\ OneOutstanding'
           /\ Len(tickets) + 1 \in DOMAIN tickets' /\ tickets'[Len(tickets) + 1] = row
           /\ Len(tickets) + 1 \in Nat
<1>1. tickets \in Seq(TicketRow)
  BY DEF TicketsInv, TypesInv
<1>2. /\ Len(tickets) \in Nat /\ DOMAIN tickets = 1 .. Len(tickets)
      /\ tickets' \in Seq(TicketRow) /\ Len(tickets') = Len(tickets) + 1
      /\ \A t \in 1 .. Len(tickets) : tickets'[t] = tickets[t]
      /\ tickets'[Len(tickets) + 1] = row
  BY <1>1, AppendProperties, LenProperties
<1>3. DOMAIN tickets' = 1 .. Len(tickets) + 1
  BY <1>2, LenProperties
<1>4. Succeed(tickets', tickets) /\ RowsOK'
  BY <1>2, <1>3 DEF Succeed, RowsOK, TicketsInv
<1>5. OneOutstanding'
  <2> SUFFICES ASSUME ~disturbed', NEW t \in Outstanding(tickets'), NEW u \in Outstanding(tickets')
               PROVE  t = u
    BY DEF OneOutstanding, Outstanding
  <2>1. \A v \in Outstanding(tickets') : v = Len(tickets) + 1 \/ v \in Outstanding(tickets)
    BY <1>2, <1>3 DEF Outstanding
  <2>2. Len(tickets) + 1 \in Outstanding(tickets') => row.derived
    BY <1>2 DEF Outstanding
  <2>3. \A v, x \in Outstanding(tickets) : v = x
    BY DEF TicketsInv, OneOutstanding
  <2> QED
    BY <2>1, <2>2, <2>3
<1> QED
  BY <1>2, <1>3, <1>4, <1>5

\* One row changes, and becomes outstanding only on record.
LEMMA OneChanged ==
    ASSUME TicketsInv, NEW t \in DOMAIN tickets, NEW row \in TicketRow, row.status \in row.been,
           row.derived = tickets[t].derived, tickets[t].been \subseteq row.been,
           tickets' = [tickets EXCEPT ![t] = row],
           disturbed' \in BOOLEAN, disturbed => disturbed',
           disturbed' \/ ~row.derived \/ row.status = "closed" \/ t \in Outstanding(tickets)
    PROVE  /\ tickets' \in Seq(TicketRow) /\ Succeed(tickets', tickets) /\ RowsOK' /\ OneOutstanding'
           /\ tickets'[t] = row
<1>1. tickets \in Seq(TicketRow)
  BY DEF TicketsInv, TypesInv
<1>2. /\ Len(tickets) \in Nat /\ DOMAIN tickets = 1 .. Len(tickets)
      /\ tickets' \in Seq(TicketRow) /\ DOMAIN tickets' = DOMAIN tickets
      /\ \A u \in DOMAIN tickets : tickets'[u] = IF u = t THEN row ELSE tickets[u]
  BY <1>1, ExceptSeq, LenProperties
<1>3. Succeed(tickets', tickets) /\ RowsOK'
  BY <1>2 DEF Succeed, RowsOK, TicketsInv
<1>4. OneOutstanding'
  <2> SUFFICES ASSUME ~disturbed', NEW v \in Outstanding(tickets'), NEW u \in Outstanding(tickets')
               PROVE  v = u
    BY DEF OneOutstanding, Outstanding
  <2>1. \A x \in Outstanding(tickets') : x \in Outstanding(tickets)
    BY <1>2 DEF Outstanding
  <2>2. \A y, x \in Outstanding(tickets) : y = x
    BY DEF TicketsInv, OneOutstanding
  <2> QED
    BY <2>1, <2>2
<1> QED
  BY <1>2, <1>3, <1>4

-----------------------------------------------------------------------------
(* One lemma per action. *)

LEMMA RequestTyped ==
    ASSUME TicketsInv, NEW c \in Clerks
    PROVE  clerk[c] \in Request /\ RequestOK(tickets, clerk[c])
BY DEF TicketsInv, TypesInv

LEMMA RefusedKeeps ==
    ASSUME TicketsInv, NEW c \in Clerks, Refused(c)
    PROVE  TicketsInv'
<1>1. NotCalled \in Request /\ RequestOK(tickets, NotCalled)
  BY DEF NotCalled, Request, RequestOK, Told
<1> QED
  BY <1>1, ProceedingIdly DEF Refused

LEMMA RequestsKeep ==
    ASSUME TicketsInv, NEW c \in Clerks,
           RequestCreate(c) \/ RequestPatch(c) \/ RequestDerivation(c)
    PROVE  TicketsInv'
<1>1. CASE RequestCreate(c)
  <2>1. PICK status \in Statuses \cup {"unknown"}, day \in Days \cup {NoDay, BadDay} :
            /\ Proceeds(c, [NotCalled EXCEPT !.pc = "create", !.status = status, !.day = day])
            /\ UNCHANGED <<tickets, activity, disturbed>>
    BY <1>1 DEF RequestCreate
  <2>2. [NotCalled EXCEPT !.pc = "create", !.status = status, !.day = day] \in Request
    BY DEF NotCalled, Request
  <2>3. RequestOK(tickets, [NotCalled EXCEPT !.pc = "create", !.status = status, !.day = day])
    BY DEF NotCalled, RequestOK, Told
  <2> QED
    BY <2>1, <2>2, <2>3, ProceedingIdly
<1>2. CASE RequestPatch(c)
  <2>1. PICK t \in DOMAIN tickets, status \in Statuses \cup {Untouched, "unknown"} :
            /\ Proceeds(c, [NotCalled EXCEPT !.pc = "patch", !.status = status, !.ticket = t])
            /\ UNCHANGED <<tickets, activity, disturbed>>
    BY <1>2 DEF RequestPatch
  <2>2. t \in Nat
    BY LenProperties DEF TicketsInv, TypesInv
  <2>3. [NotCalled EXCEPT !.pc = "patch", !.status = status, !.ticket = t] \in Request
    BY <2>2 DEF NotCalled, Request
  <2>4. RequestOK(tickets, [NotCalled EXCEPT !.pc = "patch", !.status = status, !.ticket = t])
    BY DEF NotCalled, RequestOK, Told
  <2> QED
    BY <2>1, <2>3, <2>4, ProceedingIdly
<1>3. CASE RequestDerivation(c)
  <2>1. [NotCalled EXCEPT !.pc = "extract"] \in Request
    BY DEF NotCalled, Request
  <2>2. RequestOK(tickets, [NotCalled EXCEPT !.pc = "extract"])
    BY DEF NotCalled, RequestOK, Told
  <2> QED
    BY <1>3, <2>1, <2>2, ProceedingIdly DEF RequestDerivation
<1> QED
  BY <1>1, <1>2, <1>3

LEMMA CreateKeeps ==
    ASSUME TicketsInv, NEW c \in Clerks, Create(c)
    PROVE  TicketsInv'
<1> DEFINE row == Ticket(clerk[c].status, clerk[c].day, FALSE)
           state == [clerk[c] EXCEPT !.pc = "ticket_created", !.ticket = Len(tickets) + 1]
<1>1. CASE clerk[c].status \notin Statuses \/ Unparsable(clerk[c].day)
  BY <1>1, RefusedKeeps DEF Create
<1>2. CASE ~(clerk[c].status \notin Statuses \/ Unparsable(clerk[c].day))
  <2>1. /\ tickets' = Append(tickets, row) /\ Proceeds(c, state)
        /\ UNCHANGED <<activity, disturbed>>
    BY <1>2 DEF Create, Stores
  <2>2. row \in TicketRow /\ row.status \in row.been /\ ~row.derived
    BY <1>2, RequestTyped DEF Ticket, TicketRow, Request, Unparsable
  <2> HIDE DEF row
  <2>3. disturbed' \in BOOLEAN
    BY <2>1 DEF TicketsInv, TypesInv
  <2>4. /\ tickets' \in Seq(TicketRow) /\ Succeed(tickets', tickets) /\ RowsOK' /\ OneOutstanding'
        /\ Len(tickets) + 1 \in DOMAIN tickets' /\ Len(tickets) + 1 \in Nat
    BY <2>1, <2>2, <2>3, OneMore
  <2>5. state \in Request /\ state.pc = "ticket_created" /\ state.ticket = Len(tickets) + 1
    BY <2>4, RequestTyped DEF Request, Told
  <2> HIDE DEF state
  <2>6. RequestOK(tickets', state)
    BY <2>4, <2>5 DEF RequestOK
  <2> QED
    BY <2>1, <2>3, <2>4, <2>5, <2>6, Proceeding
<1> QED
  BY <1>1, <1>2

LEMMA PatchKeeps ==
    ASSUME TicketsInv, NEW c \in Clerks, Patch(c)
    PROVE  TicketsInv'
<1> DEFINE status == clerk[c].status
           t == clerk[c].ticket
           row == [tickets[t] EXCEPT !.status = status, !.been = tickets[t].been \cup {status}]
           state == [clerk[c] EXCEPT !.pc = "ticket_status_changed", !.ticket = t]
<1>1. CASE status \notin Statuses
  BY <1>1, RefusedKeeps DEF Patch
<1>2. CASE status \in Statuses
  <2>1. /\ tickets' = [tickets EXCEPT ![t].status = status, ![t].been = @ \cup {status}]
        /\ Proceeds(c, state) /\ UNCHANGED activity
        /\ disturbed' = (disturbed \/ Reopens(t, status))
    BY <1>2 DEF Patch, Stores
  <2>2. t \in DOMAIN tickets /\ t \in Nat /\ tickets[t] \in TicketRow
    BY RequestTyped, LenProperties, ElementOfSeq DEF Patch, RequestOK, TicketsInv, TypesInv
  <2>3. /\ row \in TicketRow /\ row.status = status /\ row.been = tickets[t].been \cup {status}
        /\ row.derived = tickets[t].derived
    BY <1>2, <2>2 DEF TicketRow
  <2>4. tickets' = [tickets EXCEPT ![t] = row]
    BY <2>1, <2>2 DEF TicketRow
  <2> HIDE DEF row
  <2>5. disturbed' \in BOOLEAN /\ (disturbed => disturbed')
    BY <2>1 DEF TicketsInv, TypesInv
  <2>6. disturbed' \/ ~row.derived \/ row.status = "closed" \/ t \in Outstanding(tickets)
    BY <2>1, <2>2, <2>3 DEF Reopens, Outstanding
  <2>7. /\ tickets' \in Seq(TicketRow) /\ Succeed(tickets', tickets) /\ RowsOK' /\ OneOutstanding'
        /\ tickets'[t] = row
    BY <2>2, <2>3, <2>4, <2>5, <2>6, OneChanged
  <2>8. state \in Request /\ state.pc = "ticket_status_changed" /\ state.ticket = t /\ state.status = status
    BY <2>2, RequestTyped DEF Request, Told
  <2> HIDE DEF state
  <2>9. RequestOK(tickets', state)
    BY <2>2, <2>3, <2>7, <2>8 DEF RequestOK, Succeed
  <2> QED
    BY <2>1, <2>5, <2>7, <2>8, <2>9, Proceeding
<1> QED
  BY <1>1, <1>2

LEMMA ExtractKeeps ==
    ASSUME TicketsInv, NEW c \in Clerks, Extract(c)
    PROVE  TicketsInv'
<1>1. PICK reply \in CommitmentReplies :
          IF Promised(reply)
          THEN /\ Proceeds(c, [clerk[c] EXCEPT !.pc = "select", !.day = DueDay(reply)])
               /\ UNCHANGED <<tickets, activity, disturbed>>
          ELSE Refused(c)
  BY DEF Extract
<1>2. DueDay(reply) \in Days \cup {NoDay, BadDay}
  BY TicketValues DEF DueDay
<1> DEFINE day == DueDay(reply)
           state == [clerk[c] EXCEPT !.pc = "select", !.day = day]
<1> HIDE DEF day
<1>3. state \in Request /\ state.pc = "select" /\ state.ticket = clerk[c].ticket
  BY <1>2, RequestTyped DEF Request, day
<1> HIDE DEF state
<1>4. RequestOK(tickets, state)
  BY <1>3, RequestTyped DEF RequestOK, Told
<1> QED
  BY <1>1, <1>3, <1>4, RefusedKeeps, ProceedingIdly DEF state, day

\* What is chosen is the only outstanding commitment, or one of several, or nobody.
LEMMA NewestChosen ==
    ASSUME TicketsInv
    PROVE  LET chosen == Newest(Outstanding(tickets)) IN
           /\ chosen = Nobody <=> Outstanding(tickets) = {}
           /\ Outstanding(tickets) # {} => chosen \in Outstanding(tickets)
<1> DEFINE among == Outstanding(tickets)
           n == Len(tickets)
           T == {n - t : t \in among}
           R == {p \in Nat \X Nat : p[1] < p[2]}
<1>1. n \in Nat /\ among \subseteq 1 .. n
  BY LenProperties DEF TicketsInv, TypesInv, Outstanding
<1> HIDE DEF among, n
<1>2. CASE among = {}
  BY <1>2 DEF Newest, among
<1>3. CASE among # {}
  <2>1. T \in SUBSET Nat /\ T # {}
    BY <1>1, <1>3
  <2>2. PICK m \in T : \A k \in T : ~(<<k, m>> \in R)
    <3>1. IsWellFoundedOn(R, Nat)
      BY NatLessThanWellFounded, Zenon DEF OpToRel
    <3> HIDE DEF R, T
    <3> QED
      BY <2>1, <3>1, WFMin
  <2>3. \A k \in T : ~(k < m)
    BY <2>1, <2>2
  <2>4. PICK t \in among : m = n - t
    BY <2>2
  <2>5. \A u \in among : u <= t
    BY <1>1, <2>3, <2>4
  <2>6. Newest(among) \in among
    BY <1>3, <2>5 DEF Newest
  <2>7. Newest(among) # Nobody
    <3> DEFINE newest == Newest(among)
    <3>1. newest \in 1 .. n /\ Nobody \notin Nat
      BY <1>1, <2>6, TicketValues
    <3> HIDE DEF newest
    <3>2. newest \in Nat
      BY <1>1, <3>1
    <3>3. newest # Nobody
      BY <3>1, <3>2, Zenon
    <3> QED
      BY <3>3 DEF newest
  <2> QED
    BY <1>3, <2>6, <2>7 DEF among
<1> QED
  BY <1>2, <1>3

LEMMA SelectKeeps ==
    ASSUME TicketsInv, NEW c \in Clerks, Select(c)
    PROVE  TicketsInv'
<1> DEFINE chosen == Newest(Outstanding(tickets))
           state == [clerk[c] EXCEPT !.pc = "upsert", !.ticket = chosen]
<1>1. Proceeds(c, state) /\ UNCHANGED <<tickets, activity, disturbed>>
  BY DEF Select
<1>2. /\ chosen \in DOMAIN tickets \cup {Nobody} /\ chosen \in Nat \cup {Nobody}
      /\ chosen # Nobody => tickets[chosen].derived
  BY NewestChosen, LenProperties DEF Outstanding, TicketsInv, TypesInv
<1> HIDE DEF chosen
<1>3. state \in Request /\ state.pc = "upsert" /\ state.ticket = chosen
  BY <1>2, RequestTyped DEF Request
<1> HIDE DEF state
<1>4. RequestOK(tickets, state)
  BY <1>2, <1>3 DEF RequestOK, Told
<1> QED
  BY <1>1, <1>3, <1>4, ProceedingIdly

LEMMA UpsertKeeps ==
    ASSUME TicketsInv, NEW c \in Clerks, Upsert(c)
    PROVE  TicketsInv'
<1> DEFINE t == clerk[c].ticket
           day == clerk[c].day
           choice == Newest(Outstanding(tickets))
<1>1. CASE Unparsable(day)
  BY <1>1, RefusedKeeps DEF Upsert
<1>2. ASSUME ~Unparsable(day)
      PROVE  /\ disturbed' = (disturbed \/ t # choice)
             /\ disturbed' \in BOOLEAN /\ (disturbed => disturbed')
             /\ day \in Days \cup {NoDay}
  <2>1. disturbed' = (disturbed \/ t # choice)
    BY <1>2 DEF Upsert
  <2>2. day \in Days \cup {NoDay}
    BY <1>2, RequestTyped DEF Request, Unparsable
  <2> QED
    BY <2>1, <2>2 DEF TicketsInv, TypesInv
<1>3. CASE ~Unparsable(day) /\ t = Nobody
  <2> DEFINE row == Ticket("open", day, TRUE)
             state == [clerk[c] EXCEPT !.pc = "commitment_derived", !.ticket = Len(tickets) + 1]
  <2>1. /\ tickets' = Append(tickets, row) /\ Proceeds(c, state) /\ UNCHANGED activity
    BY <1>3 DEF Upsert, Stores
  <2>2. row \in TicketRow /\ row.status \in row.been /\ row.derived
    BY <1>2, <1>3, TicketBounds DEF Ticket, TicketRow
  <2> HIDE DEF row
  <2>3. disturbed' \/ Outstanding(tickets) = {}
    BY <1>2, <1>3, NewestChosen
  <2>4. /\ tickets' \in Seq(TicketRow) /\ Succeed(tickets', tickets) /\ RowsOK' /\ OneOutstanding'
        /\ Len(tickets) + 1 \in DOMAIN tickets' /\ tickets'[Len(tickets) + 1] = row
        /\ Len(tickets) + 1 \in Nat
    BY <1>2, <1>3, <2>1, <2>2, <2>3, OneMore
  <2>5. state \in Request /\ state.pc = "commitment_derived" /\ state.ticket = Len(tickets) + 1
    BY <2>4, RequestTyped DEF Request, Told
  <2> HIDE DEF state
  <2>6. RequestOK(tickets', state)
    BY <2>2, <2>4, <2>5 DEF RequestOK
  <2> QED
    BY <1>2, <1>3, <2>1, <2>4, <2>5, <2>6, Proceeding
<1>4. CASE ~Unparsable(day) /\ t # Nobody
  <2> DEFINE row == [tickets[t] EXCEPT !.day = day]
             state == [clerk[c] EXCEPT !.pc = "commitment_derived", !.ticket = t]
  <2>1. /\ tickets' = [tickets EXCEPT ![t].day = day] /\ Proceeds(c, state) /\ UNCHANGED activity
    BY <1>4 DEF Upsert, Stores
  <2>2. t \in DOMAIN tickets /\ t \in Nat /\ tickets[t] \in TicketRow /\ tickets[t].derived
    BY <1>4, RequestTyped, LenProperties, ElementOfSeq DEF Upsert, RequestOK, TicketsInv, TypesInv
  <2>3. /\ row \in TicketRow /\ row.status = tickets[t].status /\ row.been = tickets[t].been
        /\ row.derived = tickets[t].derived
    BY <1>2, <1>4, <2>2 DEF TicketRow
  <2>4. tickets' = [tickets EXCEPT ![t] = row]
    BY <2>1, <2>2
  <2> HIDE DEF row
  <2>5. row.status \in row.been
    BY <2>2, <2>3 DEF TicketsInv, RowsOK
  <2>6. row.status = "closed" \/ t \in Outstanding(tickets)
    BY <2>2, <2>3 DEF Outstanding
  <2>7. /\ tickets' \in Seq(TicketRow) /\ Succeed(tickets', tickets) /\ RowsOK' /\ OneOutstanding'
        /\ tickets'[t] = row
    BY <1>2, <1>4, <2>2, <2>3, <2>4, <2>5, <2>6, OneChanged
  <2>8. state \in Request /\ state.pc = "commitment_derived" /\ state.ticket = t
    BY <2>2, RequestTyped DEF Request, Told
  <2> HIDE DEF state
  <2>9. RequestOK(tickets', state)
    BY <2>2, <2>3, <2>7, <2>8 DEF RequestOK, Succeed
  <2> QED
    BY <1>2, <1>4, <2>1, <2>7, <2>8, <2>9, Proceeding
<1> QED
  BY <1>1, <1>3, <1>4

LEMMA TellKeeps ==
    ASSUME TicketsInv, NEW c \in Clerks, Tell(c)
    PROVE  TicketsInv'
<1> DEFINE e == [event |-> clerk[c].pc, ticket |-> clerk[c].ticket, status |-> clerk[c].status]
           longer == Append(activity, e)
<1>1. /\ clerk[c].pc \in Told /\ Proceeds(c, NotCalled) /\ UNCHANGED <<tickets, disturbed>>
      /\ activity' = Trimmed(longer) \/ UNCHANGED activity
  BY DEF Tell
<1>2. activity \in Seq(Event) /\ \A i \in DOMAIN activity : EventOK(tickets, activity[i])
  BY DEF TicketsInv, TypesInv
<1>3. e \in Event /\ EventOK(tickets, e)
  <2>1. clerk[c].ticket \in DOMAIN tickets /\ clerk[c].ticket \in Nat
    BY <1>1, RequestTyped, LenProperties DEF RequestOK, TicketsInv, TypesInv
  <2> QED
    BY <1>1, <2>1, RequestTyped DEF Event, EventOK, RequestOK, Request
<1> HIDE DEF e
<1>4. longer \in Seq(Event) /\ \A i \in DOMAIN longer : EventOK(tickets, longer[i])
  <2>1. /\ longer \in Seq(Event) /\ Len(longer) = Len(activity) + 1 /\ Len(activity) \in Nat
        /\ \A i \in 1 .. Len(activity) : longer[i] = activity[i]
        /\ longer[Len(activity) + 1] = e
    BY <1>2, <1>3, AppendProperties, LenProperties
  <2>2. DOMAIN longer = 1 .. Len(activity) + 1 /\ DOMAIN activity = 1 .. Len(activity)
    BY <1>2, <2>1, LenProperties
  <2> HIDE DEF longer
  <2> QED
    BY <1>2, <1>3, <2>1, <2>2
<1>5. longer # <<>>
  BY <1>2, <1>3, AppendProperties
<1> HIDE DEF longer
<1>6. /\ Tail(longer) \in Seq(Event)
      /\ \A i \in DOMAIN Tail(longer) : EventOK(tickets, Tail(longer)[i])
  <2>1. /\ Tail(longer) \in Seq(Event) /\ Len(Tail(longer)) = Len(longer) - 1 /\ Len(longer) \in Nat
        /\ \A i \in 1 .. Len(Tail(longer)) : Tail(longer)[i] = longer[i + 1]
    BY <1>4, <1>5, HeadTailProperties, LenProperties
  <2>2. DOMAIN Tail(longer) = 1 .. Len(longer) - 1 /\ DOMAIN longer = 1 .. Len(longer)
    BY <1>4, <2>1, LenProperties
  <2> QED
    BY <1>4, <2>1, <2>2
<1>7. activity' \in Seq(Event) /\ \A i \in DOMAIN activity' : EventOK(tickets, activity'[i])
  BY <1>1, <1>2, <1>4, <1>6 DEF Trimmed
<1>8. clerk' = [clerk EXCEPT ![c] = NotCalled] /\ NotCalled \in Request /\ RequestOK(tickets, NotCalled)
  BY <1>1 DEF Proceeds, NotCalled, Request, RequestOK, Told
<1>9. TypesInv'
  BY <1>1, <1>7, <1>8 DEF TicketsInv, TypesInv
<1>10. \A b \in Clerks : RequestOK(tickets, clerk'[b])
  BY <1>8 DEF TicketsInv, TypesInv
<1>11. /\ \A b \in Clerks : RequestOK(tickets, clerk[b])'
       /\ \A i \in DOMAIN activity' : EventOK(tickets, activity[i])'
       /\ RowsOK' /\ OneOutstanding'
  BY <1>1, <1>7, <1>10 DEF RequestOK, EventOK, RowsOK, OneOutstanding, Outstanding, TicketsInv
<1> QED
  BY <1>9, <1>11 DEF TicketsInv

LEMMA SightKeeps ==
    ASSUME TicketsInv, UNCHANGED <<tickets, activity, clerk, disturbed>>
    PROVE  TicketsInv'
BY DEF TicketsInv, TypesInv, RowsOK, OneOutstanding, Outstanding, RequestOK, EventOK

LEMMA TicketsInvStep == TicketsInv /\ [TicketsNext]_ticketVars => TicketsInv'
<1> SUFFICES ASSUME TicketsInv, [TicketsNext]_ticketVars PROVE TicketsInv'
  OBVIOUS
<1>1. CASE ToggleSight \/ UNCHANGED ticketVars
  BY <1>1, SightKeeps DEF ToggleSight, ticketVars
<1>2. ASSUME NEW c \in Clerks, ClerkStep(c) PROVE TicketsInv'
  BY <1>2, RequestsKeep, CreateKeeps, PatchKeeps, ExtractKeeps, SelectKeeps, UpsertKeeps, TellKeeps
     DEF ClerkStep
<1> QED
  BY <1>1, <1>2 DEF TicketsNext

-----------------------------------------------------------------------------

LEMMA InvIsSound == TicketsInv => NotStacked /\ ToldIsTrue
<1> SUFFICES ASSUME TicketsInv PROVE NotStacked /\ ToldIsTrue
  OBVIOUS
<1>1. NotStacked
  BY DEF TicketsInv, OneOutstanding, NotStacked, Calendar, Outstanding
<1>2. ToldIsTrue
  BY DEF TicketsInv, EventOK, ToldIsTrue
<1> QED
  BY <1>1, <1>2

\* Who redates a closed ticket had chosen it before it was closed.
LEMMA RedatesOutstanding ==
    ASSUME TicketsInv, [TicketsNext]_ticketVars, NEW t \in DOMAIN tickets,
           tickets[t].status = "closed", tickets'[t].day # tickets[t].day
    PROVE  disturbed'
<1>1. tickets \in Seq(TicketRow) /\ t \in 1 .. Len(tickets) /\ Len(tickets) \in Nat
  BY LenProperties DEF TicketsInv, TypesInv
<1>2. \A row \in TicketRow : Append(tickets, row)[t] = tickets[t]
  BY <1>1, AppendProperties
<1>3. tickets' # tickets
  OBVIOUS
<1>4. PICK c \in Clerks : ClerkStep(c)
  BY <1>3 DEF TicketsNext, ToggleSight, ticketVars
<1>5. CASE Create(c)
  <2>1. CASE clerk[c].status \notin Statuses \/ Unparsable(clerk[c].day)
    BY <1>3, <1>5, <2>1 DEF Create, Refused
  <2>2. CASE ~(clerk[c].status \notin Statuses \/ Unparsable(clerk[c].day))
    <3>1. Ticket(clerk[c].status, clerk[c].day, FALSE) \in TicketRow
      BY <2>2, RequestTyped DEF Ticket, TicketRow, Request, Unparsable
    <3> QED
      BY <1>2, <1>5, <2>2, <3>1 DEF Create, Stores
  <2> QED
    BY <2>1, <2>2
<1>6. CASE Patch(c)
  <2>1. CASE clerk[c].status \notin Statuses
    BY <1>3, <1>6, <2>1 DEF Patch, Refused
  <2>2. CASE clerk[c].status \in Statuses
    <3> DEFINE u == clerk[c].ticket
    <3>1. tickets' = [tickets EXCEPT ![u].status = clerk[c].status, ![u].been = @ \cup {clerk[c].status}]
      BY <1>6, <2>2 DEF Patch, Stores
    <3>2. tickets[t] \in TicketRow
      BY <1>1, ElementOfSeq
    <3> QED
      BY <3>1, <3>2 DEF TicketRow
  <2> QED
    BY <2>1, <2>2
<1>7. CASE Upsert(c)
  <2> DEFINE u == clerk[c].ticket
  <2>1. ~Unparsable(clerk[c].day)
    BY <1>3, <1>7 DEF Upsert, Refused
  <2>2. disturbed' = (disturbed \/ u # Newest(Outstanding(tickets)))
    BY <1>7, <2>1 DEF Upsert
  <2>3. u # Nobody
    <3> SUFFICES ASSUME u = Nobody PROVE FALSE
      OBVIOUS
    <3>1. Ticket("open", clerk[c].day, TRUE) \in TicketRow
      BY <2>1, RequestTyped, TicketBounds DEF Ticket, TicketRow, Request, Unparsable
    <3> QED
      BY <1>2, <1>7, <2>1, <3>1 DEF Upsert, Stores
  <2>4. tickets' = [tickets EXCEPT ![u].day = clerk[c].day]
    BY <1>7, <2>1, <2>3 DEF Upsert, Stores
  <2>5. t = u
    BY <1>1, <2>4
  <2>6. t \notin Outstanding(tickets)
    BY DEF Outstanding
  <2>7. u # Newest(Outstanding(tickets))
    BY <2>3, <2>5, <2>6, NewestChosen
  <2> QED
    BY <2>2, <2>7
<1> QED
  BY <1>3, <1>4, <1>5, <1>6, <1>7
     DEF ClerkStep, RequestCreate, RequestPatch, RequestDerivation, Extract, Refused, Select, Tell

\* A post has one derived commitment in the calendar at most unless one was reopened or two
\* derivations overlapped, the stream tells of committed changes only, and a closed commitment is
\* not redated by a derivation that chose after it was closed: for every number of requests, rows
\* and events (upsert_commitment_ticket, update_ticket, publish_activity_event).
THEOREM TicketsTrue == TicketsSpec => TicketsAreTrue
<1>1. TicketsInv /\ [TicketsNext]_ticketVars =>
        [\A t \in DOMAIN tickets :
          (tickets[t].status = "closed" /\ tickets'[t].day # tickets[t].day) => disturbed']_ticketVars
  BY RedatesOutstanding
<1> QED
  BY <1>1, TicketsInvInit, TicketsInvStep, InvIsSound, PTL DEF TicketsSpec, TicketsAreTrue, ClosedIsLeftAlone

\* A ticket has had its status and a date that is one, and a request holds a ticket that is there.
THEOREM TicketsTyped == TicketsSpec => []TicketsTypeOK
<1>1. TicketsInv => TicketsTypeOK
  <2> SUFFICES ASSUME TicketsInv PROVE TicketsTypeOK
    OBVIOUS
  <2>1. \A t \in DOMAIN tickets : tickets[t] \in TicketRow
    BY DEF TicketsInv, TypesInv
  <2> QED
    BY <2>1 DEF TicketsInv, RowsOK, RequestOK, TicketRow, TicketsTypeOK
<1> QED
  BY <1>1, TicketsInvInit, TicketsInvStep, PTL DEF TicketsSpec
=============================================================================
