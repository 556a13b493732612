---------------------------- MODULE IssueTickets ----------------------------
(***************************************************************************)
(* The issue tickets of one post, the commitments derived from its text,   *)
(* its activity stream and the calendar:                                   *)
(* backend/app/issue_ticket_ingestion.py, activity_stream.py,              *)
(* lineageweave/commitment_extraction.py and their handlers in main.py.    *)
(*                                                                         *)
(* Every statement commits by itself, and an event is written to the       *)
(* stream of another store after the change it tells of.  Titles,          *)
(* assignees and labels are left out.                                      *)
(***************************************************************************)
EXTENDS Integers, Sequences

CONSTANTS
    Clerks,         \* requests that may be in flight together
    Statuses,       \* codes of the category ticket_status
    Days, NoDay,    \* due dates
    BadDay,         \* well-formed text that is no date
    Prose,          \* a due date that the model gave in words
    Nobody,         \* no ticket
    CommitmentReplies,  \* what the model may answer
    StreamLength,   \* maxlen of the stream
    MaxTickets      \* bound of the rows

ASSUME TicketBounds == {"open", "closed"} \subseteq Statuses /\ StreamLength \in Nat \ {0} /\ MaxTickets \in Nat
ASSUME TicketValues ==
    /\ Nobody \notin Nat
    /\ \A reply \in CommitmentReplies : reply.day \in Days \cup {NoDay, BadDay, Prose}

VARIABLES
    tickets,    \* rows of issue_ticket in the order of created_at
    visible,    \* whether the callers may see the post
    activity,   \* the stream activity:{post_id}
    clerk,      \* progress of each request
    disturbed   \* history: a commitment was reopened, or written past another's choice

ticketVars == <<tickets, visible, activity, clerk, disturbed>>

Untouched == "untouched"                        \* a field left out of a PATCH

\* derived: commitment_summary is not null.  been: history, the statuses it has had.
Ticket(status, day, derived) ==
    [status |-> status, day |-> day, derived |-> derived, been |-> {status}]

NotCalled == [pc |-> "idle", status |-> Untouched, day |-> NoDay, ticket |-> Nobody]
Told == {"ticket_created", "ticket_status_changed", "commitment_derived"}

TicketsInit ==
    /\ tickets = <<>> /\ activity = <<>>
    /\ visible \in BOOLEAN
    /\ clerk = [c \in Clerks |-> NotCalled]
    /\ disturbed = FALSE

-----------------------------------------------------------------------------

Proceeds(c, state) == clerk' = [clerk EXCEPT ![c] = state]
Refused(c) == Proceeds(c, NotCalled) /\ UNCHANGED <<tickets, activity, disturbed>>
\* _load_visible_post, before a handler does anything else.
Admitted(c) == clerk[c].pc = "idle" /\ visible

\* _parse_due_date.
Unparsable(day) == day = BadDay

\* The row, and the event that is still to be told.
Stores(c, rows, ticket, event) ==
    /\ tickets' = rows
    /\ Proceeds(c, [clerk[c] EXCEPT !.pc = event, !.ticket = ticket])
    /\ UNCHANGED activity

RequestCreate(c) == \E status \in Statuses \cup {"unknown"}, day \in Days \cup {NoDay, BadDay} :
    /\ Admitted(c)
    /\ Proceeds(c, [NotCalled EXCEPT !.pc = "create", !.status = status, !.day = day])
    /\ UNCHANGED <<tickets, activity, disturbed>>

\* create_ticket: the foreign key and the date are checked by the insertion.
Create(c) ==
    /\ clerk[c].pc = "create"
    /\ IF clerk[c].status \notin Statuses \/ Unparsable(clerk[c].day) THEN Refused(c)
       ELSE /\ Len(tickets) < MaxTickets
            /\ Stores(c, Append(tickets, Ticket(clerk[c].status, clerk[c].day, FALSE)),
                      Len(tickets) + 1, "ticket_created")
            /\ UNCHANGED disturbed

\* The owning post of the ticket is looked up and checked first.
RequestPatch(c) == \E t \in DOMAIN tickets, status \in Statuses \cup {Untouched, "unknown"} :
    /\ Admitted(c)
    /\ Proceeds(c, [NotCalled EXCEPT !.pc = "patch", !.status = status, !.ticket = t])
    /\ UNCHANGED <<tickets, activity, disturbed>>

Reopens(t, status) == tickets[t].derived /\ tickets[t].status = "closed" /\ status # "closed"

\* update_ticket.  Only a change of status is told.
Patch(c) == LET status == clerk[c].status  t == clerk[c].ticket IN
    /\ clerk[c].pc = "patch"
    /\ IF status \notin Statuses THEN Refused(c)    \* unknown, or only the assignee changes
       ELSE /\ Stores(c, [tickets EXCEPT ![t].status = status, ![t].been = @ \cup {status}],
                      t, "ticket_status_changed")
            /\ disturbed' = (disturbed \/ Reopens(t, status))

-----------------------------------------------------------------------------
\* Deriving a commitment.

RequestDerivation(c) ==
    /\ Admitted(c)
    /\ Proceeds(c, [NotCalled EXCEPT !.pc = "extract"])
    /\ UNCHANGED <<tickets, activity, disturbed>>

\* parse_commitment_response: a date that is not written as one is dropped, not refused.
Promised(reply) == reply.flag = "yes" /\ reply.summary
DueDay(reply) == IF reply.day = Prose THEN NoDay ELSE reply.day

\* A reply without a flag or a summary is a 503; that there is no commitment is an answer.
Extract(c) == \E reply \in CommitmentReplies :
    /\ clerk[c].pc = "extract"
    /\ IF Promised(reply)
       THEN /\ Proceeds(c, [clerk[c] EXCEPT !.pc = "select", !.day = DueDay(reply)])
            /\ UNCHANGED <<tickets, activity, disturbed>>
       ELSE Refused(c)

\* Bug: the newest derived ticket is taken though it is closed.
DerivedAtAll(rows) == {t \in DOMAIN rows : rows[t].derived}

Outstanding(rows) == {t \in DOMAIN rows : rows[t].derived /\ rows[t].status # "closed"}

Newest(among) == IF among = {} THEN Nobody ELSE CHOOSE t \in among : \A u \in among : u <= t

\* upsert_commitment_ticket: one statement chooses, another writes what was chosen.
Select(c) ==
    /\ clerk[c].pc = "select"
    /\ Proceeds(c, [clerk[c] EXCEPT !.pc = "upsert", !.ticket = Newest(Outstanding(tickets))])
    /\ UNCHANGED <<tickets, activity, disturbed>>

Upsert(c) == LET t == clerk[c].ticket IN
    /\ clerk[c].pc = "upsert"
    /\ IF Unparsable(clerk[c].day) THEN Refused(c)
       ELSE /\ IF t = Nobody
               THEN /\ Len(tickets) < MaxTickets
                    /\ Stores(c, Append(tickets, Ticket("open", clerk[c].day, TRUE)),
                              Len(tickets) + 1, "commitment_derived")
               ELSE Stores(c, [tickets EXCEPT ![t].day = clerk[c].day], t, "commitment_derived")
            /\ disturbed' = (disturbed \/ t # Newest(Outstanding(tickets)))

\* XADD cuts the stream to its length.
Trimmed(stream) == IF Len(stream) > StreamLength THEN Tail(stream) ELSE stream

\* publish_activity_event, which may fail after the change is committed.
Tell(c) ==
    /\ clerk[c].pc \in Told
    /\ \/ activity' = Trimmed(Append(activity, [event |-> clerk[c].pc, ticket |-> clerk[c].ticket,
                                            status |-> clerk[c].status]))
       \/ UNCHANGED activity
    /\ Proceeds(c, NotCalled)
    /\ UNCHANGED <<tickets, disturbed>>

-----------------------------------------------------------------------------

ClerkStep(c) ==
    \/ RequestCreate(c) \/ Create(c) \/ RequestPatch(c) \/ Patch(c)
    \/ RequestDerivation(c) \/ Extract(c) \/ Select(c) \/ Upsert(c) \/ Tell(c)

\* The post is imported again, or an eligibility column of it.
ToggleSight == visible' = ~visible /\ UNCHANGED <<tickets, activity, clerk, disturbed>>

TicketsNext == (\E c \in Clerks : ClerkStep(c) /\ UNCHANGED visible) \/ ToggleSight
TicketsSpec == TicketsInit /\ [][TicketsNext]_ticketVars

-----------------------------------------------------------------------------

\* fetch_upcoming_commitments and the filter of read_calendar.
Calendar == IF visible
            THEN {t \in DOMAIN tickets : tickets[t].day # NoDay /\ tickets[t].status # "closed"}
            ELSE {}

\* A dated row is a date; what a request is about exists.
TicketsTypeOK ==
    /\ \A t \in DOMAIN tickets : /\ tickets[t].status \in tickets[t].been
                                 /\ tickets[t].day \in Days \cup {NoDay}
    /\ \A c \in Clerks : clerk[c].ticket \in DOMAIN tickets \cup {Nobody}

\* "Re-deriving the same post must not stack duplicate calendar rows": a post has one
\* derived commitment in the calendar at most, unless one was reopened or two derivations
\* overlapped.  Without the second exception it does not hold.
NotStacked ==
    disturbed \/ \A t, u \in Calendar : tickets[t].derived /\ tickets[u].derived => t = u

\* The stream tells of committed changes only: of a ticket that is there, and of a status it
\* has had.  That the last event tells the present status does not hold.
ToldIsTrue == \A i \in DOMAIN activity : LET e == activity[i] IN
    /\ e.ticket \in DOMAIN tickets
    /\ e.event = "ticket_status_changed" => e.status \in tickets[e.ticket].been
    /\ e.event = "commitment_derived" => tickets[e.ticket].derived

\* "A closed ticket is left alone": a derivation redates a closed ticket only if it had
\* chosen it before it was closed.
ClosedIsLeftAlone ==
    [][\A t \in DOMAIN tickets :
          (tickets[t].status = "closed" /\ tickets'[t].day # tickets[t].day) => disturbed']_ticketVars

\* The calendar and the stream tell what is so, and what is closed is left alone.
TicketsAreTrue == []NotStacked /\ []ToldIsTrue /\ ClosedIsLeftAlone
=============================================================================
