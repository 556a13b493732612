---------------------------- MODULE PeriodReports ----------------------------
(***************************************************************************)
(* Period reports (backend/app/report_ingestion.py, period_report.py): the *)
(* evaluated posts of a period are scored group by group on one bank of    *)
(* item parameters, that of the nearest earlier period that has one, of    *)
(* this period, or a new one.  A rebuild is one READ COMMITTED transaction *)
(* around computations; a reader sends several statements.                 *)
(*                                                                         *)
(* A statistic stands for the bank it was scored on and the posts scored.  *)
(***************************************************************************)
EXTENDS Integers, FiniteSets

CONSTANTS
    Groups,         \* grouping keys of all kinds
    Kind,           \* the position of a group's kind in the loop of a rebuild
    Evaluated,      \* posts with evaluation responses
    Period,         \* the period of a post
    Items, Answered,    \* rubric criteria, and those a post has a response for
    Reporters,      \* rebuild requests
    Viewers,        \* requests that read the reports of a period
    NoReport,       \* no row, no bank
    MaxMoves        \* bound of edits of the groups

ASSUME ReportConstants ==
    /\ Kind \in [Groups -> Nat \ {0}] /\ Period \in [Evaluated -> Nat]
    /\ Answered \in [Evaluated -> SUBSET Items] /\ MaxMoves \in Nat

VARIABLES
    member,         \* the evaluated posts of a group
    open,           \* posts that are eligible and that the readers may see
    bank,           \* the shared_metric rows, by period
    report,         \* report_period_score and its dependents, by group and period
    rebuild, reading, moves

reportVars == <<member, open, bank, report, rebuild, reading, moves>>

Periods == {Period[p] : p \in Evaluated}
Kinds == {Kind[g] : g \in Groups}
LastKind == CHOOSE k \in Kinds : \A l \in Kinds : l <= k
Banks == [period : Periods, by : Reporters, kind : Kinds]    \* calibrated for the posts of a kind

\* A row: the bank, the bank of the mean it is compared with, the posts scored, the posts of
\* the leftover pairs, and the rebuild that wrote it.
Reports == [bank : Banks, base : Banks \cup {NoReport}, of : SUBSET Evaluated,
            pairs : SUBSET Evaluated, by : Reporters]

ASSUME ReportNothing == NoReport \notin Banks \cup Reports

\* Groups with their rows, not yet committed or as a reader has received them.
IsRows(rows) == DOMAIN rows \subseteq Groups /\ \A g \in DOMAIN rows : rows[g] \in Reports
Nothing == [g \in {} |-> NoReport]

-----------------------------------------------------------------------------
\* The leftover map is of the posts that answer every item anyone answers.

Answering(posts) == {p \in posts : Answered[p] # {}}
MapItems(posts) == UNION {Answered[p] : p \in posts}
MapPosts(posts) == {p \in Answering(posts) : MapItems(posts) \subseteq Answered[p]}

\* The closest and the farthest pair; none without a complete case.
PairsOf(posts) ==
    IF MapPosts(posts) = {} THEN {{}}
    ELSE {pairs \in SUBSET MapPosts(posts) : Cardinality(pairs) \in {1, 2}}

\* A group of one post is not scored.
MembersIn(g, period) == {p \in member[g] : Period[p] = period}
GroupsOf(kind, period) ==
    {g \in Groups : Kind[g] = kind /\ Cardinality(MembersIn(g, period)) >= 2}

Nearest(periods) == CHOOSE p \in periods : \A q \in periods : q <= p

\* load_shared_item_bank: the latest earlier period, else this one.
BankFor(period) ==
    LET calibrated == {p \in Periods : bank[p] # NoReport}
        earlier == {p \in calibrated : p < period}
    IN  IF earlier # {} THEN bank[Nearest(earlier)] ELSE bank[period]

\* load_previous_group_mean.
BaseFor(g, period) ==
    LET earlier == {p \in Periods : p < period /\ report[<<g, p>>] # NoReport}
    IN  IF earlier = {} THEN NoReport ELSE report[<<g, Nearest(earlier)>>].bank

-----------------------------------------------------------------------------

Fresh(period) == [pc |-> "new", period |-> period, bank |-> NoReport, fresh |-> NoReport,
                  kind |-> 1, scored |-> Nothing, written |-> Nothing]
NotReading == [pc |-> "idle", period |-> Nearest(Periods), header |-> Nothing,
               listed |-> Nothing, shown |-> Nothing, disturbed |-> FALSE]

ReportInit ==
    /\ member \in [Groups -> SUBSET Evaluated]
    /\ open \in SUBSET Evaluated
    /\ bank = [p \in Periods |-> NoReport]
    /\ report = [gp \in Groups \X Periods |-> NoReport]
    /\ rebuild \in [Reporters -> {Fresh(p) : p \in Periods}]
    /\ reading = [v \in Viewers |-> NotReading]
    /\ moves = 0

Rebuilds(r, state) == rebuild' = [rebuild EXCEPT ![r] = state]
End(state) == [Fresh(state.period) EXCEPT !.pc = "done"]

LoadBank(r) ==
    /\ rebuild[r].pc = "new"
    /\ Rebuilds(r, [rebuild[r] EXCEPT !.pc = "scoring",
                                      !.bank = BankFor(rebuild[r].period)])
    /\ UNCHANGED <<member, open, bank, report, reading, moves>>

\* Bug: the bank of the first kind is stored but not used for the next.
BankKept(r, used) == rebuild[r].bank

\* item_bank = bank_report.item_bank
BankCarried(r, used) == used

\* The rows and the earlier means of one kind are read and scored; without a bank the posts
\* of this kind are pooled to calibrate one.
ScoreKind(r) ==
    LET now == rebuild[r]
        groups == GroupsOf(now.kind, now.period)
        fresh == groups # {} /\ now.bank = NoReport
        used == IF fresh THEN [period |-> now.period, by |-> r, kind |-> now.kind] ELSE now.bank
        Row(g, pairs) == [bank |-> used, base |-> BaseFor(g, now.period),
                          of |-> MembersIn(g, now.period), pairs |-> pairs, by |-> r]
    IN  /\ now.pc = "scoring"
        /\ \E pairs \in [groups -> SUBSET Evaluated] :
              /\ \A g \in groups : pairs[g] \in PairsOf(MembersIn(g, now.period))
              /\ Rebuilds(r, [now EXCEPT !.pc = "writing",
                     !.bank = BankCarried(r, used), !.fresh = IF fresh THEN used ELSE @,
                     !.scored = [g \in groups |-> Row(g, pairs[g])]])
        /\ UNCHANGED <<member, open, bank, report, reading, moves>>

\* Rows that a rebuild of the period has replaced stay locked until it ends.
Holds(r, g) == g \in DOMAIN rebuild[r].written
Awaits(r, other) ==
    /\ rebuild[r].pc = "writing" /\ rebuild[r].period = rebuild[other].period
    /\ \/ \E g \in DOMAIN rebuild[r].scored : Holds(other, g)
       \/ /\ rebuild[r].fresh # NoReport /\ rebuild[r].written = Nothing
          /\ rebuild[other].fresh # NoReport /\ rebuild[other].written # Nothing

\* persist_period_report for the bank, if it is new, and for every group of the kind.
WriteKind(r) ==
    LET now == rebuild[r]
        written == [g \in DOMAIN now.written \cup DOMAIN now.scored |->
                       IF g \in DOMAIN now.scored THEN now.scored[g] ELSE now.written[g]]
    IN  /\ now.pc = "writing"
        /\ \A other \in Reporters \ {r} : ~Awaits(r, other)
        /\ Rebuilds(r, [now EXCEPT !.pc = IF now.kind = LastKind THEN "committing" ELSE "scoring",
                                   !.kind = @ + 1, !.scored = Nothing, !.written = written])
        /\ UNCHANGED <<member, open, bank, report, reading, moves>>

\* Who waits for a row that this commit has inserted finds its key taken and is rolled back,
\* if its deletion began before.
Commit(r) == \E failing \in SUBSET {other \in Reporters \ {r} : Awaits(other, r)} :
    LET now == rebuild[r] IN
    /\ now.pc = "committing"
    /\ report' = [gp \in Groups \X Periods |->
           IF gp[2] = now.period /\ gp[1] \in DOMAIN now.written
           THEN now.written[gp[1]] ELSE report[gp]]
    /\ bank' = IF now.fresh = NoReport THEN bank ELSE [bank EXCEPT ![now.period] = now.fresh]
    /\ rebuild' = [o \in Reporters |->
           IF o = r \/ o \in failing THEN End(rebuild[o]) ELSE rebuild[o]]
    /\ reading' = [v \in Viewers |->
           IF reading[v].pc \in {"headers", "members"} /\ reading[v].period = now.period
           THEN [reading[v] EXCEPT !.disturbed = TRUE] ELSE reading[v]]
    /\ UNCHANGED <<member, open, moves>>

\* A matrix that cannot be calibrated or scored undoes the rebuild.
Unusable(r) ==
    /\ rebuild[r].pc = "scoring" /\ GroupsOf(rebuild[r].kind, rebuild[r].period) # {}
    /\ Rebuilds(r, End(rebuild[r]))
    /\ UNCHANGED <<member, open, bank, report, reading, moves>>

-----------------------------------------------------------------------------

Reads(v, state) ==
    /\ reading' = [reading EXCEPT ![v] = state]
    /\ UNCHANGED <<member, open, bank, report, rebuild, moves>>

\* The rows of a period as one statement sees them.
RowsNow(period, groups) ==
    [g \in {h \in groups : report[<<h, period>>] # NoReport} |-> report[<<g, period>>]]

ReadHeaders(v) == \E period \in Periods :
    /\ reading[v].pc = "idle"
    /\ Reads(v, [reading[v] EXCEPT !.pc = "headers", !.period = period,
                                   !.header = RowsNow(period, Groups)])

\* Members with what their posts allow, by a second statement.
ReadMembers(v) ==
    /\ reading[v].pc = "headers"
    /\ Reads(v, [reading[v] EXCEPT !.pc = "members",
                                   !.listed = RowsNow(reading[v].period, DOMAIN reading[v].header)])

\* _report_population_is_fully_visible
FullyVisible(members, pairs) == members # {} /\ members \cup pairs \subseteq open

\* Leftover pairs by a third; an aggregate is shown whole or not at all.
ReadPairs(v) ==
    LET now == reading[v]
        pairs(g) == report[<<g, now.period>>].pairs
    IN  /\ now.pc = "members"
        /\ Reads(v, [now EXCEPT !.pc = "shown", !.listed = Nothing, !.header = Nothing,
               !.shown = [g \in {h \in DOMAIN now.header :
                                     FullyVisible(now.listed[h].of, pairs(h))} |-> now.header[g]]])

LeaveReports(v) ==
    /\ reading[v].pc = "shown"
    /\ Reads(v, [reading[v] EXCEPT !.pc = "idle", !.shown = Nothing, !.disturbed = FALSE])

\* A summary or an extraction renames the team or project of a post; an evaluation adds it.
Move(g, p) ==
    /\ moves < MaxMoves
    /\ moves' = moves + 1
    /\ member' = [member EXCEPT ![g] = IF p \in @ THEN @ \ {p} ELSE @ \cup {p}]
    /\ UNCHANGED <<open, bank, report, rebuild, reading>>

RebuildStep(r) ==
    LoadBank(r) \/ ScoreKind(r) \/ WriteKind(r) \/ Commit(r) \/ Unusable(r)
ReadStep(v) == ReadHeaders(v) \/ ReadMembers(v) \/ ReadPairs(v) \/ LeaveReports(v)

ReportNext ==
    \/ \E r \in Reporters : RebuildStep(r)
    \/ \E v \in Viewers : ReadStep(v)
    \/ \E g \in Groups, p \in Evaluated : Move(g, p)

ReportSpec == ReportInit /\ [][ReportNext]_reportVars

-----------------------------------------------------------------------------

\* Every variable holds what its columns and its request may hold.
ReportTypeOK ==
    /\ member \in [Groups -> SUBSET Evaluated] /\ open \subseteq Evaluated
    /\ bank \in [Periods -> Banks \cup {NoReport}]
    /\ report \in [Groups \X Periods -> Reports \cup {NoReport}]
    /\ \A r \in Reporters :
          /\ rebuild[r].pc \in {"new", "scoring", "writing", "committing", "done"}
          /\ {rebuild[r].bank, rebuild[r].fresh} \subseteq Banks \cup {NoReport}
          /\ IsRows(rebuild[r].scored) /\ IsRows(rebuild[r].written)
    /\ \A v \in Viewers :
          /\ reading[v].pc \in {"idle", "headers", "members", "shown"}
          /\ IsRows(reading[v].header) /\ IsRows(reading[v].listed) /\ IsRows(reading[v].shown)
    /\ moves \in 0 .. MaxMoves

\* What one rebuild leaves is comparable across all kinds ("Every PU / corp / thread / team /
\* project scored on the shared metric", fetch_period_comparison): one bank, which is stored
\* and not of a later period, however rebuilds of the same and of other periods interleave.
OneMetricPerRebuild ==
    \A p \in Periods : \A g, h \in Groups :
        report[<<g, p>>] # NoReport =>
            /\ report[<<g, p>>].bank.period <= p
            /\ bank[report[<<g, p>>].bank.period] # NoReport
            /\ (report[<<h, p>>] # NoReport /\ report[<<h, p>>].by = report[<<g, p>>].by) =>
                   report[<<h, p>>].bank = report[<<g, p>>].bank

\* A statistic is shown only if the reader may see every post it was computed of, those it
\* names in leftover pairs included ("Require every persisted contributor before exposing a
\* precomputed aggregate", main.py); unless a rebuild ends between the statements.
ShownPopulationIsVisible ==
    \A v \in Viewers : reading[v].pc = "shown" /\ ~reading[v].disturbed =>
        \A g \in DOMAIN reading[v].shown :
            reading[v].shown[g].of \cup reading[v].shown[g].pairs \subseteq open

\* "Later periods EAP-score on those fixed parameters so weekly thetas stay on one metric"
\* (period_report.py): a change against an earlier mean is of two means of one bank.
ChangeIsOnOneMetric ==
    \A gp \in Groups \X Periods :
        report[gp] # NoReport /\ report[gp].base # NoReport => report[gp].base = report[gp].bank
=============================================================================
