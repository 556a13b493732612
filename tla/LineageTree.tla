---------------------------- MODULE LineageTree ----------------------------
(***************************************************************************)
(* How posts become lineage trees: lineageweave/reconstruct.py with its    *)
(* scoring channels, the adjudication budget of                            *)
(* backend/app/lineage_ingestion.py, and the interval relations of         *)
(* lineageweave/interval_relation.py.                                      *)
(*                                                                         *)
(* Scores are integers from 0 to Scale and weights are parts of Scale.     *)
(* Records with equal times come in any order (the query that reads them   *)
(* has none), and of several best candidates the fusion library may return *)
(* any.  A record that no candidate explains becomes a root.               *)
(***************************************************************************)
EXTENDS Integers, FiniteSets, FiniteSetsExt

CONSTANTS
    Events,     \* posts as lineage records
    NoEvent,    \* the parent of a root
    GroupOf,    \* group_key of each record
    At,         \* occurred_at of each record, in days
    Project,    \* secondary_key of each record
    NoProject,  \* the blank secondary key
    Similar,    \* similarity of two titles
    Adjudged,   \* what the model answers for two titles
    Estimate,   \* weight of each channel, for each set of active channels
    Scale,      \* the score 1.0
    MinScore,   \* DEFAULT_MIN_FUSED_SCORE
    Window,     \* DEFAULT_CANDIDATE_WINDOW
    MaxPairs    \* MAXIMUM_LIVE_LLM_PAIR_EVALUATIONS

Deterministic == {"temporal", "secondary_key", "text"}
Channels == Deterministic \cup {"llm"}

ASSUME TreeClock == IsFiniteSet(Events) /\ At \in [Events -> Nat]
ASSUME TreeNoEvent == NoEvent \notin Events
ASSUME TreeBounds == /\ Scale \in Nat \ {0} /\ MinScore \in 0 .. Scale
                     /\ Window \in Nat \ {0} /\ MaxPairs \in Nat

-----------------------------------------------------------------------------
\* The channels.

TemporalScore(candidate, record) ==
    LET gap == At[record] - At[candidate]
    IN  Scale \div (1 + (IF gap > 0 THEN gap ELSE 0))

SecondaryKeyScore(candidate, record) ==
    IF Project[candidate] = Project[record] /\ Project[record] # NoProject THEN Scale ELSE 0

Score(channel, candidate, record) ==
    CASE channel = "temporal"      -> TemporalScore(candidate, record)
      [] channel = "secondary_key" -> SecondaryKeyScore(candidate, record)
      [] channel = "text"          -> Similar[candidate][record]
      [] channel = "llm"           -> Adjudged[candidate][record]

\* weighted_convex_fuse of the library, in units of Scale * Scale.
Fused(active, candidate, record) ==
    MapThenSumSet(LAMBDA c : Estimate[active][c] * Score(c, candidate, record), active)

-----------------------------------------------------------------------------
\* The trees.

Members(records, record) == {x \in records : GroupOf[x] = GroupOf[record]}

\* Bug: sorted with the newest first.
OrdersNewestFirst(members) ==
    {order \in [1 .. Cardinality(members) -> members] :
        \A i, j \in 1 .. Cardinality(members) : i < j =>
            order[i] # order[j] /\ At[order[j]] <= At[order[i]]}

\* A group in an order that sorting by time may leave it in.
Orders(members) ==
    {order \in [1 .. Cardinality(members) -> members] :
        \A i, j \in 1 .. Cardinality(members) : i < j =>
            order[i] # order[j] /\ At[order[i]] <= At[order[j]]}

\* Bug: candidates by their time, which may be equal.
CandidatesByTime(order, i) ==
    {order[j] : j \in {k \in DOMAIN order : k # i /\ At[order[k]] <= At[order[i]]}}

Candidates(order, i) == {order[j] : j \in {k \in 1 .. i - 1 : k >= i - Window}}

Best(active, candidates, record) ==
    {best \in candidates :
        /\ Fused(active, best, record) >= MinScore * Scale
        /\ \A other \in candidates : Fused(active, other, record) <= Fused(active, best, record)}

\* parent[x] is a choice that _reconstruct_group may make for each record of a group.
Grows(active, order, parent) ==
    \A i \in DOMAIN order :
        LET best == Best(active, Candidates(order, i), order[i])
        IN  IF best = {} THEN parent[order[i]] = NoEvent ELSE parent[order[i]] \in best

\* Every result reconstruct may have, as the parent of each record.
Forests(active, records) ==
    {parent \in [records -> records \cup {NoEvent}] :
        \A record \in records : \E order \in Orders(Members(records, record)) :
            Grows(active, order, parent)}

-----------------------------------------------------------------------------
\* The budget.

PairsOfGroup(size) == SumFunction([k \in 0 .. size - 1 |-> IF k < Window THEN k ELSE Window])

GroupsOf(records) == {GroupOf[x] : x \in records}
InGroup(records, g) == {x \in records : GroupOf[x] = g}

\* _budgeted_llm counts the pairs before any is judged.
PairCount(records) ==
    SumFunction([g \in GroupsOf(records) |-> PairsOfGroup(Cardinality(InGroup(records, g)))])

\* The calls reconstruct makes: every candidate of every record.
JudgedOf(members) ==
    LET order == CHOOSE o \in Orders(members) : TRUE
    IN  SumFunction([k \in 0 .. Cardinality(members) - 1 |-> Cardinality(Candidates(order, k + 1))])
Judged(records) == SumFunction([g \in GroupsOf(records) |-> JudgedOf(InGroup(records, g))])

-----------------------------------------------------------------------------
\* Interval relations: the relation of the parent's closed interval to the child's.

Intervals == {interval \in [start : Int, end : Int] : interval.start <= interval.end}

Allen(p, c) ==
    CASE p = c                                                      -> "equals"
      [] p # c /\ p.end < c.start                                   -> "before"
      [] p # c /\ c.end < p.start                                   -> "after"
      [] p # c /\ p.end = c.start                                   -> "meets"
      [] p # c /\ c.end = p.start                                   -> "met_by"
      [] p.start < c.start /\ p.end < c.end /\ c.start < p.end      -> "overlaps"
      [] c.start < p.start /\ c.end < p.end /\ p.start < c.end      -> "overlapped_by"
      [] p.start = c.start /\ p.end < c.end /\ p.end # c.start      -> "starts"
      [] p.start = c.start /\ c.end < p.end /\ c.end # p.start      -> "started_by"
      [] c.start < p.start /\ p.end < c.end                         -> "during"
      [] p.start < c.start /\ c.end < p.end                         -> "contains"
      [] p.end = c.end /\ p.start > c.start /\ p.start # c.end      -> "finishes"
      [] p.end = c.end /\ p.start < c.start /\ p.end # c.start      -> "finished_by"

Inverse13 == [equals |-> "equals", before |-> "after", after |-> "before",
              meets |-> "met_by", met_by |-> "meets",
              overlaps |-> "overlapped_by", overlapped_by |-> "overlaps",
              starts |-> "started_by", started_by |-> "starts",
              during |-> "contains", contains |-> "during",
              finishes |-> "finished_by", finished_by |-> "finishes"]

\* The stored relation is the parent's; a reader of the child is shown the inverse.
FromCurrent(relation, currentIsParent) ==
    IF currentIsParent THEN relation ELSE Inverse13[relation]

\* The relation stored for an edge: each post is the one day of its time.
Day(event) == [start |-> At[event], end |-> At[event]]
=============================================================================
