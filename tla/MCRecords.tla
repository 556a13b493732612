----------------------------- MODULE MCRecords -----------------------------
(* What is kept of single posts, of the organizations and persons that they name, and  *)
(* of their evaluations: each behaviour of this instance explores one component; they  *)
(* share no state here.                                                                *)
EXTENDS SourceRevisions, EntityCatalog, MentionGraph, PeriodReports, TLC

CONSTANT RecordParts    \* the components explored

VARIABLE part           \* the component that takes steps

\* "acme" and "acme korea" are alike; "ak" is short for the latter.
Ratios == [a \in Names |-> [b \in Names |->
    IF a = b THEN 2 ELSE IF {a, b} = {"acme", "acme korea"} THEN 1 ELSE 0]]
Abbreviations == [n \in Names |-> IF n = "ak" THEN "acme korea" ELSE Nobody]
SeedNames == [s \in Seeds |-> "acme"]

\* An extraction finds the first person or nobody; a summary names the second and a team.
Finds(actors) ==
    [actors |-> actors, entity |-> [a \in Actors |-> IF a \in actors THEN "o1" ELSE None]]
Found == {Finds({}), Finds({"a"})}
Told == {[actors |-> {"b", "t"}, orgs |-> {"o1"}, entity |-> Unbound]}

\* A process unit and a team over two posts in each of two periods; the second post of a
\* period has no response for one item, the last post is hidden from the readers.
GroupKind == [g \in Groups |-> IF g = "team" THEN 2 ELSE 1]
PostPeriod == [p \in Evaluated |-> IF p <= 2 THEN 1 ELSE 2]
Responses == [p \in Evaluated |-> IF p % 2 = 0 THEN {"i"} ELSE {"i", "j"}]
Grouped == /\ member["unit"] \in {{}, Evaluated} /\ member["team"] \in {{1, 2, 3}, Evaluated}
           /\ open = Evaluated \ {4}

RecordsInit ==
    /\ part \in RecordParts
    /\ RevisionInit
    /\ CatalogInit
    /\ part # "catalog" => catalog = {}
    /\ GraphInit
    /\ ReportInit /\ Grouped
    /\ part # "reports" =>
           /\ \A g \in Groups : member[g] = Evaluated
           /\ \A r \in Reporters : rebuild[r] = Fresh(1)

RevisionsTurn == part = "revisions" /\ RevisionNext /\ UNCHANGED <<part, catalogVars, graphVars, reportVars>>
CatalogTurn == part = "catalog" /\ CatalogNext /\ UNCHANGED <<part, revisionVars, graphVars, reportVars>>
GraphTurn == part = "graph" /\ GraphNext /\ UNCHANGED <<part, revisionVars, catalogVars, reportVars>>

ReportsTurn == part = "reports" /\ ReportNext /\ UNCHANGED <<part, revisionVars, catalogVars, graphVars>>

RecordsNext == RevisionsTurn \/ CatalogTurn \/ GraphTurn \/ ReportsTurn
RecordsSpec ==
    RecordsInit /\ [][RecordsNext]_<<part, revisionVars, catalogVars, graphVars, reportVars>>

\* Types of all components.
RecordsTypeOK == RevisionTypeOK /\ CatalogTypeOK /\ GraphTypeOK /\ ReportTypeOK

\* A mention is bound to a row of its own entity, one that was created only because nothing
\* was like it (EntityCatalog states the two parts).
NamesAreBound == []BoundByLikeness /\ TwinsAreKin

\* Every clock has one body, and what was known at a past clock does not change
\* (SourceRevisions states the two parts).
HistoryIsKept == []OneVersionKnown /\ PastIsKept

\* Reports: one rebuild is measured on one scale, and no statistic is shown through posts
\* that its reader may not see (PeriodReports states the two parts).
ReportsAreSound == OneMetricPerRebuild /\ ShownPopulationIsVisible

Interchangeable == Permutations(GraphWriters) \cup Permutations(Posts)
=============================================================================
