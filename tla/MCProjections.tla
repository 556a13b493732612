--------------------------- MODULE MCProjections ---------------------------
(* What is derived from all source posts together: each behaviour of this instance *)
(* explores one of the components, which share no state.                            *)
EXTENDS LineageGraph, NeighborhoodPages, ExternalLineage, TLC

CONSTANT Projections    \* the components explored

\* The other components run beside some document.
ASSUME SomeDocument == Payloads # {}

VARIABLE part           \* the component that takes steps

\* Two posts of one day and a later one in one group.
EventDay == [e \in Events |-> IF e = 3 THEN 1 ELSE 0]
OneGroup == [e \in Events |-> "g1"]
SameProject == [e \in Events |-> IF e = 2 THEN "none" ELSE "p1"]
Titles == [a \in Events |-> [b \in Events |-> IF a + b = 3 THEN 2 ELSE 1]]
Answers == [a \in Events |-> [b \in Events |-> IF b = 3 /\ a = 2 THEN 2 ELSE 0]]
Weights == [active \in SUBSET {"temporal", "secondary_key", "text", "llm"} |->
               [channel \in active |-> IF channel = "llm" THEN 2 ELSE 1]]

\* A child firm and its parent, one person in each.
Employs == [q \in Persons |-> IF q = "ann" THEN "sub" ELSE "top"]
Owns == [f \in Firms |-> IF f = "sub" THEN "top" ELSE NoNode]
NameOrder == [n \in Nodes |-> CASE n = "p1" -> 1 [] n = "p2" -> 2 [] n = "ann" -> 3
                                 [] n = "bob" -> 4 [] n = "sub" -> 5 [] n = "top" -> 6]
KindKey(f) ==
    100 * (CASE f.kind = "affiliation" -> 1 [] f.kind = "mention" -> 2 [] f.kind = "broader" -> 3)
        + 10 * NameOrder[f.from] + NameOrder[f.to]
KindOrder == [f \in Shown |-> Cardinality({g \in Shown : KindKey(g) <= KindKey(f)})]

\* Three records of one or two times; one may be known late, the last is in either group; with
\* or without a cutoff.
Record(i, at, late, parent, last) ==
    [ref |-> i, group |-> IF i = 3 THEN last ELSE 1, at |-> at[i], parent |-> parent[i],
     available |-> IF i = late THEN 1 ELSE 0, project |-> IF i = 2 THEN NoRef ELSE 1]
Documents ==
    {[records |-> [i \in 1 .. 3 |-> Record(i, at, late, parent, last)],
      cutoff |-> policy.cutoff, policy |-> policy] :
        at \in {<<0, 0, 0>>, <<0, 0, 1>>, <<0, 1, 1>>, <<1, 0, 0>>}, late \in 0 .. 2,
        parent \in [1 .. 3 -> 1 .. 3 \cup {NoRef}], last \in {1, 2},
        policy \in {[window |-> 2, budget |-> 3, llm |-> TRUE, cutoff |-> Forever],
                     [window |-> 1, budget |-> 1, llm |-> TRUE, cutoff |-> 0],
                     [window |-> 2, budget |-> 2, llm |-> FALSE, cutoff |-> 0]}}

\* Only the last post is imported and withdrawn.
MostEligible == Events \ {3} \subseteq eligible

\* Rebuilds among each other, or readers of what one rebuilder leaves.
ProjectionsInit ==
    /\ part \in Projections
    /\ LineageInit
    /\ PagesInit
    /\ estimates = IF part = "reads" THEN ChannelSets ELSE {Channels}
    /\ IF part = "rebuilds" THEN MostEligible ELSE eligible = Events
    \* Her first post can be read; ann is in every post, bob in all or none.
    /\ "p1" \in readable
    /\ mentioned \in {{f \in Mentions : born[f.to] = 0 /\ f.from \in persons} :
                         persons \in {{"ann"}, Persons}}
    \* Small limits and filters with a sealed cursor and one focus each.
    /\ terms.nodes < Cardinality(Nodes) => terms.sealed /\ terms.focus \in Posts
    /\ ~({"mention", "affiliation"} \subseteq terms.allowed) => terms.sealed /\ terms.focus \in Firms
    /\ part # "pages" =>
           /\ mentioned = Mentions /\ readable = Posts
           /\ terms.sealed /\ terms.focus \in Firms /\ {"mention", "affiliation"} \subseteq terms.allowed
    /\ part = "external" => /\ born = [p \in Posts |-> 0]
                            /\ terms.focus \in Firms /\ terms.nodes > Cardinality(Nodes)
    /\ IF part = "external" THEN ExternalInit
       ELSE /\ inquiry = NotStarted
            /\ demand = [client |-> TRUE, estimate |-> "none",
                         payload |-> CHOOSE p \in Payloads : TRUE]

RebuildsTurn ==
    /\ part = "rebuilds"
    /\ (\E r \in Rebuilders : RebuildStep(r)) \/ ImportEvent \/ AnchorSet \/ EstimateSet
    /\ MostEligible'
    /\ UNCHANGED <<part, pageVars, externalVars>>

ReadsTurn ==
    /\ part = "reads"
    /\ \/ \E r \in Rebuilders :
              RebuildStep(r) /\ \A other \in Rebuilders \ {r} : rebuild[other].pc = "idle"
       \/ \E v \in Viewers : ViewStep(v)
    /\ UNCHANGED <<part, pageVars, externalVars>>

PagesTurn == part = "pages" /\ PagesNext /\ UNCHANGED <<part, lineageVars, externalVars>>

ExternalTurn == part = "external" /\ ExternalNext /\ UNCHANGED <<part, lineageVars, pageVars>>

ProjectionsNext == RebuildsTurn \/ ReadsTurn \/ PagesTurn \/ ExternalTurn

ProjectionsSpec ==
    ProjectionsInit /\ [][ProjectionsNext]_<<part, lineageVars, pageVars, externalVars>>

ProjectionsTypeOK == LineageTypeOK /\ PagesTypeOK /\ ExternalTypeOK

\* A chain of pages that nothing disturbs delivers no fact twice and every fact of a neighborhood
\* that its windows can exhaust, and no page shows what was not visible (NeighborhoodPages
\* states the two parts).
PagesAreWhole == ShownWasVisible /\ PagesPartition

\* A timeline: what a rebuild computes is a forest, and a reply on it hangs together
\* (LineageTree and LineageGraph state the two parts).
TimelinesHangTogether == ComputedIsForest /\ ShownHangsTogether

\* An analysis for another system: what its budget lets a provider see, and what it is
\* answered (ExternalLineage states the two parts).
ExternalIsSound == DisclosureIsBounded /\ AnswerIsSound

Alike == Permutations(Rebuilders)
=============================================================================
