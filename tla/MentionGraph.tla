---------------------------- MODULE MentionGraph ----------------------------
(***************************************************************************)
(* The knowledge graph as a projection of who is mentioned where:          *)
(* persist_edges_for_post of backend/app/knowledge_graph.py, the edges of  *)
(* lineageweave/knowledge_graph.py, the evidence trigger of migration      *)
(* 0016, and the writers of mentions: the extraction of Keymen (of         *)
(* backend/app/main.py, and of scripts/backfill_post_keymen.py) and the    *)
(* replacement of a summary (post_summary_ingestion.py).                   *)
(*                                                                         *)
(* A statement sees what is committed when it begins and what its own      *)
(* transaction has changed.  A request extracts Keymen in a transaction of *)
(* its own and derives the edges in a later one.                           *)
(***************************************************************************)
EXTENDS FiniteSets

CONSTANTS
    Posts,         \* source posts
    People,        \* cataloged persons
    Teams,         \* cataloged teams
    Orgs,          \* corporate entities
    None,          \* no entity, no post
    Extractions,   \* what the providers find: the Keymen of a post and their entities,
    Summaries,     \* and the actors and organizations of its roles
    GraphWriters   \* requests and scripts

Actors == People \cup Teams

ASSUME GraphActors == People \cap Teams = {} /\ None \notin Orgs \cup Posts

VARIABLES
    mentions,   \* who is mentioned in which post, and the entity of each actor
    edges,      \* knowledge_graph_edge
    evidence,   \* knowledge_graph_edge_evidence: edges and posts
    locking,    \* the writers that hold the projection lock
    writer,     \* progress of each writer
    behind      \* posts whose Keymen were committed after their edges were last derived

graphVars == <<mentions, edges, evidence, locking, writer, behind>>

-----------------------------------------------------------------------------

Affiliations == [Actors -> Orgs \cup {None}]
Unbound == [a \in Actors |-> None]

\* A summary binds no person, and neither binds whom it does not mention.
ASSUME GraphInputs ==
    /\ \A x \in Extractions : x.actors \subseteq People /\ x.entity \in Affiliations
    /\ \A x \in Summaries : x.actors \subseteq Actors /\ x.orgs \subseteq Orgs
    /\ \A x \in Summaries : x.entity \in Affiliations /\ \A a \in People : x.entity[a] = None
    /\ \A x \in Extractions \cup Summaries : \A a \in Actors \ x.actors : x.entity[a] = None

\* post_person_mention; post_summary_person_mention with post_team_mention;
\* post_organization_mention; person_affiliation with cataloged_team.
Mentions == [keymen : [Posts -> SUBSET People], roles : [Posts -> SUBSET Actors],
             named : [Posts -> SUBSET Orgs], entity : Affiliations]

\* What an open transaction has changed of them; gone: the Keymen it has deleted.
Changes == [kind : {"none", "keymen", "summary"}, gone : SUBSET People,
            actors : SUBSET Actors, orgs : SUBSET Orgs, entity : Affiliations]
NoChange == [kind |-> "none", gone |-> {}, actors |-> {}, orgs |-> {},
             entity |-> Unbound]

\* An affiliation that an extraction has not resolved keeps its entity.
After(m, p, change) ==
    LET entity == [a \in Actors |-> IF change.entity[a] = None THEN m.entity[a]
                                    ELSE change.entity[a]]
    IN  IF change.kind = "none" THEN m
        ELSE IF change.kind = "keymen"
        THEN [m EXCEPT !.keymen[p] = (@ \ change.gone) \cup change.actors, !.entity = entity]
        ELSE [m EXCEPT !.roles[p] = change.actors, !.named[p] = change.orgs, !.entity = entity]

Mention(actor, p) == <<"mention", actor, p>>
Affiliation(actor, org) == <<"affiliation", actor, org>>
CoMention(pair) == <<"co_mention", pair>>
NamedIn(org, p) == <<"mention_organization", org, p>>

\* knowledge_graph_edges_for_post.
EdgesOfPost(m, p) ==
    LET actors == m.keymen[p] \cup m.roles[p]
    IN  {Mention(a, p) : a \in actors}
        \cup {Affiliation(a, m.entity[a]) : a \in {b \in actors : m.entity[b] # None}}
        \cup {CoMention(pair) : pair \in {x \in SUBSET (actors \cap People) : Cardinality(x) = 2}}
        \cup {NamedIn(o, p) : o \in m.named[p]}

OfKinds(kinds, some) == {e \in some : e[1] \in kinds}
Direct == {"mention", "mention_organization"}

Rest == [pc |-> "idle", post |-> None, apart |-> FALSE,
         change |-> NoChange, edges |-> {}, evidence |-> {}]

GraphInit ==
    /\ mentions = [keymen |-> [p \in Posts |-> {}], roles |-> [p \in Posts |-> {}],
                   named |-> [p \in Posts |-> {}], entity |-> Unbound]
    /\ edges = {} /\ evidence = {} /\ locking = {} /\ behind = {}
    /\ writer = [w \in GraphWriters |-> Rest]

Seen(w) == After(mentions, writer[w].post, writer[w].change)

-----------------------------------------------------------------------------
\* Mentions.

\* The deletion of the Keymen of a post, and what it finds.
DeleteKeymen(w) == \E p \in Posts, apart \in BOOLEAN :
    /\ writer[w].pc = "idle"
    /\ writer' = [writer EXCEPT ![w] = [Rest EXCEPT
           !.pc = "deleted", !.post = p, !.apart = apart,
           !.change = [NoChange EXCEPT !.kind = "keymen", !.gone = mentions.keymen[p]]]]
    /\ UNCHANGED <<mentions, edges, evidence, locking, behind>>

\* A row of an actor that another open transaction has bound is waited for.
MayBind(w, entity) == \A other \in GraphWriters \ {w} : \A a \in Actors :
    entity[a] = None \/ writer[other].change.entity[a] = None

\* The extracted Keymen and their affiliations; a request commits them here.
WriteKeymen(w) == \E found \in Extractions :
    LET p      == writer[w].post
        change == [writer[w].change EXCEPT !.actors = found.actors, !.entity = found.entity]
    IN  /\ writer[w].pc = "deleted"
        /\ MayBind(w, found.entity)
        /\ IF writer[w].apart
           THEN /\ mentions' = After(mentions, p, change)
                /\ behind' = behind \cup {p}
                /\ writer' = [writer EXCEPT ![w].pc = "graph", ![w].change = NoChange]
           ELSE /\ writer' = [writer EXCEPT ![w].pc = "graph", ![w].change = change]
                /\ UNCHANGED <<mentions, behind>>
        /\ UNCHANGED <<edges, evidence, locking>>

\* The roles of a new summary; the key of post_summary_result admits one open replacement.
ReplaceRoles(w) == \E p \in Posts, found \in Summaries :
    /\ writer[w].pc = "idle"
    /\ \A other \in GraphWriters :
           ~(writer[other].change.kind = "summary" /\ writer[other].post = p)
    /\ MayBind(w, found.entity)
    /\ writer' = [writer EXCEPT ![w] = [Rest EXCEPT !.pc = "graph", !.post = p, !.change =
           [kind |-> "summary", gone |-> {}, actors |-> found.actors, orgs |-> found.orgs,
            entity |-> found.entity]]]
    /\ UNCHANGED <<mentions, edges, evidence, locking, behind>>

\* A provider, the database or the process fails; an open transaction is rolled back.
FailWriter(w) ==
    /\ writer[w].pc # "idle"
    /\ writer' = [writer EXCEPT ![w] = Rest]
    /\ locking' = locking \ {w}
    /\ behind' = IF writer[w].pc \in {"derived", "registered"} THEN behind \cup {writer[w].post}
                 ELSE behind
    /\ UNCHANGED <<mentions, edges, evidence>>

-----------------------------------------------------------------------------
\* persist_edges_for_post.

\* Bug: the projection is not locked.
NeverWaits(w) == TRUE

MayProject(w) == locking = {}

LockProjection(w) ==
    /\ writer[w].pc = "graph"
    /\ MayProject(w)
    /\ locking' = locking \cup {w}
    /\ writer' = [writer EXCEPT ![w].pc = "locked"]
    /\ UNCHANGED <<mentions, edges, evidence, behind>>

DeriveEdges(w) ==
    /\ writer[w].pc = "locked"
    /\ writer' = [writer EXCEPT ![w].pc = "derived",
                                ![w].edges = EdgesOfPost(Seen(w), writer[w].post)]
    /\ behind' = behind \ {writer[w].post}
    /\ UNCHANGED <<mentions, edges, evidence, locking>>

\* The trigger of every edge written: evidence is its own post if it names one, else every
\* post whose mentions support it.
RegisterEvidence(w) ==
    LET p == writer[w].post
    IN  /\ writer[w].pc = "derived"
        /\ writer' = [writer EXCEPT ![w].pc = "registered", ![w].evidence =
               (OfKinds(Direct, writer[w].edges) \X {p})
               \cup {s \in writer[w].edges \X Posts : s[1] \in EdgesOfPost(Seen(w), s[2])}]
        /\ UNCHANGED <<mentions, edges, evidence, locking, behind>>

\* Bug: an edge that the post itself does not support is taken for an orphan.
SupportedByPost(some, support, p) == {e \in some : <<e, p>> \in support}

\* Edges without evidence are orphans.
Supported(some, support, p) == {e \in some : \E s \in support : s[1] = e}

\* The evidence of the post is replaced, orphans are deleted, all is committed.
CommitEdges(w) ==
    LET p    == writer[w].post
        kept == {s \in evidence : s[2] # p} \cup writer[w].evidence
    IN  /\ writer[w].pc = "registered"
        /\ mentions' = Seen(w)
        /\ evidence' = kept
        /\ edges' = Supported(edges \cup writer[w].edges, kept, p)
        /\ locking' = locking \ {w}
        /\ writer' = [writer EXCEPT ![w] = Rest]
        /\ UNCHANGED behind

WriterStep(w) ==
    \/ DeleteKeymen(w) \/ WriteKeymen(w) \/ ReplaceRoles(w) \/ FailWriter(w)
    \/ LockProjection(w) \/ DeriveEdges(w) \/ RegisterEvidence(w) \/ CommitEdges(w)

GraphNext == \E w \in GraphWriters : WriterStep(w)
GraphSpec == GraphInit /\ [][GraphNext]_graphVars

-----------------------------------------------------------------------------

\* Every variable holds what its columns may hold.
GraphTypeOK ==
    /\ mentions \in Mentions
    /\ \A s \in evidence : s[1] \in edges /\ s[2] \in Posts
    /\ locking \subseteq GraphWriters /\ behind \subseteq Posts
    /\ \A w \in GraphWriters : writer[w].post \in Posts \cup {None} /\ writer[w].change \in Changes

Evident(p) == {s[1] : s \in {x \in evidence : x[2] = p}}
Projected == {p \in Posts \ behind : \A w \in GraphWriters :
                 writer[w].pc \in {"derived", "registered"} => writer[w].post # p}

\* The evidence of a post whose edges are not behind is that of its mentions, no more and no
\* less, whatever other posts are projected at the same time, and no edge stands without
\* evidence ("a replacement cannot leave a buyer-visible orphan edge", ADR 0009).
EvidenceIsCurrent ==
    /\ \A e \in edges : \E s \in evidence : s[1] = e
    /\ \A p \in Projected : LET kinds == Direct \cup {"co_mention"} IN
           OfKinds(kinds, Evident(p)) = OfKinds(kinds, EdgesOfPost(mentions, p))
=============================================================================
