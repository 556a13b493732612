---------------------------- MODULE LineageGraph ----------------------------
(***************************************************************************)
(* The stored Event Lineage graph: rebuild_lineage_from_pool, its          *)
(* replacement of the tables of migration 0174, and the readers            *)
(* visible_lineage_graph and lineage_graphs_for_posts, all of              *)
(* backend/app/lineage_ingestion.py.                                       *)
(*                                                                         *)
(* A rebuild reads the eligible posts, reconstructs outside any            *)
(* transaction, and replaces every edge, its evidence and the one row of   *)
(* metadata in one transaction at READ COMMITTED.  A statement of it sees  *)
(* what was committed when the statement began; it then waits for the      *)
(* rows that another transaction is deleting.                              *)
(***************************************************************************)
EXTENDS LineageTree

CONSTANTS
    Rebuilders,     \* rebuild requests
    Viewers,        \* requests for the graph
    NodeLimit       \* _LINEAGE_GRAPH_NODE_LIMIT

ASSUME GraphLimit == NodeLimit \in Nat \ {0}

VARIABLES
    eligible,   \* the posts a query with the eligibility clause returns
    estimates,  \* the sets of channels for which weights are stored
    edges,      \* post_lineage_edge, with the channels of its evidence
    meta,       \* event_lineage_rebuild and its channels
    rebuild,    \* progress of each rebuild
    view        \* progress of each reader

lineageVars == <<eligible, estimates, edges, meta, rebuild, view>>

-----------------------------------------------------------------------------

ChannelSets == {Deterministic, Channels}
Edges == [parent : Events, child : Events, channels : ChannelSets]

\* by: the edges the rebuild of this row wrote; no column holds them.
Metas == [exists : BOOLEAN, channels : ChannelSets, by : SUBSET Edges]
NoMeta == [exists |-> FALSE, channels |-> Deterministic, by |-> {}]

\* seen: the edges that were there when their deletion began.  late: another rebuild has
\* replaced the metadata since its deletion began.
Rebuilds == [pc : {"idle", "read", "computed", "deleting", "replacing"},
             records : SUBSET Events, active : ChannelSets, judged : Nat,
             result : SUBSET Edges, seen : SUBSET Edges, late : BOOLEAN]
NoRebuild == [pc |-> "idle", records |-> {}, active |-> Deterministic, judged |-> 0,
              result |-> {}, seen |-> {}, late |-> FALSE]

\* all: the posts this reader may see.  asked: the posts it asks about, none for the landing
\* view.  evidence: the edges for which it has found channel scores.
Views == [pc : {"idle", "posts", "edges", "shown"}, kind : {"landing", "focus", "cited"},
          all : SUBSET Events, asked : SUBSET Events, nodes : SUBSET Events,
          links : SUBSET Edges, evidence : SUBSET Edges, truncated : BOOLEAN]
NoView == [pc |-> "idle", kind |-> "landing", all |-> {}, asked |-> {}, nodes |-> {},
           links |-> {}, evidence |-> {}, truncated |-> FALSE]

LineageInit ==
    /\ eligible \in SUBSET Events
    /\ estimates \in SUBSET ChannelSets
    /\ edges = {}
    /\ meta = NoMeta
    /\ rebuild = [r \in Rebuilders |-> NoRebuild]
    /\ view = [v \in Viewers |-> NoView]

-----------------------------------------------------------------------------
\* A rebuild.

Abandon(r) == rebuild' = [rebuild EXCEPT ![r] = NoRebuild]

\* One complete set of independently anchored weights is stored for exactly these channels.
Estimated(active) == active \in estimates

\* The llm channel is dropped above the budget, before the weights are looked up; without
\* weights for exactly the channels left there is no rebuild (503).
ReadRecords(r) == \E configured \in BOOLEAN :
    LET active == IF configured /\ PairCount(eligible) <= MaxPairs THEN Channels
                  ELSE Deterministic
    IN  /\ rebuild[r].pc = "idle"
        /\ Estimated(active)
        /\ rebuild' = [rebuild EXCEPT ![r] = [NoRebuild EXCEPT
               !.pc = "read", !.records = eligible, !.active = active,
               !.judged = IF active = Channels THEN Judged(eligible) ELSE 0]]
        /\ UNCHANGED <<eligible, estimates, edges, meta, view>>

\* Bug: roots are written as edges too.
EdgesOfAll(parent, active) ==
    {[parent |-> parent[x], child |-> x, channels |-> active] : x \in DOMAIN parent}

EdgesOf(parent, active) ==
    {[parent |-> parent[x], child |-> x, channels |-> active] :
        x \in {y \in DOMAIN parent : parent[y] # NoEvent}}

Reconstruct(r) == \E parent \in Forests(rebuild[r].active, rebuild[r].records) :
    /\ rebuild[r].pc = "read"
    /\ rebuild' = [rebuild EXCEPT ![r].pc = "computed", ![r].records = {}, ![r].judged = 0,
                                  ![r].result = EdgesOf(parent, rebuild[r].active)]
    /\ UNCHANGED <<eligible, estimates, edges, meta, view>>

\* One failing adjudication ends the rebuild: 503.
AdjudicationRaises(r) ==
    /\ rebuild[r].pc = "read" /\ rebuild[r].judged > 0
    /\ Abandon(r)
    /\ UNCHANGED <<eligible, estimates, edges, meta, view>>

\* The deletion of the edges begins.
BeginReplace(r) ==
    /\ rebuild[r].pc = "computed"
    /\ rebuild' = [rebuild EXCEPT ![r].pc = "deleting", ![r].seen = edges]
    /\ UNCHANGED <<eligible, estimates, edges, meta, view>>

\* It ends when no other transaction holds one of these edges; the next statement begins.
DeleteEdges(r) ==
    /\ rebuild[r].pc = "deleting"
    /\ \A other \in Rebuilders \ {r} :
           rebuild[other].pc = "replacing" => rebuild[other].seen \cap rebuild[r].seen = {}
    /\ rebuild' = [rebuild EXCEPT ![r].pc = "replacing"]
    /\ UNCHANGED <<eligible, estimates, edges, meta, view>>

Key(e) == <<e.parent, e.child>>
Left(r) == edges \ rebuild[r].seen

\* The keys of the metadata row and of the edges are free of what this transaction has not
\* seen, and it commits.
Replace(r) ==
    /\ rebuild[r].pc = "replacing"
    /\ ~rebuild[r].late
    /\ {Key(e) : e \in Left(r)} \cap {Key(e) : e \in rebuild[r].result} = {}
    /\ edges' = Left(r) \cup rebuild[r].result
    /\ meta' = [exists |-> TRUE, channels |-> rebuild[r].active, by |-> rebuild[r].result]
    /\ rebuild' = [x \in Rebuilders |-> IF x = r THEN NoRebuild
                       ELSE [rebuild[x] EXCEPT !.late = rebuild[x].pc = "replacing"]]
    /\ UNCHANGED <<eligible, estimates, view>>

\* A key is taken by a rebuild that has committed meanwhile: the transaction is rolled back.
KeyTaken(r) ==
    /\ rebuild[r].pc = "replacing"
    /\ \/ rebuild[r].late
       \/ {Key(e) : e \in Left(r)} \cap {Key(e) : e \in rebuild[r].result} # {}
    /\ Abandon(r)
    /\ UNCHANGED <<eligible, estimates, edges, meta, view>>

-----------------------------------------------------------------------------
\* A reader: three statements and no transaction.

ReadPosts(v) == \E scope, asked \in SUBSET Events, kind \in {"landing", "focus", "cited"} :
    /\ view[v].pc = "idle"
    /\ kind = "landing" <=> asked = {}
    /\ kind = "focus" => Cardinality(asked) = 1
    /\ view' = [view EXCEPT ![v] = [NoView EXCEPT !.pc = "posts", !.kind = kind,
                                                  !.all = scope \cap eligible, !.asked = asked]]
    /\ UNCHANGED <<eligible, estimates, edges, meta, rebuild>>

Linked(a, b) == \E e \in edges : {e.parent, e.child} = {a, b}

\* _connected_visible_component.
Component(focus, allowed) ==
    {x \in allowed : \A closed \in SUBSET allowed :
        (focus \in closed /\ \A a \in closed, b \in allowed : Linked(a, b) => b \in closed)
            => x \in closed}

Asked(v) == view[v].asked \cap view[v].all
Around(v) == UNION {Component(x, view[v].all) : x \in Asked(v)}

\* The newest posts, those asked about before all others, at most NodeLimit; of posts of
\* equal time, and of too many asked about, it may be any.
Newest(v, wanted, nodes) ==
    /\ nodes \subseteq wanted
    /\ Cardinality(nodes) = Min({Cardinality(wanted), NodeLimit})
    /\ Asked(v) \subseteq nodes \/ nodes \subseteq Asked(v)
    /\ \A x \in nodes \ Asked(v), y \in wanted \ nodes : At[y] <= At[x]

\* A focused post without relations is shown only if isolated posts are asked for.
ReadEdges(v) == \E nodes \in SUBSET view[v].all, isolated \in BOOLEAN :
    /\ view[v].pc = "posts"
    /\ CASE view[v].kind = "landing" -> Newest(v, view[v].all, nodes)
         [] view[v].kind = "cited"   -> Newest(v, Around(v), nodes)
         [] view[v].kind = "focus"   ->
                nodes = IF isolated \/ Cardinality(Around(v)) > 1 THEN Around(v) ELSE {}
    /\ view' = [view EXCEPT ![v].pc = "edges", ![v].nodes = nodes,
                    ![v].links = {e \in edges : e.parent \in nodes /\ e.child \in nodes},
                    ![v].truncated = /\ view[v].kind # "focus"
                                     /\ nodes # IF view[v].kind = "cited" THEN Around(v)
                                                ELSE view[v].all]
    /\ UNCHANGED <<eligible, estimates, edges, meta, rebuild>>

\* The evidence of the edges it has read, found by their keys.
ReadSignals(v) ==
    /\ view[v].pc = "edges"
    /\ view' = [view EXCEPT ![v].pc = "shown",
                    ![v].evidence = {e \in edges : \E link \in view[v].links : Key(link) = Key(e)}]
    /\ UNCHANGED <<eligible, estimates, edges, meta, rebuild>>

CloseView(v) ==
    /\ view[v].pc = "shown"
    /\ view' = [view EXCEPT ![v] = NoView]
    /\ UNCHANGED <<eligible, estimates, edges, meta, rebuild>>

-----------------------------------------------------------------------------
\* Everyone else.

\* An import writes a post or withdraws one; it stays the end of its stored edges.
ImportEvent == \E x \in Events :
    /\ eligible' = IF x \in eligible THEN eligible \ {x} ELSE eligible \cup {x}
    /\ UNCHANGED <<estimates, edges, meta, rebuild, view>>

\* An accepted measurement anchors the weights of a set: from now on they count.
AnchorSet == \E set \in ChannelSets :
    /\ estimates' = estimates \cup {set}
    /\ UNCHANGED <<eligible, edges, meta, rebuild, view>>

\* persist_estimate replaces the weights of a set by others without an anchor.
EstimateSet == \E set \in ChannelSets :
    /\ estimates' = estimates \ {set}
    /\ UNCHANGED <<eligible, edges, meta, rebuild, view>>

RebuildStep(r) ==
    \/ ReadRecords(r) \/ Reconstruct(r) \/ AdjudicationRaises(r) \/ BeginReplace(r)
    \/ DeleteEdges(r) \/ Replace(r) \/ KeyTaken(r)
ViewStep(v) == ReadPosts(v) \/ ReadEdges(v) \/ ReadSignals(v) \/ CloseView(v)

LineageNext ==
    \/ \E r \in Rebuilders : RebuildStep(r)
    \/ \E v \in Viewers : ViewStep(v)
    \/ ImportEvent \/ AnchorSet \/ EstimateSet

LineageSpec == LineageInit /\ [][LineageNext]_lineageVars

-----------------------------------------------------------------------------

\* Every variable holds what its columns and its request may hold.
LineageTypeOK ==
    /\ eligible \subseteq Events
    /\ estimates \subseteq ChannelSets
    /\ edges \subseteq Edges
    /\ meta \in Metas
    /\ rebuild \in [Rebuilders -> Rebuilds]
    /\ view \in [Viewers -> Views]

\* What one reconstruction stores is a forest, whatever the order of records of equal time:
\* no record has two parents, and no set of records follows only from itself; and the model
\* was asked for no more pairs than ADR 0172 allows and were counted beforehand. And whatever
\* concurrent rebuilds leave behind, an edge stays within its group and leads from an earlier
\* record to a later one ("lineage edges only ever point from an earlier record to a later
\* one", models.Record).
ComputedIsForest ==
    \A r \in Rebuilders :
        /\ rebuild[r].judged <= MaxPairs
        /\ \A e, f \in rebuild[r].result : e.child = f.child => e = f
        /\ \A cycle \in SUBSET Events : cycle # {} =>
               \E x \in cycle : \A e \in rebuild[r].result : e.child = x => e.parent \notin cycle
        /\ \A e \in edges : GroupOf[e.parent] = GroupOf[e.child] /\ At[e.parent] <= At[e.child]

\* A reader is shown its own posts only, each tied to one of those it asked about by edges
\* shown, so that an invisible post never bridges two visible ones; truncation is named.
ShownHangsTogether ==
    \A v \in Viewers : view[v].pc = "shown" =>
        /\ view[v].nodes \subseteq view[v].all
        /\ \A e \in view[v].links : e.parent \in view[v].nodes /\ e.child \in view[v].nodes
        /\ {Key(e) : e \in view[v].evidence} \subseteq {Key(e) : e \in view[v].links}
        /\ (view[v].kind # "landing" /\ ~view[v].truncated) =>
               \A part \in SUBSET view[v].nodes :
                   (part # {} /\ \A e \in view[v].links : e.parent \in part <=> e.child \in part)
                       => part \cap view[v].asked # {}
=============================================================================
