-------------------------- MODULE NeighborhoodPages --------------------------
(***************************************************************************)
(* The ontology neighborhood of one node, read page by page:               *)
(* backend/app/ontology_neighborhood_ingestion.py, the assembler of        *)
(* lineageweave/ontology_neighborhood.py and the sealed source cursor of   *)
(* lineageweave/ontology_source_cursor.py.                                 *)
(*                                                                         *)
(* A request runs its statements on one connection without a transaction,  *)
(* so that mentions, projected edges and visibility change between them.   *)
(* Nodes are posts, persons and firms; teams, projects and constructs are  *)
(* loaded in the same way.  A fact is an edge of the knowledge graph: it   *)
(* has a creation time, its evidence (the posts that support it) has none. *)
(* The optional knowledge cutoff filters like the snapshot and is left     *)
(* out; so are labels, metadata and Voices.                                *)
(***************************************************************************)
EXTENDS Integers, FiniteSetsExt

CONSTANTS
    Posts, Persons, Firms,
    Employer,       \* the firm a person is affiliated with, or NoNode
    Owner,          \* parent_entity_id of a firm, or NoNode
    NoNode,
    Focuses,        \* the nodes asked about
    Rank,           \* the order of facts by edge type, source and target
    NodeRank,       \* the order of node keys
    MaxDepth, MaxEdges,
    HardEdges,      \* HARD_MAXIMUM_EDGES
    NodeLimits,     \* values of maximum_nodes asked for
    Filters,        \* sets of properties asked for
    LastInstant,    \* bound of the clock
    MaxEdits        \* bound of concurrent writes

Nodes == Posts \cup Persons \cup Firms

Mentions == [kind : {"mention"}, from : Persons, to : Posts]
Affiliations == {[kind |-> "affiliation", from |-> q, to |-> Employer[q]] :
                    q \in {x \in Persons : Employer[x] # NoNode}}
Facts == Mentions \cup Affiliations
Broader == {[kind |-> "broader", from |-> f, to |-> Owner[f]] :
               f \in {x \in Firms : Owner[x] # NoNode}}
Shown == Facts \cup Broader

ASSUME PageConstants ==
    /\ Employer \in [Persons -> Firms \cup {NoNode}] /\ Owner \in [Firms -> Firms \cup {NoNode}]
    /\ Focuses \subseteq Nodes /\ IsFiniteSet(Nodes) /\ NoNode \notin Nodes
    /\ Rank \in [Shown -> 1 .. Cardinality(Shown)] /\ \A f, g \in Shown : Rank[f] = Rank[g] => f = g
    /\ NodeRank \in [Nodes -> Nat] /\ \A m, n \in Nodes : NodeRank[m] = NodeRank[n] => m = n
    /\ {MaxDepth, MaxEdges, HardEdges} \subseteq Nat \ {0} /\ MaxEdges <= HardEdges
    /\ NodeLimits \subseteq Nat \ {0}
    /\ LastInstant \in Nat /\ MaxEdits \in Nat

VARIABLES
    clock,      \* clock_timestamp() of the database
    edits,      \* concurrent writes so far
    born,       \* created_at of a post; LastInstant + 1 until it is imported
    readable,   \* the posts that are eligible and that this reader may see
    mentioned,  \* combined_post_person_mention, as facts
    support,    \* knowledge_graph_edge_evidence: pairs of a fact and a post
    since,      \* created_at of an edge
    terms,      \* what this reader asks for on every page, and whether a secret is set
    request,    \* the request under way
    page,       \* the last answer
    chain       \* the pages read so far from the first one, and what may justify them

pageVars == <<clock, edits, born, readable, mentioned, support, since,
              terms, request, page, chain>>
graphVars == <<clock, edits, born, readable, mentioned, support, since>>

-----------------------------------------------------------------------------
\* Rows and windows.

Ends(f) == {f.from, f.to}
EndsOf(facts) == UNION {Ends(f) : f \in facts}

Existing(post, snapshot) == born[post] <= snapshot

MentionedIn(person, posts) == \E p \in posts : [kind |-> "mention", from |-> person, to |-> p] \in mentioned

\* _visible_post_ids_by_nodes of one node: the visible posts that show it.
Grounds(node, snapshot) ==
    {p \in readable : Existing(p, snapshot) /\
        \/ node = p
        \/ node \in Persons /\ MentionedIn(node, {p})
        \/ node \in Firms /\ \E q \in Persons : Employer[q] = node /\ MentionedIn(q, {p})}

Supporters(f, posts, snapshot) ==
    {p \in posts : <<f, p>> \in support /\ Existing(p, snapshot)}

CandidateFacts(posts, snapshot) ==
    {f \in Facts : since[f] <= snapshot /\ Supporters(f, posts, snapshot) # {}}

\* The nodes within d steps of the focus.
Reached(facts) ==
    LET within[d \in Nat] ==
            IF d = 0 THEN {terms.focus}
            ELSE within[d - 1] \cup UNION {Ends(f) : f \in {g \in facts : Ends(g) \cap within[d - 1] # {}}}
    IN  [d \in 0 .. MaxDepth |-> within[d]]

Near(facts) == {f \in facts : Ends(f) \cap Reached(facts)[MaxDepth - 1] # {}}
Hop(f, facts) == Min({d \in 0 .. MaxDepth - 1 : Ends(f) \cap Reached(facts)[d] # {}})

RowsOf(posts, snapshot) ==
    LET facts == CandidateFacts(posts, snapshot)
    IN  {[fact |-> f, hop |-> Hop(f, facts), evidence |-> Supporters(f, posts, snapshot)] :
            f \in Near(facts)}

\* The position of a row in the keyset order, by hop first.
RowKey(r) == r.hop * (Cardinality(Shown) + 1) + Rank[r.fact]

\* _load_facts: the first limit rows after a key, and whether there are more.
Loaded(posts, snapshot, after, limit) ==
    LET all == {r \in RowsOf(posts, snapshot) : RowKey(r) > after}
        first == {r \in all : Cardinality({s \in all : RowKey(s) < RowKey(r)}) < limit}
    IN  [rows |-> first, more |-> first # all]

FactsOf(rows) == {r.fact : r \in rows}
KeyMap(rows) == [f \in FactsOf(rows) |-> Min({RowKey(r) : r \in {s \in rows : s.fact = f}})]

\* dict.update
Updated(old, new) == [f \in DOMAIN old \cup DOMAIN new |-> IF f \in DOMAIN new THEN new[f] ELSE old[f]]
NoKeys == [f \in {} |-> 0]

-----------------------------------------------------------------------------

Stages == {"idle", "focus", "load", "widen", "reload", "page", "ends", "parents", "answer"}

\* A cursor of kind "after" names the last edge shown; one of kind "source" seals the key of
\* that edge's row, the snapshot and the posts of the chain.
Cursors == [kind : {"none", "after", "source"}, fact : Shown \cup {NoNode}, key : Nat,
            snapshot : 0 .. LastInstant, posts : SUBSET Posts]
NoCursor == [kind |-> "none", fact |-> NoNode, key |-> 0, snapshot |-> 0, posts |-> {}]

\* posts: loaded_post_ids.  wider: candidate_post_ids.  rows, more, keys: the window and
\* source_keys_by_edge.  asked, seen: the keys of visible_by_node, and those with posts.
NoRequest == [pc |-> "idle", cursor |-> NoCursor, snapshot |-> 0, posts |-> {}, wider |-> {},
              round |-> 0, rows |-> {}, more |-> FALSE, keys |-> NoKeys, seen |-> {},
              asked |-> {}]

\* failed: the codes of OntologyNeighborhoodError the reader may get.
NoPage == [failed |-> "no_request", edges |-> {}, nodes |-> {}, evidence |-> {},
           truncated |-> FALSE, cursor |-> NoCursor]

\* What a projection of every post stores.
Supports(f, p) == IF f.kind = "mention" THEN f.to = p /\ f \in mentioned ELSE MentionedIn(f.from, {p})

\* The nodes this reader could be shown now.
Visible == {n \in Nodes : Grounds(n, clock) # {}}

\* Every post is projected and its edges are as old as the graph.
PagesInit ==
    /\ clock = 0 /\ edits = 0
    /\ born \in [Posts -> {0, LastInstant + 1}]
    /\ readable \in SUBSET {p \in Posts : born[p] = 0}
    /\ mentioned \in SUBSET {f \in Mentions : born[f.to] = 0}
    /\ support = {pair \in Facts \X Posts : Supports(pair[1], pair[2])}
    /\ since = [f \in Facts |-> 0]
    /\ terms \in [focus : Focuses, sealed : BOOLEAN, allowed : Filters, nodes : NodeLimits]
    /\ request = NoRequest
    /\ page = NoPage
    /\ chain = [delivered |-> {}, undisturbed |-> TRUE, snapshot |-> 0, visible |-> {}]

-----------------------------------------------------------------------------
\* A request.

Fail(code) ==
    /\ request' = NoRequest
    /\ page' = [NoPage EXCEPT !.failed = code]
    /\ UNCHANGED <<graphVars, terms, chain>>

\* Posts that are imported after the sealed snapshot do not matter to a chain of pages; a
\* continuation under a later clock takes them in.
StillUndisturbed(snapshot) ==
    chain.undisturbed /\ \A p \in Posts : ~(chain.snapshot < born[p] /\ born[p] <= snapshot)

Advance(r) == request' = r /\ UNCHANGED <<graphVars, terms, page, chain>>

\* A first page, or the continuation of the last one; the sealed snapshot replaces the clock.
BeginRequest == \E cursor \in {NoCursor, page.cursor} :
    LET snapshot == IF cursor.kind = "source" THEN cursor.snapshot ELSE clock
    IN  /\ request.pc = "idle"
        /\ request' = [NoRequest EXCEPT !.pc = "focus", !.cursor = cursor, !.snapshot = snapshot]
        /\ chain' = [delivered |-> IF cursor = NoCursor THEN {} ELSE chain.delivered,
                     undisturbed |-> cursor = NoCursor \/ StillUndisturbed(snapshot),
                     snapshot |-> snapshot, visible |-> Visible]
        /\ UNCHANGED <<graphVars, terms, page>>

\* visible_post_ids_for_focus
ReadFocus == LET grounds == Grounds(terms.focus, request.snapshot) IN
    /\ request.pc = "focus"
    /\ IF grounds = {} THEN Fail("focus_not_visible")
       ELSE Advance([request EXCEPT !.pc = "load", !.posts = grounds])

LoadFirst ==
    LET window == Loaded(request.posts, request.snapshot, 0, HardEdges)
    IN  /\ request.pc = "load"
        /\ Advance([request EXCEPT !.pc = "widen", !.rows = window.rows, !.more = window.more,
                                   !.keys = KeyMap(window.rows)])

SeenOf(nodes) == {n \in nodes : Grounds(n, request.snapshot) # {}}

\* The posts that show the ends of what is loaded, until they are no more; after MaxDepth
\* rounds their visibility is read once more.
Widen ==
    LET ends == EndsOf(FactsOf(request.rows))
        posts == request.posts \cup UNION {Grounds(n, request.snapshot) : n \in ends}
        grows == request.round < MaxDepth /\ posts # request.posts
    IN  /\ request.pc = "widen"
        /\ Advance([request EXCEPT
               !.pc = IF grows THEN "reload" ELSE "page",
               !.seen = IF ends = {} THEN @ ELSE SeenOf(ends),
               !.asked = IF ends = {} THEN @ ELSE ends,
               !.wider = IF grows THEN posts ELSE {}])

Reload ==
    LET window == Loaded(request.wider, request.snapshot, 0, HardEdges)
    IN  /\ request.pc = "reload"
        /\ Advance([request EXCEPT
               !.pc = "widen", !.posts = request.wider, !.wider = {}, !.round = @ + 1,
               !.rows = @ \cup window.rows, !.more = @ \/ window.more,
               !.keys = Updated(@, KeyMap(window.rows))])

\* A continuation compares the posts with those of its cursor and loads its own window.
ReadPage ==
    LET cursor == request.cursor
        window == Loaded(request.posts, request.snapshot, cursor.key, MaxEdges)
    IN  /\ request.pc = "page"
        /\ IF cursor.kind # "source" THEN Advance([request EXCEPT !.pc = "ends"])
           ELSE IF cursor.posts # request.posts THEN Fail("stale_snapshot")
           ELSE Advance([request EXCEPT !.pc = "ends", !.rows = window.rows,
                            !.more = window.more, !.keys = KeyMap(window.rows)])

ReadEnds ==
    LET ends == EndsOf(FactsOf(request.rows))
    IN  /\ request.pc = "ends"
        /\ Advance([request EXCEPT !.pc = "parents",
                                   !.seen = IF ends = {} THEN @ ELSE SeenOf(ends),
                                   !.asked = IF ends = {} THEN @ ELSE ends])

\* _load_skos_facts: the parents of the firms of the window and of a focal firm.
BroaderOf(rows) == {f \in Broader : f.from \in EndsOf(FactsOf(rows)) \cup {terms.focus}}

\* Parents pass the gate of every other end.
ParentsShown(parents) == SeenOf(parents)

ReadParents ==
    LET parents == {f.to : f \in BroaderOf(request.rows)} \ request.asked
    IN  /\ request.pc = "parents"
        /\ Advance([request EXCEPT !.pc = "answer", !.asked = {}, !.seen = @ \cup ParentsShown(parents)])

-----------------------------------------------------------------------------
\* assemble_ontology_neighborhood and the token of the next page.

\* A fact with an end that is not seen is dropped; the focus has been seen.
Authorized(facts) == {f \in facts : Ends(f) \subseteq request.seen \cup {terms.focus}}
Wanted(facts) == {f \in Authorized(facts) : f.kind \in terms.allowed}

Depth(f) == Min({r.hop : r \in {s \in request.rows : s.fact = f}})

\* With rows of the database their order is kept and the hierarchy comes last; without any
\* the hierarchy is walked from the focus.
Collected ==
    LET source == Wanted(FactsOf(request.rows))
        broader == Wanted(BroaderOf(request.rows))
    IN  IF source # {} THEN source \cup broader ELSE Near(broader)

Distance(f) == IF f \in Facts THEN Depth(f)
               ELSE IF Collected \cap Facts = {} THEN Hop(f, Wanted(BroaderOf(request.rows)))
               ELSE MaxDepth
Place(f) == IF f \in Facts THEN KeyMap(request.rows)[f]
            ELSE (MaxDepth + Distance(f)) * (Cardinality(Shown) + 1) + Rank[f]

After(fact) == {f \in Collected : fact = NoNode \/ Place(f) > Place(fact)}
Leading(facts) == {f \in facts : Cardinality({g \in facts : Place(g) < Place(f)}) < MaxEdges}

FarFrom(n) == IF n = terms.focus THEN 0 ELSE 1 + Min({Distance(f) : f \in {g \in Collected : n \in Ends(g)}})
Closer(m, n) == \/ FarFrom(m) < FarFrom(n)
                \/ FarFrom(m) = FarFrom(n) /\ NodeRank[m] < NodeRank[n]
Nearest(nodes) == {n \in nodes : Cardinality({m \in nodes : Closer(m, n)}) < terms.nodes}

LastOf(facts) == CHOOSE f \in facts : \A g \in facts : Place(g) <= Place(f)

\* Bug: the next page begins after the last row that was read.
AfterWindow(edges) == Max({request.keys[f] : f \in FactsOf(request.rows)})

\* The next page begins after the last row that is shown.
LastKey(edges) == request.keys[LastOf(edges \cap Facts)]

\* A sealed cursor replaces the token of the assembler, unless the nodes of the window are
\* more than were asked for or no edge of the page is a row of the database.
NextCursor(edges, rest, trimmed, truncated) ==
    LET next == rest /\ ~trimmed
        nodes == {terms.focus} \cup EndsOf(Authorized(FactsOf(request.rows) \cup BroaderOf(request.rows)))
        kept == IF trimmed THEN {f \in edges : Ends(f) \subseteq Nearest({terms.focus} \cup EndsOf(edges))} ELSE edges
    IN  IF /\ terms.sealed /\ truncated /\ (request.more \/ next)
           /\ kept \cap Facts # {} /\ Cardinality(nodes) <= terms.nodes
        THEN [kind |-> "source", fact |-> NoNode, key |-> LastKey(kept),
              snapshot |-> request.snapshot, posts |-> request.posts]
        ELSE IF next THEN [NoCursor EXCEPT !.kind = "after", !.fact = LastOf(edges)]
        ELSE NoCursor

Answer ==
    LET cursor == request.cursor
        begin == IF cursor.kind = "after" THEN cursor.fact ELSE NoNode
        edges == Leading(After(begin))
        rest == edges # After(begin)
        nodes == {terms.focus} \cup EndsOf(edges)
        kept == Nearest(nodes)
        trimmed == kept # nodes
        shown == {f \in edges : Ends(f) \subseteq kept}
        truncated == \/ request.more \/ rest \/ trimmed
                     \/ Cardinality({terms.focus} \cup EndsOf(Collected)) > terms.nodes
    IN  /\ request.pc = "answer"
        /\ IF begin # NoNode /\ begin \notin Collected THEN Fail("malformed_cursor")
           ELSE /\ page' = [failed |-> "no", edges |-> shown, nodes |-> kept,
                            evidence |-> UNION {r.evidence : r \in {s \in request.rows : s.fact \in shown}},
                            truncated |-> truncated,
                            cursor |-> NextCursor(edges, rest, trimmed, truncated)]
                /\ chain' = [chain EXCEPT !.delivered = @ \cup shown]
                /\ request' = NoRequest
                /\ UNCHANGED <<graphVars, terms>>

-----------------------------------------------------------------------------
\* Concurrent writes.  A chain of pages is disturbed by a write about a post it may know.

Write(moment) ==
    /\ UNCHANGED <<clock, terms, request, page>>
    /\ chain' = [chain EXCEPT !.undisturbed = @ /\ moment > chain.snapshot,
                              !.visible = @ \cup Visible']

Edit(moment) == edits < MaxEdits /\ edits' = edits + 1 /\ Write(moment)

Import(p) ==
    /\ born[p] > LastInstant
    /\ born' = [born EXCEPT ![p] = clock]
    /\ readable' = readable \cup {p}
    /\ UNCHANGED <<mentioned, support, since>>
    /\ Edit(clock)

\* A post is made private, withdrawn, moved, or shown again.
Regrant(p) ==
    /\ born[p] <= LastInstant
    /\ readable' = IF p \in readable THEN readable \ {p} ELSE readable \cup {p}
    /\ UNCHANGED <<born, mentioned, support, since>>
    /\ Edit(born[p])

\* A new extraction of a post; its projection follows in another transaction.
Extract(p) == \E persons \in SUBSET Persons :
    /\ born[p] <= LastInstant
    /\ mentioned' = {f \in mentioned : f.to # p} \cup
                       {[kind |-> "mention", from |-> q, to |-> p] : q \in persons}
    /\ mentioned' # mentioned
    /\ UNCHANGED <<born, readable, support, since>>
    /\ Edit(born[p])

\* project_post: an edge that loses its last support is deleted, a new one is as old as now.
ProjectPost(p) ==
    /\ born[p] <= LastInstant
    /\ support' = {pair \in support : pair[2] # p} \cup {<<f, p>> : f \in {g \in Facts : Supports(g, p)}}
    /\ support' # support
    /\ since' = [f \in Facts |-> IF \E x \in Posts : <<f, x>> \in support THEN since[f] ELSE clock]
    /\ UNCHANGED <<edits, born, readable, mentioned>>
    /\ Write(born[p])

Tick ==
    /\ clock < LastInstant
    /\ clock' = clock + 1
    /\ UNCHANGED <<edits, born, readable, mentioned, support, since, terms, request, page, chain>>

PagesStep == BeginRequest \/ ReadFocus \/ LoadFirst \/ Widen \/ Reload
                 \/ ReadPage \/ ReadEnds \/ ReadParents \/ Answer
PagesWrite == Tick \/ \E p \in Posts : Import(p) \/ Regrant(p) \/ Extract(p) \/ ProjectPost(p)
PagesNext == PagesStep \/ PagesWrite
PagesSpec == PagesInit /\ [][PagesNext]_pageVars

-----------------------------------------------------------------------------
\* Every variable holds what its columns and its request may hold.
PagesTypeOK ==
    /\ clock \in 0 .. LastInstant /\ edits \in 0 .. MaxEdits
    /\ born \in [Posts -> 0 .. LastInstant + 1] /\ readable \subseteq Posts
    /\ mentioned \subseteq Mentions /\ support \subseteq Facts \X Posts
    /\ since \in [Facts -> 0 .. LastInstant]
    /\ terms \in [focus : Focuses, sealed : BOOLEAN, allowed : Filters, nodes : NodeLimits]
    /\ request.pc \in Stages /\ request.cursor \in Cursors /\ request.round \in 0 .. MaxDepth
    /\ request.posts \subseteq Posts /\ FactsOf(request.rows) = DOMAIN request.keys
    /\ page.edges \subseteq Shown /\ EndsOf(page.edges) \subseteq page.nodes
    /\ Cardinality(page.edges) <= MaxEdges /\ Cardinality(page.nodes) <= terms.nodes
    /\ page.cursor \in Cursors /\ (page.cursor # NoCursor => page.truncated)

Answered == request.pc = "answer" /\ request'.pc = "idle" /\ page'.failed = "no"

\* Whatever node or evidence a page shows, at some moment of its request a post the reader
\* could read showed it, parents of firms included, although a dozen statements decide it.
ShownWasVisible == [][Answered => page'.nodes \cup page'.evidence \subseteq chain.visible]_pageVars

\* What a complete reading of the graph of the request would return.
Complete ==
    {f \in FactsOf(RowsOf(request.posts, request.snapshot)) :
        f.kind \in terms.allowed /\ Ends(f) \subseteq SeenOf(Nodes) \cup {terms.focus}}

\* Either nothing of the neighborhood is filtered or hidden and no page is over its nodes, or a
\* window holds all of it and no hierarchy is asked for. Otherwise a chain may leave facts out:
\* the windows of a first page, each of wider posts, leave gaps between the rows of the last one
\* and those of earlier ones; and a page whose rows are all filtered goes on in the hierarchy.
Exhaustible ==
    LET rows == RowsOf(request.posts, request.snapshot)
    IN  \/ FactsOf(rows) = Complete /\ Cardinality(Nodes) <= terms.nodes
        \/ Cardinality(rows) <= HardEdges /\ "broader" \notin terms.allowed

\* If nothing the snapshot can see is written between the first page and the last, no fact
\* is on two pages, and when a page ends the chain without being truncated, every fact of
\* an exhaustible neighborhood was on one of them. (A firm's hierarchy may come again with each
\* page that names the firm.)
PagesPartition == [][Answered /\ chain.undisturbed /\ Exhaustible =>
    /\ page'.edges \cap chain.delivered \cap Facts = {}
    /\ page'.cursor = NoCursor /\ ~page'.truncated =>
           Complete \subseteq chain.delivered \cup page'.edges]_pageVars

\* The hierarchy of the firms of the neighborhood, as far as the reader may see it.
Hierarchy ==
    {f \in BroaderOf(RowsOf(request.posts, request.snapshot)) :
        f.kind \in terms.allowed /\ Ends(f) \subseteq SeenOf(Nodes)}

\* "An exhausted in-memory page never masquerades as the complete graph" (the assembler's
\* contract, ontology_neighborhood.py): the last page of an undisturbed chain completes the
\* neighborhood, its facts and the hierarchy of its firms.
NeighborhoodIsDelivered == [][
    Answered /\ chain.undisturbed /\ page'.cursor = NoCursor /\ ~page'.truncated =>
        Complete \cup Hierarchy \subseteq chain.delivered \cup page'.edges]_pageVars
=============================================================================
