------------------------------ MODULE AskAnswer ------------------------------
(***************************************************************************)
(* The answer to one question over all posts: retrieval, facts, the        *)
(* model's answer, verification in public, and the pictures of what it     *)
(* cites.  backend/app/post_chat_ingestion.py (gather_global_chat_sources) *)
(* and global_ask_queue.py (compute_global_ask_answer), with               *)
(* lineageweave/post_chat.py and claim_verification.py.                    *)
(*                                                                         *)
(* The statements of one computation share no snapshot, and minutes of     *)
(* calls to providers lie between the first and the last of them.  Texts   *)
(* are versions; whether a text matches the question is left open.         *)
(***************************************************************************)
EXTENDS Integers, Sequences, FiniteSets

CONSTANTS
    Asked, NoPost,  \* posts
    Unkept,         \* no revision covers the cutoff
    Similarity,     \* of each embedded post to the question, no two alike
    EventClock,     \* of each post, no two alike
    IdRank,         \* order of identifiers
    InWindow,       \* posts in the time that the question names
    Early,          \* posts created by the cutoff
    Facts,          \* all that extractions may state
    FactRank,       \* order of facts in a statement and of claims by relevance
    AskLimit,       \* limit of gather_global_chat_sources
    FactRows,       \* limit of the statement for graph facts
    FactPairs,      \* limit of _graph_facts_for_posts for facts under all sources together
    FactBudget,     \* remaining_graph_facts
    ClaimLimit,     \* maximum_claims
    MaxChanges      \* bound of what others do meanwhile

\* An edge at a post is the mention of another node in it, evidenced by it alone; what is no
\* edge relates no posts.
ASSUME AskFacts == \A f \in Facts :
    /\ f.ends # {} => f.on = f.ends
    /\ f.kind \notin {"relation", "person_relation"} => f.ends = {}
\* Every order breaks its ties by the identifiers of posts.
ASSUME AskOrders ==
    /\ IsFiniteSet(Asked) /\ DOMAIN Similarity \subseteq Asked
    /\ \A p \in DOMAIN Similarity : Similarity[p] \in Nat
    /\ \A p \in Asked : EventClock[p] \in Nat /\ IdRank[p] \in Nat
    /\ \A p, q \in DOMAIN Similarity : Similarity[p] = Similarity[q] => p = q
    /\ \A p, q \in Asked : EventClock[p] = EventClock[q] \/ IdRank[p] = IdRank[q] => p = q
ASSUME AskBounds == AskLimit \in Nat \ {0} /\ FactBudget \in Nat /\ FactPairs \in Nat /\ MaxChanges \in Nat

VARIABLES
    posting,    \* visibility and text of each post
    kept,       \* version of the revision that covers the cutoff, or Unkept
    stated,     \* facts persisted
    timeline,   \* post_lineage_edge, as pairs
    ask,        \* progress of the computation
    changes     \* what others did so far

answerVars == <<posting, kept, stated, timeline, ask, changes>>

\* A fact: its kind, the posts that evidence it (on), the posts it relates (ends), whether both
\* nodes it relates have labels, and whether it was created by the cutoff.
Semantic == {"project", "actor", "keyman"}
EdgeKinds == {"relation", "person_relation"}
Empty == [pc |-> "idle", cutoff |-> FALSE, verify |-> FALSE, ids |-> <<>>, anchor |-> NoPost,
          near |-> {}, rows |-> <<>>, public |-> {}, bodies |-> <<>>, facts |-> {}, cited |-> {},
          sent |-> {}, drawn |-> {}, pictures |-> {}]
Sights == {"public", "scoped", "hidden"}

\* can_see and the eligibility of a row.
Seen(p) == posting[p].sight # "hidden"

AnswerInit ==
    /\ posting \in [Asked -> [sight : Sights, text : {1}]]
    /\ kept \in [Asked -> {1, Unkept}]
    /\ stated \in SUBSET Facts
    /\ timeline \in SUBSET (Asked \X Asked)
    /\ ask = Empty /\ changes = 0

Sorted(among, value) ==
    CHOOSE s \in [1 .. Cardinality(among) -> among] :
        \A i, j \in 1 .. Cardinality(among) : i < j => value[s[i]] > value[s[j]]
\* The members of a list that are in a set, in their order.
Those(list, some) ==
    LET places == {i \in DOMAIN list : list[i] \in some}
        order  == Sorted(places, [i \in DOMAIN list |-> Len(list) - i])
    IN  [n \in DOMAIN order |-> list[order[n]]]
Cut(list, limit) == SubSeq(list, 1, IF Len(list) < limit THEN Len(list) ELSE limit)
Members(list) == {list[i] : i \in DOMAIN list}
Goes(changed) == ask' = changed /\ UNCHANGED <<posting, kept, stated, timeline, changes>>

\* A question of the present has a vector if its provider answers with a usable one.
Begin == \E cutoff, verify, vector \in BOOLEAN :
    /\ ask.pc = "idle"
    /\ cutoff => ~vector
    /\ Goes([Empty EXCEPT !.pc = IF vector THEN "search_both" ELSE "search",
                          !.cutoff = cutoff, !.verify = verify])

-----------------------------------------------------------------------------
\* Retrieval.

\* The window, the scope and the eligibility of every statement.
Answerable(p) == Seen(p) /\ p \in InWindow /\ (ask.cutoff => p \in Early)

\* Posts with a unit whose vector is of the question's model, most similar first.
EmbeddingCandidates == Cut(Sorted({p \in DOMAIN Similarity : Answerable(p)}, Similarity), AskLimit)

\* Posts that evidence a fact; of the past, projects and edges created by the cutoff and
\* retained texts count.
Evidenced(p) ==
    \/ \E f \in stated : /\ p \in f.on
                         /\ ask.cutoff => f.early /\ f.kind \in {"project"} \cup EdgeKinds
    \/ ask.cutoff /\ kept[p] # Unkept

\* Which of them the question matches is left open; the latest come first.
EvidenceCandidates(matching) ==
    Cut(Sorted({p \in matching : Answerable(p) /\ Evidenced(p)}, EventClock), AskLimit)

Position(list, p) == CHOOSE i \in 1 .. Len(list) + 1 : IF p \in Members(list) THEN list[i] = p
                                                       ELSE i = Len(list) + 1

\* _fuse_global_candidate_ids: reciprocal ranks keep what both channels agree on; without the
\* ranking library the embedding channel alone counts.
Fusions(left, right) ==
    IF left = <<>> THEN {right} ELSE IF right = <<>> THEN {left}
    ELSE LET all == Members(left) \cup Members(right) IN
         {left} \cup
         {s \in [1 .. Cardinality(all) -> all] :
             \A i, j \in DOMAIN s : i < j =>
                 /\ s[i] # s[j]
                 /\ ~(/\ Position(left, s[j]) <= Position(left, s[i])
                      /\ Position(right, s[j]) <= Position(right, s[i]))}

Search == \E matching \in SUBSET Asked :
    /\ ask.pc \in {"search", "search_both"}
    /\ \E fused \in Fusions(IF ask.pc = "search_both" THEN EmbeddingCandidates ELSE <<>>,
                            EvidenceCandidates(matching)) :
           Goes([ask EXCEPT !.pc = "expand", !.ids = Cut(fused, AskLimit),
                            !.anchor = IF fused = <<>> THEN NoPost ELSE fused[1]])

NeighboursOf(p) == {q \in Asked : <<p, q>> \in timeline \/ <<q, p>> \in timeline}

\* The neighbours of the best match follow it, before it is known who may see them.
Expand == LET near == NeighboursOf(ask.anchor) \ Members(ask.ids) IN
    /\ ask.pc = "expand"
    /\ IF ask.cutoff \/ ask.anchor = NoPost THEN Goes([ask EXCEPT !.pc = "rows"])
       ELSE Goes([ask EXCEPT !.pc = "rows", !.near = near,
                             !.ids = Cut(<<ask.anchor>> \o Sorted(near, IdRank) \o Tail(ask.ids),
                                         AskLimit)])

\* The rows of the candidates in their order; the class of a source is chosen by its row.
ReadRows == LET rows == Those(ask.ids, {p \in Asked : Answerable(p)}) IN
    /\ ask.pc = "rows"
    /\ Goes([ask EXCEPT !.pc = IF ask.cutoff THEN "revisions" ELSE "semantic", !.rows = rows,
                        !.public = {p \in Members(rows) : posting[p].sight = "public"},
                        !.bodies = [p \in Members(rows) |-> posting[p].text]])

\* fetch_known_at_revisions: a post without one keeps a title that says so, and no body.
ReadRevisions ==
    /\ ask.pc = "revisions"
    /\ Goes([ask EXCEPT !.pc = "semantic",
                        !.bodies = [p \in Members(ask.rows) |-> kept[p]]])

\* _semantic_facts_for_posts: pairs of a post and a fact that it evidences.
ReadSemantic ==
    /\ ask.pc = "semantic"
    /\ Goes([ask EXCEPT !.pc = "graph",
           !.facts = {e \in Members(ask.rows) \X stated :
                         /\ e[1] \in e[2].on /\ e[2].kind \in Semantic
                         /\ ask.cutoff => e[2].kind = "project" /\ e[2].early}])

\* The first rows of the statement, before their ends are known.
Foremost(facts, limit) ==
    {f \in facts : Cardinality({g \in facts : FactRank[g] > FactRank[f]}) < limit}
GraphRows ==
    Foremost({f \in stated : f.kind \in EdgeKinds /\ f.on \cap Members(ask.rows) # {}}, FactRows)

\* Facts under the sources that evidence them; all that they relate is labelled and, if it is a
\* post, a source.
Evidences ==
    {e \in Members(ask.rows) \X GraphRows :
        e[1] \in e[2].on /\ e[2].ends \subseteq Members(ask.rows) /\ e[2].labelled}
\* Fact by fact, and source by source under each.
Precedes(e, g) ==
    \/ FactRank[e[2]] > FactRank[g[2]]
    \/ e[2] = g[2] /\ IdRank[e[1]] > IdRank[g[1]]

\* Bug: which source evidences a fact is not kept.
GraphFactsOfAnyPost(p) == {f \in GraphRows : f.ends \subseteq Members(ask.rows)}

\* _graph_facts_for_posts: the first of them, by source.
GraphFacts(p) ==
    {f \in GraphRows :
        /\ <<p, f>> \in Evidences
        /\ Cardinality({e \in Evidences : Precedes(e, <<p, f>>)}) < FactPairs}

\* remaining_graph_facts: the first sources use the budget up.
Spent[i \in 0 .. AskLimit] ==
    IF i = 0 THEN 0
    ELSE LET all == Spent[i - 1] + IF i > Len(ask.rows) THEN 0
                                   ELSE Cardinality(GraphFacts(ask.rows[i]))
         IN  IF all < FactBudget THEN all ELSE FactBudget
Budgeted(i) == Foremost(GraphFacts(ask.rows[i]), FactBudget - Spent[i - 1])

ReadGraph ==
    /\ ask.pc = "graph"
    /\ Goes([ask EXCEPT !.pc = "answer",
           !.facts = @ \cup IF ask.cutoff THEN {}
                            ELSE UNION {{ask.rows[i]} \X Budgeted(i) : i \in DOMAIN ask.rows}])

\* The note that a source is a neighbour of the best match.
NotedAsNeighbour ==
    IF ask.anchor \in Members(ask.rows) THEN ask.near \cap Members(ask.rows) ELSE {}

-----------------------------------------------------------------------------
\* The answer.

\* Sources with a body: the others are limitations of an answer about the past.
Usable == {p \in Members(ask.rows) : ask.bodies[p] # Unkept}

\* _render_sources_block numbers these from one.
Numbered == Those(ask.rows, Usable)

\* _parse_plain_chat_response: numbers of no source are dropped.
CitedBy(numbers) == {Numbered[n] : n \in numbers \cap DOMAIN Numbered}

\* A provider that fails or replies in another form fails the computation.
Answer ==
    /\ ask.pc = "answer"
    /\ IF Usable = {} THEN Goes([ask EXCEPT !.pc = "done"])
       ELSE \/ \E numbers \in SUBSET (0 .. AskLimit + 1) :
                   Goes([ask EXCEPT !.pc = "verify", !.cited = CitedBy(numbers)])
            \/ Goes([ask EXCEPT !.pc = "failed"])

\* public_claim_candidates: facts of public sources that name no person; one claim for one
\* assertion, with all public sources that state it.
StatedBy(f) == {p \in Usable \cap ask.public : <<p, f>> \in ask.facts}
Claims ==
    Foremost({f \in Facts : f.kind \in {"project", "relation"} /\ StatedBy(f) # {}}, ClaimLimit)

\* Bug: a claim is sent if one of its posts is cited.
SomeOfThemCited == {f \in Claims : StatedBy(f) \cap ask.cited # {}}

\* _verify_public_claims: only claims of which every post is cited.
Verifiable == {f \in Claims : StatedBy(f) \subseteq ask.cited}

\* The claims leave together; what a failure of one of them changes is the status.
Verify ==
    /\ ask.pc = "verify"
    /\ \E sent \in {{}, IF ask.verify THEN Verifiable ELSE {}} :   \* or no provider is configured
           Goes([ask EXCEPT !.pc = IF ask.cutoff THEN "done" ELSE "draw", !.sent = sent])

\* _connected_visible_component: who may be seen is checked again, and what may not does not
\* connect either.
VisibleThread(p) ==
    LET reach[n \in 0 .. Cardinality(Asked)] ==
            IF n = 0 THEN {q \in {p} : Seen(q)}
            ELSE reach[n - 1] \cup {q \in Asked : Seen(q) /\ NeighboursOf(q) \cap reach[n - 1] # {}}
    IN  reach[Cardinality(Asked)]

\* lineage_graphs_for_posts; its limit of nodes is not reached.
Draw ==
    /\ ask.pc = "draw"
    /\ Goes([ask EXCEPT !.pc = "pictures", !.drawn = UNION {VisibleThread(p) : p \in ask.cited}])

\* cited_post_images does not.
Picture ==
    /\ ask.pc = "pictures"
    /\ Goes([ask EXCEPT !.pc = "done", !.pictures = {<<p, posting[p].text>> : p \in ask.cited}])

ComputeStep ==
    \/ Begin \/ Search \/ Expand \/ ReadRows \/ ReadRevisions \/ ReadSemantic \/ ReadGraph
    \/ Answer \/ Verify \/ Draw \/ Picture

-----------------------------------------------------------------------------
\* What others do meanwhile.

Meanwhile == ask.pc \notin {"done", "failed"} /\ changes < MaxChanges /\ changes' = changes + 1

\* A post is restricted, published, withdrawn or imported again.
ChangeSight == \E p \in Asked, sight \in Sights :
    /\ Meanwhile /\ sight # posting[p].sight
    /\ posting' = [posting EXCEPT ![p].sight = sight]
    /\ UNCHANGED <<kept, stated, timeline, ask>>

\* A newer text; its own date, not that of its import, decides whether the cutoff knows it.
Rewrite == \E p \in Asked, backdated \in BOOLEAN :
    /\ Meanwhile /\ posting[p].text = 1
    /\ posting' = [posting EXCEPT ![p].text = 2]
    /\ kept' = IF backdated THEN [kept EXCEPT ![p] = 2] ELSE kept
    /\ UNCHANGED <<stated, timeline, ask>>

\* An extraction states a fact, or replaces what was stated.
Restate == \E f \in Facts :
    /\ Meanwhile
    /\ stated' = IF f \in stated THEN stated \ {f} ELSE stated \cup {f}
    /\ UNCHANGED <<posting, kept, timeline, ask>>

\* The timelines are reconstructed.
Relink ==
    /\ Meanwhile
    /\ \E p, q \in Asked : p # q /\ timeline' = {<<p, q>>} /\ timeline' # timeline
    /\ UNCHANGED <<posting, kept, stated, ask>>

AnswerNext == ComputeStep \/ ChangeSight \/ Rewrite \/ Restate \/ Relink
AnswerSpec == AnswerInit /\ [][AnswerNext]_answerVars

-----------------------------------------------------------------------------

AnswerTypeOK ==
    /\ ask.cited \subseteq Asked /\ ask.near \subseteq Asked
    /\ \A i, j \in DOMAIN ask.rows : ask.rows[i] = ask.rows[j] => i = j
    /\ Len(ask.rows) <= AskLimit
    /\ stated \subseteq Facts /\ changes \in 0 .. MaxChanges

\* "A fact evidenced by one source must not be rendered beneath a different source": what
\* stands under a source is evidenced by it and relates nothing but sources; the best match is
\* a source unless something changed; a neighbour is named only beside what it is a neighbour
\* of; an answer about the past rests on facts of that time alone and quotes no later text,
\* unless that text is dated before the cutoff.
AnswerIsGrounded ==
    LET sources == Members(ask.rows) IN
    /\ \A e \in ask.facts : e[1] \in sources \cap e[2].on /\ e[2].ends \subseteq sources
    /\ ask.pc = "answer" /\ changes = 0 /\ ask.ids # <<>> => ask.anchor \in sources
    /\ NotedAsNeighbour # {} => ask.anchor \in sources
    /\ ask.cited \subseteq Usable
    /\ ask.cutoff =>
           /\ NotedAsNeighbour = {} /\ ask.drawn = {} /\ ask.pictures = {}
           /\ \A e \in ask.facts : e[2].early /\ e[2].kind = "project"
           /\ \A p \in Usable : ask.pc # "revisions" /\ ask.bodies[p] = 2 => kept[p] = 2

\* A claim leaves the system only on request and names no person; a source that was public
\* when it was read and is cited states it, and every other public source with a body that
\* states it is cited too.
EgressIsPublic ==
    \A f \in ask.sent :
        /\ ask.verify
        /\ f.kind \notin {"actor", "keyman", "person_relation"}
        /\ \A p \in Usable \cap ask.public : <<p, f>> \in ask.facts => p \in ask.cited
        /\ \E p \in ask.cited \cap ask.public : <<p, f>> \in ask.facts
=============================================================================
