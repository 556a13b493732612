------------------------------ MODULE PostChat ------------------------------
(***************************************************************************)
(* Questions about one post: read_post_chat and chat_about_post of         *)
(* backend/app/main.py with the replay and persistence of                  *)
(* backend/app/post_chat_ingestion.py and migration 0249.                  *)
(*                                                                         *)
(* An answer is generated outside any transaction from the post and the    *)
(* linked posts its asker may read, and stored with the scope and all the  *)
(* posts it was made of.  A later reader is shown the stored answer only   *)
(* when that scope and every one of those posts are within its own.        *)
(* Between any two database statements of a request posts are imported,    *)
(* rewritten and deleted, and other requests commit.                       *)
(*                                                                         *)
(* Answer texts, citation order and the activity event of an answer are    *)
(* left out; Questions are normalized ones.                                *)
(***************************************************************************)
EXTENDS SourceScope

CONSTANTS
    Readers,        \* requests in flight
    Focal,          \* the posts asked about
    Questions,      \* normalized questions
    RowChoices,     \* rows an import writes
    ScopeChoices,   \* scopes an account may have
    Direct,         \* pairs of posts next to each other in a lineage tree
    Indirect,       \* pairs of posts related through the knowledge graph
    Order,          \* the rank of each post id
    CandidateLimit, \* _POST_CHAT_CANDIDATE_LIMIT
    SourceLimit     \* _POST_CHAT_SOURCE_LIMIT

ASSUME ChatChoices == RowChoices \subseteq Rows /\ ScopeChoices \subseteq Scopes
ASSUME ChatDomain == Focal # {} /\ Focal \subseteq Posts /\ Questions # {} /\ Order \in [Posts -> Nat]
ASSUME ChatLimits == CandidateLimit \in Nat /\ SourceLimit \in Nat \ {0}

VARIABLES
    live,       \* posts that exist
    row,        \* the row of each post
    stored,     \* the stored answer of each post and question
    request,    \* progress of each request
    shown       \* the answer each request has for its reader

chatVars == <<live, row, stored, request, shown>>

-----------------------------------------------------------------------------

Exchanges == [post : Focal, question : Questions]

NoScope == [entities |-> {}, units |-> {}]

\* receipt: FALSE for an answer stored before migration 0249, with no scope and no
\* sources.  influence: the posts whose text reached the model; no column holds it.
Answers == [exists : BOOLEAN, sources : SUBSET Posts, cited : SUBSET Posts,
            scope : Scopes, receipt : BOOLEAN, influence : SUBSET Posts]
NoAnswer == [exists |-> FALSE, sources |-> {}, cited |-> {}, scope |-> NoScope,
             receipt |-> FALSE, influence |-> {}]
LegacyAnswer == [NoAnswer EXCEPT !.exists = TRUE, !.influence = Posts]

\* asked ... replied: chat_about_post.
\* browsing: read_post_chat, with the questions it has left to list.
Phases == {"idle", "asked", "missed", "focal", "gathered", "writing", "replied", "browsing"}
Requests == [pc : Phases, at : Exchanges, scope : Scopes, sources : SUBSET Posts,
             cited : SUBSET Posts, left : SUBSET Questions]
NoRequest == [pc |-> "idle", at |-> CHOOSE x \in Exchanges : TRUE, scope |-> NoScope,
              sources |-> {}, cited |-> {}, left |-> {}]

ChatInit ==
    /\ live \in SUBSET Posts
    /\ row \in [Posts -> RowChoices]
    /\ stored \in [Exchanges -> {NoAnswer, LegacyAnswer}]
    /\ \A x \in Exchanges : stored[x].exists => x.post \in live
    /\ request = [r \in Readers |-> NoRequest]
    /\ shown = [r \in Readers |-> NoAnswer]

-----------------------------------------------------------------------------
\* One request.

CanRead(r, post) == Readable(request[r].scope, live, row, post)

Goto(r, pc) == request' = [request EXCEPT ![r].pc = pc]
End(r) ==
    /\ request' = [request EXCEPT ![r] = NoRequest]
    /\ shown' = [shown EXCEPT ![r] = NoAnswer]

\* The account's scope is loaded once per request.
Open(r, pc, left) == \E post \in Focal, question \in Questions, scope \in ScopeChoices :
    /\ request[r].pc = "idle"
    /\ Readable(scope, live, row, post)    \* 404 or 403 otherwise
    /\ request' = [request EXCEPT ![r] =
           [NoRequest EXCEPT !.pc = pc, !.at = [post |-> post, question |-> question],
                             !.scope = scope, !.left = left]]
    /\ UNCHANGED <<live, row, stored, shown>>

Ask(r) == Open(r, "asked", {})
Browse(r) == Open(r, "browsing", Questions)

\* Bug: a replay that reauthorizes what the answer cites.
ReplayableByCitations(r, x) ==
    /\ stored[x].exists
    /\ stored[x].receipt
    /\ Subsumed(stored[x].scope, request[r].scope)
    /\ \A source \in stored[x].cited : CanRead(r, source)

\* The one transaction of a replay: the parent row and the sources stay locked.
Replayable(r, x) ==
    /\ stored[x].exists
    /\ stored[x].receipt
    /\ x.post \in stored[x].sources
    /\ Subsumed(stored[x].scope, request[r].scope)
    /\ \A source \in stored[x].sources : CanRead(r, source)
    /\ stored[x].cited \subseteq stored[x].sources

Replay(r) ==
    /\ request[r].pc = "asked"
    /\ Replayable(r, request[r].at)
    /\ shown' = [shown EXCEPT ![r] = stored[request[r].at]]
    /\ Goto(r, "replied")
    /\ UNCHANGED <<live, row, stored>>

Miss(r) ==
    /\ request[r].pc = "asked"
    /\ ~Replayable(r, request[r].at)
    /\ Goto(r, "missed")
    /\ UNCHANGED <<live, row, stored, shown>>

\* Each exchange of the history is replayed in a transaction of its own.
ReplayNext(r) == \E question \in request[r].left :
    LET x == [post |-> request[r].at.post, question |-> question]
    IN  /\ request[r].pc = "browsing"
        /\ shown' = [shown EXCEPT ![r] = IF Replayable(r, x) THEN stored[x] ELSE NoAnswer]
        /\ request' = [request EXCEPT ![r].left = @ \ {question}]
        /\ UNCHANGED <<live, row, stored>>

Leave(r) ==
    /\ request[r].pc \in {"replied", "browsing"} /\ request[r].left = {}
    /\ End(r)
    /\ UNCHANGED <<live, row, stored>>

\* The provider is not configured, fails, or answers in another format: 503.
Unavailable(r) ==
    /\ request[r].pc \in {"missed", "gathered"}
    /\ End(r)
    /\ UNCHANGED <<live, row, stored>>

-----------------------------------------------------------------------------
\* The sources of an answer: the post itself, then linked posts.

Neighbours(links, post) == {other \in Posts \ {post} :
                               <<post, other>> \in links \/ <<other, post>> \in links}
Linked(post) == Neighbours(Direct, post) \cup Neighbours(Indirect, post)

\* Direct neighbours first, then by id.
Before(post, a, b) ==
    LET direct == Neighbours(Direct, post)
    IN  \/ a \in direct /\ b \notin direct
        \/ (a \in direct <=> b \in direct) /\ Order[a] < Order[b]
First(limit, others, post) ==
    {x \in others : Cardinality({y \in others : Before(post, y, x)}) < limit}

ReadableLinks(r, post) ==
    LET candidates == First(CandidateLimit, Linked(post), post)
    IN  First(SourceLimit - 1, {x \in candidates : CanRead(r, x)}, post)

\* gather_chat_sources runs no transaction: its statements see different states.
ReadFocal(r) ==
    LET post == request[r].at.post
    IN  /\ request[r].pc = "missed"
        /\ IF CanRead(r, post)
           THEN /\ request' = [request EXCEPT ![r].pc = "focal", ![r].sources = {post}]
                /\ UNCHANGED shown
           ELSE End(r)                                       \* 409
        /\ UNCHANGED <<live, row, stored>>

ReadLinked(r) ==
    /\ request[r].pc = "focal"
    /\ request' = [request EXCEPT ![r].pc = "gathered",
                       ![r].sources = @ \cup ReadableLinks(r, request[r].at.post)]
    /\ UNCHANGED <<live, row, stored, shown>>

-----------------------------------------------------------------------------
\* The last transaction of chat_about_post.

\* Once the model has answered, from the sources alone (other source numbers are dropped),
\* the transaction locks them for share and deletes the answer of the key.
Revalidate(r) == \E cited \in SUBSET request[r].sources :
    /\ request[r].pc = "gathered"
    /\ IF \A source \in request[r].sources : CanRead(r, source)
       THEN /\ request' = [request EXCEPT ![r].pc = "writing", ![r].cited = cited]
            /\ UNCHANGED shown
       ELSE End(r)                                           \* 409
    /\ UNCHANGED <<live, row, stored>>

\* Bug: an answer stored without its receipt.
MadeWithoutReceipt(r) ==
    [exists |-> TRUE, sources |-> request[r].sources, cited |-> request[r].cited,
     scope |-> request[r].scope, influence |-> request[r].sources]

Made(r) == [exists |-> TRUE, sources |-> request[r].sources, cited |-> request[r].cited,
            scope |-> request[r].scope, receipt |-> TRUE, influence |-> request[r].sources]

\* A second transaction on the same key waits for this one and then finds the key taken:
\* its delete does not see the new row.
Commit(r) ==
    LET x == request[r].at
    IN  /\ request[r].pc = "writing"
        /\ stored' = [stored EXCEPT ![x] = Made(r)]
        /\ request' = [other \in Readers |->
               IF other = r THEN [request[r] EXCEPT !.pc = "replied"]
               ELSE IF request[other].pc = "writing" /\ request[other].at = x THEN NoRequest
               ELSE request[other]]
        /\ shown' = [shown EXCEPT ![r] = Made(r)]
        /\ UNCHANGED <<live, row>>

-----------------------------------------------------------------------------
\* Everyone else.

Locked(post) == \E r \in Readers : request[r].pc = "writing" /\ post \in request[r].sources

\* An import inserts or rewrites a post.
Import == \E post \in Posts, new \in RowChoices :
    /\ ~Locked(post)
    /\ live' = live \cup {post}
    /\ row' = [row EXCEPT ![post] = new]
    /\ UNCHANGED <<stored, request, shown>>

\* Bug: a deletion that cascades without the trigger.
DeleteByCascade == \E post \in live :
    /\ ~Locked(post)
    /\ live' = live \ {post}
    /\ stored' = [x \in Exchanges |->
           IF x.post = post THEN NoAnswer
           ELSE [stored[x] EXCEPT !.cited = @ \ {post}, !.sources = @ \ {post}]]
    /\ UNCHANGED <<row, request, shown>>

\* The trigger deletes every answer made of the post; cascades take the answers about it
\* and the citations of it.
Delete == \E post \in live :
    /\ ~Locked(post)
    /\ live' = live \ {post}
    /\ stored' = [x \in Exchanges |->
           IF x.post = post \/ post \in stored[x].sources THEN NoAnswer
           ELSE [stored[x] EXCEPT !.cited = @ \ {post}]]
    /\ UNCHANGED <<row, request, shown>>

ChatStep(r) ==
    \/ Ask(r) \/ Browse(r) \/ Replay(r) \/ Miss(r) \/ ReplayNext(r) \/ Leave(r)
    \/ Unavailable(r) \/ ReadFocal(r) \/ ReadLinked(r)
    \/ Revalidate(r) \/ Commit(r)

ChatNext == (\E r \in Readers : ChatStep(r)) \/ Import \/ Delete

ChatSpec == ChatInit /\ [][ChatNext]_chatVars

-----------------------------------------------------------------------------

\* Every variable holds what its columns and its request may hold.
ChatTypeOK ==
    /\ live \subseteq Posts
    /\ row \in [Posts -> RowChoices]
    /\ stored \in [Exchanges -> Answers]
    /\ request \in [Readers -> Requests]
    /\ shown \in [Readers -> Answers]

\* An answer given to a reader, new or replayed, was made of posts its request may read at
\* that moment, cited or not: whatever was rewritten, withdrawn or moved while it was made. Nor
\* was it made with a wider scope than the reader's: there is no row at all that the one
\* scope sees and the other does not (is_subsumed_by).
\* (The clause of Eligible about other posts is not locked and not part of this.)
ShownIsAuthorized ==
    [][\A r \in Readers : shown'[r] # shown[r] /\ shown'[r].exists =>
          /\ \A post \in shown'[r].influence :
                post \in live /\ ~row[post].withdrawn /\ Sees(request[r].scope, row[post])
          /\ \A any \in Rows :
                Sees(shown'[r].scope, any) => Sees(request[r].scope, any)]_chatVars

\* Deleting a post leaves no answer it contributed to: a stored answer with a receipt names
\* its post among its sources, and they all exist.
EvidenceStands ==
    \A x \in Exchanges : stored[x].exists /\ stored[x].receipt =>
        x.post \in stored[x].sources /\ stored[x].cited \subseteq stored[x].sources
        /\ stored[x].sources \subseteq live /\ stored[x].influence \subseteq stored[x].sources
=============================================================================
