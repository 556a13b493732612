---------------------------- MODULE DerivedProofs ----------------------------
(* Theorems about what is derived from posts on request: PostChat, PostSummary, both      *)
(* halves of ClaimEvidence and AskAnswer, alone and, with IssueTickets and ContentUnits,  *)
(* composed (MCDerived), for every number of posts, requests, questions and parties,      *)
(* every scope and every row.                                                             *)
EXTENDS MCDerived, TicketProofs, UnitProofs, FiniteSetTheorems, WellFoundedInduction, TLAPS

-----------------------------------------------------------------------------
(* Post chat. *)

\* A post as an answer may rest on it, whatever else there is.
MayRest(scope, post) == post \in live /\ ~row[post].withdrawn /\ Sees(scope, row[post])

\* What a request holds: from its first source on that is the post asked about, and what
\* it has locked may be read.
HeldOK(q) ==
    /\ q.pc \in {"focal", "gathered", "writing"} => q.at.post \in q.sources
    /\ q.pc = "writing" => /\ q.cited \subseteq q.sources
                           /\ \A post \in q.sources : MayRest(q.scope, post)

ChatInv ==
    /\ ChatTypeOK
    /\ \A r \in Readers : HeldOK(request[r])
    /\ EvidenceStands

LEMMA NoRequestTyped == NoRequest \in Requests /\ NoRequest.pc = "idle"
<1>1. PICK p \in Focal, question \in Questions : [post |-> p, question |-> question] \in Exchanges
  BY ChatDomain DEF Exchanges
<1>2. (CHOOSE x \in Exchanges : TRUE) \in Exchanges
  BY <1>1
<1> QED
  BY <1>2 DEF NoRequest, Requests, Phases, NoScope, Scopes

LEMMA NoAnswerTyped == NoAnswer \in Answers /\ LegacyAnswer \in Answers /\ ~NoAnswer.exists /\ ~LegacyAnswer.receipt
BY DEF NoAnswer, LegacyAnswer, Answers, NoScope, Scopes

LEMMA ChatInvInit == ChatInit => ChatInv
<1> SUFFICES ASSUME ChatInit PROVE ChatInv
  OBVIOUS
<1>1. ChatTypeOK
  BY NoRequestTyped, NoAnswerTyped DEF ChatInit, ChatTypeOK
<1>2. \A r \in Readers : HeldOK(request[r])
  BY NoRequestTyped DEF ChatInit, HeldOK
<1>3. EvidenceStands
  BY NoAnswerTyped DEF ChatInit, EvidenceStands
<1> QED
  BY <1>1, <1>2, <1>3 DEF ChatInv

\* One request goes on and nothing is written.
LEMMA OneRequest ==
    ASSUME ChatInv, NEW r \in Readers, NEW q \in Requests, HeldOK(q), NEW answer \in Answers,
           request' = [request EXCEPT ![r] = q], shown' \in {shown, [shown EXCEPT ![r] = answer]},
           UNCHANGED <<live, row, stored>>
    PROVE  ChatInv'
<1>1. ChatTypeOK'
  BY DEF ChatInv, ChatTypeOK
<1>2. ASSUME NEW other \in Readers PROVE HeldOK(request[other])'
  <2>1. request'[other] = IF other = r THEN q ELSE request[other]
    BY DEF ChatInv, ChatTypeOK
  <2>2. HeldOK(request'[other])
    BY <2>1 DEF ChatInv
  <2> QED
    BY <2>2 DEF HeldOK, MayRest
<1>3. EvidenceStands'
  BY DEF ChatInv, EvidenceStands
<1> QED
  BY <1>1, <1>2, <1>3 DEF ChatInv

LEMMA EndKeeps ==
    ASSUME ChatInv, NEW r \in Readers, End(r), UNCHANGED <<live, row, stored>>
    PROVE  ChatInv'
<1>1. HeldOK(NoRequest)
  BY NoRequestTyped DEF HeldOK
<1> QED
  BY <1>1, NoRequestTyped, NoAnswerTyped, OneRequest DEF End

\* The steps of one request that write nothing.
LEMMA ReadingKeeps ==
    ASSUME ChatInv, NEW r \in Readers,
           Ask(r) \/ Browse(r) \/ Replay(r) \/ Miss(r) \/ ReplayNext(r) \/ Leave(r)
           \/ Unavailable(r) \/ ReadFocal(r) \/ ReadLinked(r) \/ Revalidate(r)
    PROVE  ChatInv'
<1> DEFINE held == request[r]
<1>1. /\ held \in Requests /\ HeldOK(held) /\ request \in [Readers -> Requests]
      /\ stored \in [Exchanges -> Answers] /\ shown \in [Readers -> Answers]
  BY DEF ChatInv, ChatTypeOK
<1>2. held.at \in Exchanges /\ held.sources \in SUBSET Posts /\ held.at.post \in Posts
  BY <1>1, ChatDomain DEF Requests, Exchanges
<1>3. ASSUME NEW pc \in {"asked", "browsing"}, NEW left \in SUBSET Questions, Open(r, pc, left)
      PROVE  ChatInv'
  <2>1. PICK post \in Focal, question \in Questions, scope \in ScopeChoices :
            /\ request' = [request EXCEPT ![r] =
                   [NoRequest EXCEPT !.pc = pc, !.at = [post |-> post, question |-> question],
                                     !.scope = scope, !.left = left]]
            /\ UNCHANGED <<live, row, stored, shown>>
    BY <1>3 DEF Open
  <2> DEFINE q == [NoRequest EXCEPT !.pc = pc, !.at = [post |-> post, question |-> question],
                                    !.scope = scope, !.left = left]
  <2>2. NoRequest \in Requests /\ scope \in Scopes /\ [post |-> post, question |-> question] \in Exchanges
    BY NoRequestTyped, ChatChoices DEF Exchanges
  <2>3. q \in Requests /\ HeldOK(q)
    BY <2>2 DEF Requests, Phases, HeldOK
  <2> QED
    <3> HIDE DEF q
    <3> QED
      BY <2>1, <2>3, NoAnswerTyped, OneRequest DEF q
<1>4. CASE Ask(r)
  BY <1>4, <1>3 DEF Ask
<1>5. CASE Browse(r)
  BY <1>5, <1>3 DEF Browse
<1>6. CASE Replay(r)
  <2>1. [held EXCEPT !.pc = "replied"] \in Requests /\ HeldOK([held EXCEPT !.pc = "replied"])
    BY <1>1 DEF Requests, Phases, HeldOK
  <2>2. request' = [request EXCEPT ![r] = [held EXCEPT !.pc = "replied"]]
    BY <1>6 DEF Replay, Goto
  <2>3. stored[held.at] \in Answers /\ shown' = [shown EXCEPT ![r] = stored[held.at]]
    BY <1>1, <1>2, <1>6 DEF Replay
  <2> QED
    <3> HIDE DEF held
    <3> QED
      BY <1>6, <2>1, <2>2, <2>3, OneRequest DEF Replay
<1>7. CASE Miss(r)
  <2>1. [held EXCEPT !.pc = "missed"] \in Requests /\ HeldOK([held EXCEPT !.pc = "missed"])
    BY <1>1 DEF Requests, Phases, HeldOK
  <2>2. request' = [request EXCEPT ![r] = [held EXCEPT !.pc = "missed"]]
    BY <1>7 DEF Miss, Goto
  <2> QED
    <3> HIDE DEF held
    <3> QED
      BY <1>7, <2>1, <2>2, NoAnswerTyped, OneRequest DEF Miss
<1>8. CASE ReplayNext(r)
  <2>1. PICK question \in held.left :
            /\ held.pc = "browsing"
            /\ request' = [request EXCEPT ![r] = [held EXCEPT !.left = @ \ {question}]]
            /\ LET x == [post |-> held.at.post, question |-> question]
               IN  shown' = [shown EXCEPT ![r] = IF Replayable(r, x) THEN stored[x] ELSE NoAnswer]
            /\ UNCHANGED <<live, row, stored>>
    BY <1>8 DEF ReplayNext
  <2> DEFINE x == [post |-> held.at.post, question |-> question]
  <2> DEFINE q == [held EXCEPT !.left = @ \ {question}]
  <2>2. q \in Requests /\ HeldOK(q)
    BY <1>1, <2>1 DEF Requests, HeldOK
  <2>3. x \in Exchanges
    BY <1>1, <1>2 DEF Requests, Exchanges
  <2>4. stored[x] \in Answers
    BY <1>1, <2>3
  <2> QED
    <3> HIDE DEF held, x
    <3>1. PICK answer \in Answers : shown' = [shown EXCEPT ![r] = answer]
      BY <2>1, <2>4, NoAnswerTyped DEF x
    <3> HIDE DEF q
    <3> QED
      BY <2>1, <2>2, <3>1, OneRequest DEF q
<1>9. CASE Leave(r) \/ Unavailable(r)
  BY <1>9, EndKeeps DEF Leave, Unavailable
<1>10. CASE ReadFocal(r)
  <2>1. CASE End(r)
    BY <1>10, <2>1, EndKeeps DEF ReadFocal
  <2>2. CASE ~End(r)
    <3> DEFINE q == [held EXCEPT !.pc = "focal", !.sources = {held.at.post}]
    <3>1. request' = [request EXCEPT ![r] = q] /\ UNCHANGED <<live, row, stored, shown>>
      BY <1>10, <2>2, <1>1 DEF ReadFocal
    <3>2. q \in Requests /\ HeldOK(q)
      BY <1>1, <1>2 DEF Requests, Phases, HeldOK
    <3> QED
      <4> HIDE DEF q
      <4> QED
        BY <3>1, <3>2, NoAnswerTyped, OneRequest
  <2> QED
    BY <2>1, <2>2
<1>11. CASE ReadLinked(r)
  <2> DEFINE links == ReadableLinks(r, held.at.post)
  <2> DEFINE q == [held EXCEPT !.pc = "gathered", !.sources = @ \cup links]
  <2>1. held.pc = "focal" /\ request' = [request EXCEPT ![r] = q] /\ UNCHANGED <<live, row, stored, shown>>
    BY <1>11, <1>1 DEF ReadLinked
  <2>2. links \subseteq Posts
    BY DEF ReadableLinks, First, Linked, Neighbours
  <2>3. q \in Requests /\ HeldOK(q)
    <3> HIDE DEF links
    <3> QED
      BY <1>1, <1>2, <2>1, <2>2 DEF Requests, Phases, HeldOK
  <2> QED
    <3> HIDE DEF q
    <3> QED
      BY <2>1, <2>3, NoAnswerTyped, OneRequest
<1>12. CASE Revalidate(r)
  <2>1. CASE End(r)
    BY <1>12, <2>1, EndKeeps DEF Revalidate
  <2>2. CASE ~End(r)
    <3>1. PICK cited \in SUBSET held.sources :
              /\ held.pc = "gathered" /\ \A source_ \in held.sources : CanRead(r, source_)
              /\ request' = [request EXCEPT ![r] = [held EXCEPT !.pc = "writing", !.cited = cited]]
              /\ UNCHANGED <<live, row, stored, shown>>
      BY <1>12, <2>2, <1>1 DEF Revalidate
    <3> DEFINE q == [held EXCEPT !.pc = "writing", !.cited = cited]
    <3>2. q \in Requests
      BY <1>1, <1>2 DEF Requests, Phases
    <3>3. HeldOK(q)
      <4>1. \A post \in held.sources : MayRest(held.scope, post)
        BY <3>1 DEF CanRead, Readable, Eligible, MayRest
      <4>2. q.sources = held.sources /\ q.scope = held.scope /\ q.cited = cited /\ q.at = held.at
        BY <1>1 DEF Requests
      <4>3. held.at.post \in held.sources
        BY <1>1, <3>1 DEF HeldOK
      <4> QED
        <5> HIDE DEF q
        <5> QED
          BY <4>1, <4>2, <4>3 DEF HeldOK
    <3> QED
      <4> HIDE DEF q
      <4> QED
        BY <3>1, <3>2, <3>3, NoAnswerTyped, OneRequest DEF q
  <2> QED
    BY <2>1, <2>2
<1> QED
  BY <1>4, <1>5, <1>6, <1>7, <1>8, <1>9, <1>10, <1>11, <1>12

LEMMA CommitKeeps ==
    ASSUME ChatInv, NEW r \in Readers, Commit(r)
    PROVE  ChatInv'
<1> DEFINE held == request[r]  x == held.at
<1>1. /\ held \in Requests /\ HeldOK(held) /\ held.pc = "writing"
      /\ stored \in [Exchanges -> Answers] /\ shown \in [Readers -> Answers]
      /\ request \in [Readers -> Requests]
  BY DEF ChatInv, ChatTypeOK, Commit
<1>2. Made(r) \in Answers
  BY <1>1 DEF Made, Requests, Answers
<1>3. x \in Exchanges
  BY <1>1 DEF Requests
<1>4. [held EXCEPT !.pc = "replied"] \in Requests /\ HeldOK([held EXCEPT !.pc = "replied"])
  BY <1>1 DEF Requests, Phases, HeldOK
<1>5. /\ stored' = [stored EXCEPT ![x] = Made(r)]
      /\ shown' = [shown EXCEPT ![r] = Made(r)]
      /\ \A other \in Readers : request'[other] \in {NoRequest, request[other], [held EXCEPT !.pc = "replied"]}
      /\ request' \in [Readers -> {request'[other] : other \in Readers}]
      /\ UNCHANGED <<live, row>>
  BY DEF Commit
<1>6. \A other \in Readers : request'[other] \in Requests /\ HeldOK(request'[other])
  <2>1. HeldOK(NoRequest) /\ NoRequest \in Requests
    BY NoRequestTyped DEF HeldOK
  <2>2. \A other \in Readers : request[other] \in Requests /\ HeldOK(request[other])
    BY <1>1 DEF ChatInv
  <2> QED
    <3> HIDE DEF held
    <3> QED
      BY <1>4, <1>5, <2>1, <2>2
<1>7. ChatTypeOK'
  <2>1. live' \subseteq Posts /\ row' \in [Posts -> RowChoices]
    BY <1>5 DEF ChatInv, ChatTypeOK
  <2>2. stored' \in [Exchanges -> Answers] /\ shown' \in [Readers -> Answers]
    <3> HIDE DEF x
    <3> QED
      BY <1>1, <1>2, <1>3, <1>5
  <2>3. request' \in [Readers -> Requests]
    BY <1>5, <1>6
  <2> QED
    BY <2>1, <2>2, <2>3 DEF ChatTypeOK
<1>8. \A other \in Readers : HeldOK(request[other])'
  BY <1>5, <1>6 DEF HeldOK, MayRest
<1>9. EvidenceStands'
  <2> SUFFICES ASSUME NEW y \in Exchanges, stored'[y].exists, stored'[y].receipt
               PROVE  /\ y.post \in stored'[y].sources /\ stored'[y].cited \subseteq stored'[y].sources
                      /\ stored'[y].sources \subseteq live' /\ stored'[y].influence \subseteq stored'[y].sources
    BY DEF EvidenceStands
  <2>1. CASE y = x
    <3>1. stored'[y] = Made(r)
      BY <1>1, <1>3, <1>5, <2>1
    <3>2. x.post \in held.sources /\ held.cited \subseteq held.sources /\ held.sources \subseteq live
      BY <1>1 DEF HeldOK, MayRest
    <3> QED
      BY <2>1, <3>1, <3>2, <1>5 DEF Made
  <2>2. CASE y # x
    <3>1. stored'[y] = stored[y]
      <4> HIDE DEF x
      <4> QED
        BY <1>1, <1>5, <2>2
    <3> QED
      BY <3>1, <1>5 DEF ChatInv, EvidenceStands
  <2> QED
    BY <2>1, <2>2
<1> QED
  BY <1>7, <1>8, <1>9 DEF ChatInv

\* What others do to a post that no request has locked.
LEMMA UnlockedKeeps ==
    ASSUME ChatInv, NEW post \in Posts, ~Locked(post), UNCHANGED request,
           \A p \in Posts \ {post} : (p \in live' <=> p \in live) /\ row'[p] = row[p]
    PROVE  \A r \in Readers : HeldOK(request[r])'
<1> SUFFICES ASSUME NEW r \in Readers PROVE HeldOK(request[r])'
  OBVIOUS
<1>1. request[r] \in Requests /\ HeldOK(request[r]) /\ request'[r] = request[r]
  BY DEF ChatInv, ChatTypeOK
<1>2. ASSUME request[r].pc = "writing", NEW p \in request[r].sources PROVE MayRest(request[r].scope, p)'
  <2>1. p \in Posts \ {post}
    BY <1>1, <1>2 DEF Locked, Requests
  <2>2. MayRest(request[r].scope, p)
    BY <1>1, <1>2 DEF HeldOK
  <2> QED
    BY <1>1, <2>1, <2>2 DEF MayRest
<1> QED
  BY <1>1, <1>2 DEF HeldOK, MayRest

LEMMA ImportKeeps == ASSUME ChatInv, Import PROVE ChatInv'
<1>1. PICK post \in Posts, new \in RowChoices :
          /\ ~Locked(post)
          /\ live' = live \cup {post}
          /\ row' = [row EXCEPT ![post] = new]
          /\ UNCHANGED <<stored, request, shown>>
  BY DEF Import
<1>2. ChatTypeOK'
  BY <1>1 DEF ChatInv, ChatTypeOK
<1>3. \A p \in Posts \ {post} : (p \in live' <=> p \in live) /\ row'[p] = row[p]
  BY <1>1 DEF ChatInv, ChatTypeOK
<1>4. \A r \in Readers : HeldOK(request[r])'
  BY <1>1, <1>3, UnlockedKeeps
<1>5. EvidenceStands'
  BY <1>1 DEF ChatInv, EvidenceStands
<1> QED
  BY <1>2, <1>4, <1>5 DEF ChatInv

LEMMA DeleteKeeps == ASSUME ChatInv, Delete PROVE ChatInv'
<1>1. PICK post \in live :
          /\ ~Locked(post)
          /\ live' = live \ {post}
          /\ stored' = [x \in Exchanges |->
                 IF x.post = post \/ post \in stored[x].sources THEN NoAnswer
                 ELSE [stored[x] EXCEPT !.cited = @ \ {post}]]
          /\ UNCHANGED <<row, request, shown>>
  BY DEF Delete
<1>2. live \subseteq Posts /\ post \in Posts /\ \A x \in Exchanges : stored[x] \in Answers
  BY DEF ChatInv, ChatTypeOK
<1>3. \A x \in Exchanges : [stored[x] EXCEPT !.cited = @ \ {post}] \in Answers
  BY <1>2 DEF Answers
<1>4. ChatTypeOK'
  BY <1>1, <1>2, <1>3, NoAnswerTyped DEF ChatInv, ChatTypeOK
<1>5. \A r \in Readers : HeldOK(request[r])'
  BY <1>1, <1>2, UnlockedKeeps DEF ChatInv, ChatTypeOK
<1>6. EvidenceStands'
  <2> SUFFICES ASSUME NEW x \in Exchanges, stored'[x].exists, stored'[x].receipt
               PROVE  /\ x.post \in stored'[x].sources /\ stored'[x].cited \subseteq stored'[x].sources
                      /\ stored'[x].sources \subseteq live' /\ stored'[x].influence \subseteq stored'[x].sources
    BY DEF EvidenceStands
  <2>1. /\ post \notin stored[x].sources
        /\ stored'[x] = [stored[x] EXCEPT !.cited = @ \ {post}]
    BY <1>1, NoAnswerTyped
  <2>2. /\ stored'[x].exists = stored[x].exists /\ stored'[x].receipt = stored[x].receipt
        /\ stored'[x].sources = stored[x].sources /\ stored'[x].influence = stored[x].influence
        /\ stored'[x].cited = stored[x].cited \ {post}
    BY <1>2, <2>1 DEF Answers
  <2> QED
    BY <1>1, <2>1, <2>2 DEF ChatInv, EvidenceStands
<1> QED
  BY <1>4, <1>5, <1>6 DEF ChatInv

LEMMA ChatInvStep == ChatInv /\ [ChatNext]_chatVars => ChatInv'
<1> SUFFICES ASSUME ChatInv, [ChatNext]_chatVars PROVE ChatInv'
  OBVIOUS
<1>1. CASE UNCHANGED chatVars
  BY <1>1 DEF chatVars, ChatInv, ChatTypeOK, HeldOK, MayRest, EvidenceStands
<1>2. ASSUME NEW r \in Readers, ChatStep(r) PROVE ChatInv'
  BY <1>2, ReadingKeeps, CommitKeeps DEF ChatStep
<1> QED
  BY <1>1, <1>2, ImportKeeps, DeleteKeeps DEF ChatNext

\* The scopes that is_subsumed_by admits see no row that the present one does not.
LEMMA SubsumedSeesNoMore ==
    ASSUME NEW captured, NEW current, Subsumed(captured, current), NEW any, Sees(captured, any)
    PROVE  Sees(current, any)
BY DEF Subsumed, Sees

\* What a replay shows a reader.
LEMMA ReplayIsAuthorized ==
    ASSUME ChatInv, NEW r \in Readers, NEW x \in Exchanges, Replayable(r, x)
    PROVE  /\ \A post \in stored[x].influence : MayRest(request[r].scope, post)
           /\ \A any \in Rows : Sees(stored[x].scope, any) => Sees(request[r].scope, any)
<1>1. stored[x].influence \subseteq stored[x].sources
  BY DEF ChatInv, EvidenceStands, Replayable
<1>2. \A post \in stored[x].sources : MayRest(request[r].scope, post)
  BY DEF Replayable, CanRead, Readable, Eligible, MayRest
<1>3. Subsumed(stored[x].scope, request[r].scope)
  BY DEF Replayable
<1> QED
  BY <1>1, <1>2, <1>3, SubsumedSeesNoMore

\* What one step gives a reader.
Authorized(r) ==
    shown'[r] # shown[r] /\ shown'[r].exists =>
        /\ \A post \in shown'[r].influence : MayRest(request[r].scope, post)
        /\ \A any \in Rows : Sees(shown'[r].scope, any) => Sees(request[r].scope, any)

LEMMA GivenIsAuthorized ==
    ASSUME ChatInv, ChatNext, NEW r \in Readers PROVE Authorized(r)
<1>1. /\ shown \in [Readers -> Answers] /\ request[r] \in Requests /\ request[r].at \in Exchanges
      /\ HeldOK(request[r])
  BY DEF ChatInv, ChatTypeOK, Requests
<1>2. CASE shown'[r] = shown[r] \/ shown'[r] = NoAnswer
  BY <1>2, NoAnswerTyped DEF Authorized
<1>3. CASE Replay(r)
  <2>1. shown'[r] = stored[request[r].at] /\ Replayable(r, request[r].at)
    BY <1>1, <1>3 DEF Replay
  <2> QED
    BY <1>1, <2>1, ReplayIsAuthorized DEF Authorized
<1>4. CASE ReplayNext(r)
  <2>1. PICK question \in request[r].left :
            LET x == [post |-> request[r].at.post, question |-> question]
            IN  shown' = [shown EXCEPT ![r] = IF Replayable(r, x) THEN stored[x] ELSE NoAnswer]
    BY <1>4 DEF ReplayNext
  <2> DEFINE x == [post |-> request[r].at.post, question |-> question]
  <2>2. x \in Exchanges
    BY <1>1 DEF Requests, Exchanges
  <2>3. shown'[r] = IF Replayable(r, x) THEN stored[x] ELSE NoAnswer
    BY <1>1, <2>1
  <2> QED
    <3> HIDE DEF x
    <3> QED
      BY <1>2, <2>2, <2>3, ReplayIsAuthorized DEF Authorized
<1>5. CASE Commit(r)
  <2>1. request[r].pc = "writing" /\ shown'[r] = Made(r)
    BY <1>1, <1>5 DEF Commit
  <2> QED
    BY <1>1, <2>1 DEF Authorized, HeldOK, Made
<1>6. ASSUME NEW other \in Readers, ChatStep(other), ~Replay(r), ~ReplayNext(r), ~Commit(r)
      PROVE  shown'[r] = shown[r] \/ shown'[r] = NoAnswer
  <2>1. CASE other # r
    BY <1>1, <1>6, <2>1
       DEF ChatStep, Ask, Browse, Open, Replay, Miss, ReplayNext, Leave, Unavailable, ReadFocal,
           ReadLinked, Revalidate, Commit, End
  <2>2. CASE other = r
    BY <1>1, <1>6, <2>2
       DEF ChatStep, Ask, Browse, Open, Miss, Leave, Unavailable, ReadFocal, ReadLinked, Revalidate, End
  <2> QED
    BY <2>1, <2>2
<1>7. CASE Import \/ Delete
  BY <1>2, <1>7 DEF Import, Delete
<1> QED
  BY <1>2, <1>3, <1>4, <1>5, <1>6, <1>7 DEF ChatNext

\* Every variable of the chat keeps its type (PostChat).
THEOREM ChatTyped == ChatSpec => []ChatTypeOK
<1>1. ChatInv => ChatTypeOK
  BY DEF ChatInv
<1> QED
  BY <1>1, ChatInvInit, ChatInvStep, PTL DEF ChatSpec

\* A stored answer with a receipt names its post among its sources, rests on nothing else,
\* and all of them exist, whatever is deleted while others answer (the trigger of migration
\* 0249 and the last transaction of chat_about_post).
THEOREM EvidenceAlwaysStands == ChatSpec => []EvidenceStands
<1>1. ChatInv => EvidenceStands
  BY DEF ChatInv
<1> QED
  BY <1>1, ChatInvInit, ChatInvStep, PTL DEF ChatSpec

\* Nobody is given an answer, new or replayed, that was made of a post he may not read at that
\* moment or with a scope that sees more than his, for every set of posts, requests, questions
\* and scopes (chat_about_post, read_post_chat, fetch_persisted_chat).
THEOREM AnswersAreAuthorized == ChatSpec => ShownIsAuthorized
<1>1. ChatInv /\ [ChatNext]_chatVars =>
      [\A r \in Readers : shown'[r] # shown[r] /\ shown'[r].exists =>
          /\ \A post \in shown'[r].influence :
                post \in live /\ ~row[post].withdrawn /\ Sees(request[r].scope, row[post])
          /\ \A any \in Rows :
                Sees(shown'[r].scope, any) => Sees(request[r].scope, any)]_chatVars
  BY GivenIsAuthorized DEF Authorized, MayRest
<1> QED
  BY <1>1, ChatInvInit, ChatInvStep, PTL DEF ChatSpec, ShownIsAuthorized

-----------------------------------------------------------------------------
(* Post summary. *)

\* What a request holds: a new reply is of the body it has captured, and what it has locked is
\* as captured.
CallOK(k) ==
    /\ k.reply.fresh => k.reply.body = k.captured.body
    /\ k.pc = "writing" => k.post \in present /\ source[k.post] = k.captured

SummaryInv == SummaryTypeOK /\ \A c \in Callers : CallOK(call[c])

LEMMA NoCallTyped ==
    /\ NoReply \in Replies /\ NoSummary \in Summaries
    /\ NoCall \in Calls /\ NoCall.pc = "idle" /\ NoCall.reply = NoReply
<1>1. NoReply \in Replies /\ NoSummary \in Summaries
  BY SummaryDomain DEF NoReply, Replies, Reasons, NoSummary, Summaries, Contracts
<1>2. (CHOOSE p \in Summarized : TRUE) \in Summarized /\ (CHOOSE any \in RowVariants : TRUE) \in RowVariants
  BY SummaryDomain, SummaryChoices
<1> QED
  BY <1>1, <1>2 DEF NoCall, Calls, Stages, Scopes

LEMMA NoCallOK == CallOK(NoCall)
BY NoCallTyped DEF CallOK, NoReply

LEMMA SummaryInvInit == SummaryInit => SummaryInv
<1> SUFFICES ASSUME SummaryInit PROVE SummaryInv
  OBVIOUS
<1>1. summary \in [Summarized -> Summaries]
  BY NoCallTyped DEF SummaryInit, Summaries, Contracts
<1>2. SummaryTypeOK
  BY <1>1, NoCallTyped DEF SummaryInit, SummaryTypeOK
<1> QED
  BY <1>2, NoCallOK DEF SummaryInit, SummaryInv

\* One request goes on; a reply may be told.
LEMMA OneCall ==
    ASSUME SummaryInv, NEW c \in Callers, NEW k \in Calls, CallOK(k), NEW reply \in Replies,
           call' = [call EXCEPT ![c] = k], told' \in {told, [told EXCEPT ![c] = reply]},
           wakes' \subseteq Summarized \X Bodies, UNCHANGED <<present, source, summary, jobs>>
    PROVE  SummaryInv'
<1>1. SummaryTypeOK'
  BY DEF SummaryInv, SummaryTypeOK
<1>2. ASSUME NEW other \in Callers PROVE CallOK(call[other])'
  <2>1. call'[other] = IF other = c THEN k ELSE call[other]
    BY DEF SummaryInv, SummaryTypeOK
  <2>2. CallOK(call'[other])
    BY <2>1 DEF SummaryInv
  <2> QED
    BY <2>2 DEF CallOK
<1> QED
  BY <1>1, <1>2 DEF SummaryInv

LEMMA FallbackTyped ==
    ASSUME SummaryInv, NEW c \in Callers, NEW reason \in Reasons
    PROVE  Fallback(c, reason) \in Calls /\ CallOK(Fallback(c, reason))
<1>1. call[c] \in Calls
  BY DEF SummaryInv, SummaryTypeOK
<1> DEFINE reply == Reply("stale", call[c].stale.body, FALSE, reason)
<1>2. reply \in Replies /\ reply.fresh = FALSE
  BY <1>1 DEF Reply, Replies, Calls, Summaries
<1>3. [call[c] EXCEPT !.pc = "replying", !.reply = reply] \in Calls
      /\ CallOK([call[c] EXCEPT !.pc = "replying", !.reply = reply])
  <2> HIDE DEF reply
  <2> QED
    BY <1>1, <1>2 DEF Calls, Stages, CallOK
<1> QED
  BY <1>3, NoCallTyped, NoCallOK DEF Fallback

\* The steps of one request that store nothing.
LEMMA CallKeeps ==
    ASSUME SummaryInv, NEW c \in Callers,
           Capture(c) \/ ProviderFails(c) \/ Generate(c) \/ RepeatedActor(c) \/ Publish(c)
           \/ Respond(c) \/ Done(c)
    PROVE  SummaryInv'
<1> DEFINE held == call[c]
<1>1. /\ held \in Calls /\ CallOK(held) /\ call \in [Callers -> Calls] /\ told \in [Callers -> Replies]
      /\ wakes \subseteq Summarized \X Bodies /\ held.captured.body \in Bodies /\ held.post \in Summarized
  BY SummaryChoices DEF SummaryInv, SummaryTypeOK, Calls, Rows
<1>2. CASE Finish(c) /\ UNCHANGED <<present, source, summary, jobs, wakes>>
  BY <1>1, <1>2, NoCallTyped, NoCallOK, OneCall DEF Finish
<1>3. CASE Capture(c)
  <2>1. PICK post \in Summarized, scope \in ScopeVariants :
            LET saved == summary[post]
                start == [NoCall EXCEPT !.post = post, !.scope = scope, !.captured = source[post]]
            IN  /\ call' = [call EXCEPT ![c] =
                       IF saved.contract = "current"
                       THEN [start EXCEPT !.pc = "replying",
                                          !.reply = Reply("current", saved.body, FALSE, "none")]
                       ELSE [start EXCEPT !.pc = "generating", !.stale = saved]]
                /\ UNCHANGED <<present, source, summary, told, jobs, wakes>>
    BY <1>3 DEF Capture
  <2> DEFINE saved == summary[post]
             start == [NoCall EXCEPT !.post = post, !.scope = scope, !.captured = source[post]]
             reply == Reply("current", saved.body, FALSE, "none")
             shows == [start EXCEPT !.pc = "replying", !.reply = reply]
             makes == [start EXCEPT !.pc = "generating", !.stale = saved]
  <2>2. saved \in Summaries /\ source[post] \in RowVariants /\ scope \in Scopes
    BY SummaryChoices DEF SummaryInv, SummaryTypeOK
  <2>3. reply \in Replies /\ reply.fresh = FALSE
    BY <2>2 DEF Reply, Replies, Reasons, Summaries
  <2>4. start \in Calls /\ start.reply.fresh = FALSE
    <3>1. NoCall.reply.fresh = FALSE
      BY DEF NoCall, NoReply
    <3> HIDE DEF saved, reply
    <3> QED
      BY <2>2, <3>1, NoCallTyped DEF Calls
  <2>5. shows \in Calls /\ CallOK(shows)
    <3> HIDE DEF start, reply
    <3> QED
      BY <2>3, <2>4 DEF Calls, Stages, CallOK
  <2>6. makes \in Calls /\ CallOK(makes)
    <3> HIDE DEF start, saved
    <3> QED
      BY <2>2, <2>4 DEF Calls, Stages, CallOK
  <2>7. PICK k \in {shows, makes} : call' = [call EXCEPT ![c] = k]
    BY <2>1
  <2> QED
    <3> HIDE DEF shows, makes
    <3> QED
      BY <1>1, <2>1, <2>5, <2>6, <2>7, NoCallTyped, OneCall
<1>4. CASE ProviderFails(c) \/ RepeatedActor(c)
  <2>1. PICK reason \in Reasons : call' = [call EXCEPT ![c] = Fallback(c, reason)]
    BY <1>4 DEF ProviderFails, RepeatedActor, Reasons
  <2>2. UNCHANGED <<present, source, summary, told, jobs, wakes>>
    BY <1>4 DEF ProviderFails, RepeatedActor
  <2> QED
    BY <1>1, <2>1, <2>2, FallbackTyped, NoCallTyped, OneCall
<1>5. CASE Generate(c)
  <2>1. CASE Unchanged(c)
    <3> DEFINE k == [held EXCEPT !.pc = "writing"]
    <3>1. call' = [call EXCEPT ![c] = k] /\ UNCHANGED <<present, source, summary, told, jobs, wakes>>
      BY <1>5, <2>1 DEF Generate
    <3>2. k \in Calls /\ CallOK(k)
      BY <1>1, <2>1 DEF Calls, Stages, CallOK, Unchanged, Readable, Eligible
    <3> QED
      <4> HIDE DEF k
      <4> QED
        BY <1>1, <3>1, <3>2, NoCallTyped, OneCall
  <2>2. CASE ~Unchanged(c)
    BY <1>2, <1>5, <2>2 DEF Generate
  <2> QED
    BY <2>1, <2>2
<1>6. CASE Publish(c)
  <2> DEFINE k == [held EXCEPT !.pc = "replying"]
  <2>1. call' = [call EXCEPT ![c] = k] /\ UNCHANGED <<present, source, summary, told, jobs>>
    BY <1>6 DEF Publish
  <2>2. wakes' \subseteq Summarized \X Bodies
    BY <1>1, <1>6 DEF Publish
  <2>3. k \in Calls /\ CallOK(k)
    BY <1>1 DEF Calls, Stages, CallOK
  <2> QED
    <3> HIDE DEF k
    <3> QED
      BY <2>1, <2>2, <2>3, NoCallTyped, OneCall
<1>7. CASE Respond(c)
  <2>1. CASE Unchanged(c)
    <3> DEFINE k == [held EXCEPT !.pc = "done"]
    <3>1. call' = [call EXCEPT ![c] = k] /\ told' = [told EXCEPT ![c] = held.reply]
          /\ UNCHANGED <<present, source, summary, jobs, wakes>>
      BY <1>7, <2>1 DEF Respond
    <3>2. k \in Calls /\ CallOK(k) /\ held.reply \in Replies
      BY <1>1 DEF Calls, Stages, CallOK
    <3> QED
      <4> HIDE DEF k
      <4> QED
        BY <1>1, <3>1, <3>2, OneCall
  <2>2. CASE ~Unchanged(c)
    BY <1>2, <1>7, <2>2 DEF Respond
  <2> QED
    BY <2>1, <2>2
<1>8. CASE Done(c)
  BY <1>2, <1>8 DEF Done
<1> QED
  BY <1>3, <1>4, <1>5, <1>6, <1>7, <1>8

LEMMA StoreKeeps ==
    ASSUME SummaryInv, NEW c \in Callers, Store(c)
    PROVE  /\ SummaryInv'
           /\ \A p \in Summarized : summary'[p] # summary[p] =>
                  summary'[p].contract = "current" /\ summary'[p].body = source[p].body
<1> DEFINE held == call[c]
           post == held.post
           body == held.captured.body
           made == [contract |-> "current", body |-> body]
           reply == Reply("current", body, TRUE, "none")
<1>1. /\ held \in Calls /\ held.pc = "writing" /\ CallOK(held) /\ call \in [Callers -> Calls]
      /\ summary \in [Summarized -> Summaries] /\ source \in [Summarized -> RowVariants]
      /\ body \in Bodies /\ post \in Summarized /\ source[post].body = body
  BY SummaryChoices DEF SummaryInv, SummaryTypeOK, Calls, Rows, Store, CallOK
<1>2. made \in Summaries /\ reply \in Replies /\ reply.fresh /\ reply.body = body
  BY <1>1 DEF Summaries, Contracts, Reply, Replies, Reasons
<1>3. \A pc \in {"publishing", "replying"} :
          /\ [held EXCEPT !.pc = pc, !.reply = reply] \in Calls
          /\ CallOK([held EXCEPT !.pc = pc, !.reply = reply])
  <2> HIDE DEF reply
  <2> QED
    BY <1>1, <1>2 DEF Calls, Stages, CallOK
<1>4. /\ summary' = [summary EXCEPT ![post] = made]
      /\ jobs' = jobs \cup {<<post, body>>}
      /\ UNCHANGED <<present, source, told, wakes>>
  BY DEF Store
<1>5. PICK pc \in {"publishing", "replying"} : call' = [other \in Callers |->
          IF other = c THEN [held EXCEPT !.pc = pc, !.reply = reply]
          ELSE IF call[other].pc = "writing" /\ call[other].post = post THEN Fallback(other, "storage")
          ELSE call[other]]
  <2>1. PICK pending \in BOOLEAN : call' = [other \in Callers |->
          IF other = c THEN [held EXCEPT !.pc = IF pending THEN "publishing" ELSE "replying",
                                         !.reply = reply]
          ELSE IF call[other].pc = "writing" /\ call[other].post = post THEN Fallback(other, "storage")
          ELSE call[other]]
    BY DEF Store
  <2>2. CASE pending
    BY <2>1, <2>2
  <2>3. CASE ~pending
    BY <2>1, <2>3
  <2> QED
    BY <2>2, <2>3
<1>6. \A other \in Callers : call'[other] \in Calls /\ CallOK(call'[other])
  <2> SUFFICES ASSUME NEW other \in Callers PROVE call'[other] \in Calls /\ CallOK(call'[other])
    OBVIOUS
  <2>1. call[other] \in Calls /\ CallOK(call[other])
    BY <1>1 DEF SummaryInv
  <2>2. Fallback(other, "storage") \in Calls /\ CallOK(Fallback(other, "storage"))
    BY FallbackTyped DEF Reasons
  <2> QED
    <3> HIDE DEF held, reply, post
    <3> QED
      BY <1>3, <1>5, <2>1, <2>2
<1>7. call' \in [Callers -> Calls]
  BY <1>5, <1>6
<1>8. SummaryTypeOK'
  <2> HIDE DEF held, post, body, made
  <2> QED
    BY <1>1, <1>2, <1>4, <1>7 DEF SummaryInv, SummaryTypeOK
<1>9. \A other \in Callers : CallOK(call[other])'
  BY <1>4, <1>6 DEF CallOK
<1>10. ASSUME NEW p \in Summarized, summary'[p] # summary[p]
       PROVE  summary'[p].contract = "current" /\ summary'[p].body = source[p].body
  <2>1. p = post /\ summary'[p] = made
    <3> HIDE DEF post, made
    <3> QED
      BY <1>1, <1>4, <1>10
  <2> QED
    BY <1>1, <2>1
<1> QED
  BY <1>8, <1>9, <1>10 DEF SummaryInv

\* What others do to a post whose row no request has locked.
LEMMA OthersKeep ==
    ASSUME SummaryInv, ImportSource \/ DeleteSource
    PROVE  SummaryInv'
<1>1. PICK post \in Summarized :
          /\ ~ShareLocked(post)
          /\ \A p \in Summarized \ {post} : (p \in present' <=> p \in present) /\ source'[p] = source[p]
          /\ UNCHANGED <<call, told, jobs, wakes>>
  <2>1. CASE ImportSource
    BY <2>1 DEF ImportSource, SummaryInv, SummaryTypeOK
  <2>2. CASE DeleteSource
    BY <2>2 DEF DeleteSource, SummaryInv, SummaryTypeOK
  <2> QED
    BY <2>1, <2>2
<1>2. SummaryTypeOK'
  BY NoCallTyped DEF ImportSource, DeleteSource, SummaryInv, SummaryTypeOK
<1>3. ASSUME NEW c \in Callers PROVE CallOK(call[c])'
  <2>1. call[c] \in Calls /\ CallOK(call[c]) /\ call'[c] = call[c]
    BY <1>1 DEF SummaryInv, SummaryTypeOK
  <2>2. call[c].pc = "writing" => call[c].post \in Summarized \ {post}
    BY <1>1, <2>1 DEF ShareLocked, Calls
  <2> QED
    BY <1>1, <2>1, <2>2 DEF CallOK
<1> QED
  BY <1>2, <1>3 DEF SummaryInv

LEMMA SummaryInvStep == SummaryInv /\ [SummaryNext]_summaryVars => SummaryInv'
<1> SUFFICES ASSUME SummaryInv, [SummaryNext]_summaryVars PROVE SummaryInv'
  OBVIOUS
<1>1. CASE UNCHANGED summaryVars
  BY <1>1 DEF summaryVars, SummaryInv, SummaryTypeOK, CallOK
<1>2. ASSUME NEW c \in Callers, SummaryStep(c) PROVE SummaryInv'
  BY <1>2, CallKeeps, StoreKeeps DEF SummaryStep
<1> QED
  BY <1>1, <1>2, OthersKeep DEF SummaryNext

\* What one step tells a reader.
AsCaptured(c) ==
    told'[c] # told[c] /\ told'[c].label # "none" =>
        /\ Readable(call[c].scope, present, source, call[c].post)
        /\ source[call[c].post] = call[c].captured
        /\ told'[c].fresh => told'[c].body = source[call[c].post].body

LEMMA ToldAsCaptured ==
    ASSUME SummaryInv, SummaryNext, NEW c \in Callers PROVE AsCaptured(c)
<1>1. told \in [Callers -> Replies] /\ CallOK(call[c]) /\ NoReply.label = "none"
  BY DEF SummaryInv, SummaryTypeOK, NoReply
<1>2. CASE told'[c] = told[c] \/ told'[c] = NoReply
  BY <1>1, <1>2 DEF AsCaptured
<1>3. CASE Respond(c) /\ Unchanged(c)
  <2>1. told'[c] = call[c].reply
    BY <1>1, <1>3 DEF Respond
  <2> QED
    BY <1>1, <1>3, <2>1 DEF AsCaptured, Unchanged, CallOK
<1>4. ASSUME NEW other \in Callers, SummaryStep(other), ~(other = c /\ Respond(c) /\ Unchanged(c))
      PROVE  told'[c] = told[c] \/ told'[c] = NoReply
  <2>1. UNCHANGED told \/ Finish(other) \/ (other # c /\ \E any : told' = [told EXCEPT ![other] = any])
    BY <1>4 DEF SummaryStep, Capture, ProviderFails, Generate, RepeatedActor, Store, Publish, Respond, Done
  <2> QED
    BY <1>1, <2>1 DEF Finish
<1>5. CASE ImportSource \/ DeleteSource
  BY <1>2, <1>5 DEF ImportSource, DeleteSource
<1> QED
  BY <1>2, <1>3, <1>4, <1>5 DEF SummaryNext

\* How one step replaces a stored summary.
GivesWay(p) ==
    summary'[p] # summary[p] =>
        \/ p \notin present'
        \/ summary'[p].contract = "current" /\ summary'[p].body = source[p].body

LEMMA OnlyForBetter ==
    ASSUME SummaryInv, SummaryNext, NEW p \in Summarized PROVE GivesWay(p)
<1>1. CASE UNCHANGED summary
  BY <1>1 DEF GivesWay
<1>2. ASSUME NEW c \in Callers, Store(c) PROVE GivesWay(p)
  BY <1>2, StoreKeeps DEF GivesWay
<1>3. CASE DeleteSource
  BY <1>3 DEF DeleteSource, GivesWay, SummaryInv, SummaryTypeOK
<1> QED
  BY <1>1, <1>2, <1>3
     DEF SummaryNext, SummaryStep, Capture, ProviderFails, Generate, RepeatedActor, Publish, Respond, Done,
         ImportSource

\* Every variable of the summary keeps its type (PostSummary).
THEOREM SummaryTyped == SummarySpec => []SummaryTypeOK
<1>1. SummaryInv => SummaryTypeOK
  BY DEF SummaryInv
<1> QED
  BY <1>1, SummaryInvInit, SummaryInvStep, PTL DEF SummarySpec

\* A summary is told only while its reader may read the post and the post is as captured, for
\* every set of posts, requests and rows (read_post_summary, lock_unchanged_summary_source).
THEOREM SummariesAreAuthorized == SummarySpec => ToldIsAuthorized
<1>1. SummaryInv /\ [SummaryNext]_summaryVars =>
      [\A c \in Callers :
          told'[c] # told[c] /\ told'[c].label # "none" =>
              /\ Readable(call[c].scope, present, source, call[c].post)
              /\ source[call[c].post] = call[c].captured
              /\ told'[c].fresh => told'[c].body = source[call[c].post].body]_summaryVars
  BY ToldAsCaptured DEF AsCaptured
<1> QED
  BY <1>1, SummaryInvInit, SummaryInvStep, PTL DEF SummarySpec, ToldIsAuthorized

\* A stored summary gives way only to a current one of the body that the post has at that
\* moment, or goes with its post, however many requests store and import at once
\* (persist_prepared_post_summary, lock_unchanged_summary_source).
THEOREM LastGoodIsKept == SummarySpec => LastGoodKept
<1>1. SummaryInv /\ [SummaryNext]_summaryVars =>
      [\A p \in Summarized :
          summary'[p] # summary[p] =>
              \/ p \notin present'
              \/ summary'[p].contract = "current" /\ summary'[p].body = source[p].body]_summaryVars
  BY OnlyForBetter DEF GivesWay
<1> QED
  BY <1>1, SummaryInvInit, SummaryInvStep, PTL DEF SummarySpec, LastGoodKept

-----------------------------------------------------------------------------
(* Verified relations. *)

\* What a relation holds: an outcome of a search for its own label, and a post that exists.
RowOK(any) ==
    /\ any.searched # Unknown => any.searched = any.type
    /\ any.cites \in citable \cup {Unknown}

RelationInv ==
    /\ relation \in [Parties -> ClaimRows \cup {NoRow}]
    /\ citable \subseteq Citable
    /\ classifier \in [Classifiers -> Classifying]
    /\ \A n \in Parties : RowOK(relation[n])

\* An outcome is stored in one step only, and there for a pending relation.
Belongs(n) ==
    relation'[n].searched # Unknown =>
        /\ relation'[n].searched = relation'[n].type
        /\ relation'[n].cites \in citable' \cup {Unknown}
        /\ (Pending(n) \/ relation'[n] = relation[n])

LEMMA RelationInvInit == RelationInit => RelationInv
<1> SUFFICES ASSUME RelationInit PROVE RelationInv
  OBVIOUS
<1>1. PICK before \in Findings : relation = [n \in Parties |->
          IF n \in DOMAIN before THEN [NoRow EXCEPT !.type = before[n]] ELSE NoRow]
  BY DEF RelationInit
<1>2. \A n \in DOMAIN before : before[n] \in Relations
  BY DEF Findings
<1>3. \A n \in Parties : relation[n] \in ClaimRows \cup {NoRow} /\ RowOK(relation[n])
  <2> SUFFICES ASSUME NEW n \in Parties PROVE relation[n] \in ClaimRows \cup {NoRow} /\ RowOK(relation[n])
    OBVIOUS
  <2>1. CASE n \in DOMAIN before
    BY <1>1, <1>2, <2>1 DEF NoRow, ClaimRows, RowOK
  <2>2. CASE n \notin DOMAIN before
    BY <1>1, <2>2 DEF NoRow, RowOK
  <2> QED
    BY <2>1, <2>2
<1>4. classifier \in [Classifiers -> Classifying]
  <2>1. NoFinding \in [{} -> Relations]
    BY DEF NoFinding
  <2>2. NoFinding \in Findings
    BY <2>1 DEF Findings
  <2>3. [pc |-> "new", found |-> NoFinding, seen |-> {}] \in Classifying
    BY <2>2 DEF Classifying
  <2> QED
    BY <2>3 DEF RelationInit
<1>5. relation \in [Parties -> ClaimRows \cup {NoRow}]
  BY <1>1, <1>3
<1> QED
  BY <1>3, <1>4, <1>5 DEF RelationInv, RelationInit

\* The steps that leave the rows alone.
LEMMA SameRows ==
    ASSUME RelationInv, relation' = relation, classifier' \in [Classifiers -> Classifying],
           citable' \subseteq citable,
           \A n \in Parties : relation[n].cites \in citable' \cup {Unknown}
    PROVE  RelationInv' /\ \A n \in Parties : Belongs(n)
<1>1. \A n \in Parties : RowOK(relation[n])'
  BY DEF RelationInv, RowOK
<1>2. \A n \in Parties : Belongs(n)
  BY DEF RelationInv, RowOK, Belongs
<1> QED
  BY <1>1, <1>2 DEF RelationInv

LEMMA ClassifierTyped ==
    ASSUME RelationInv, NEW c \in Classifiers,
           Classify(c) \/ DeleteRelations(c) \/ InsertRelations(c) \/ ReplacementFails(c)
    PROVE  classifier' \in [Classifiers -> Classifying]
<1>1. classifier \in [Classifiers -> Classifying] /\ classifier[c] \in Classifying
  BY DEF RelationInv
<1>2. NoFinding \in Findings
  <2>1. NoFinding \in [{} -> Relations]
    BY DEF NoFinding
  <2> QED
    BY <2>1 DEF Findings
<1>3. Identities \subseteq Parties \X (Classifiers \cup {Unknown})
  BY DEF RelationInv, Identities, There, ClaimRows, NoRow
<1>4. [pc |-> "done", found |-> NoFinding, seen |-> {}] \in Classifying
  BY <1>2 DEF Classifying
<1>5. \A found \in Findings : [pc |-> "replacing", found |-> found, seen |-> Identities] \in Classifying
  BY <1>3 DEF Classifying
<1>6. [classifier[c] EXCEPT !.pc = "inserting"] \in Classifying
  BY <1>1 DEF Classifying
<1> QED
  BY <1>1, <1>4, <1>5, <1>6 DEF Classify, DeleteRelations, InsertRelations, ReplacementFails

\* A replacement of the rows leaves them pending or as they are.
LEMMA ReplacedKeep ==
    ASSUME RelationInv, NEW c \in Classifiers, InsertRelations(c)
    PROVE  RelationInv' /\ \A n \in Parties : Belongs(n)
<1> DEFINE found == classifier[c].found
<1>1. relation \in [Parties -> ClaimRows \cup {NoRow}] /\ citable' = citable
      /\ relation' = [n \in Parties |->
             IF n \in DOMAIN found THEN [NoRow EXCEPT !.type = found[n], !.by = c]
             ELSE IF n \in Deleted(c) THEN NoRow ELSE relation[n]]
  BY DEF RelationInv, InsertRelations
<1>2. \A n \in DOMAIN found : found[n] \in Relations
  BY DEF RelationInv, Classifying, Findings
<1>3. ASSUME NEW n \in Parties
      PROVE  relation'[n] \in ClaimRows \cup {NoRow} /\ RowOK(relation[n])' /\ Belongs(n)
  <2>1. CASE n \in DOMAIN found
    <3>1. /\ relation'[n] = [NoRow EXCEPT !.type = found[n], !.by = c]
          /\ found[n] \in Relations
      BY <1>1, <1>2, <2>1
    <3>2. relation'[n] \in ClaimRows /\ relation'[n].searched = Unknown /\ relation'[n].cites = Unknown
      <4> DEFINE type == found[n]
      <4>1. type \in Relations /\ relation'[n] = [NoRow EXCEPT !.type = type, !.by = c]
        BY <3>1
      <4> HIDE DEF found, type
      <4> QED
        BY <4>1 DEF NoRow, ClaimRows
    <3> QED
      BY <3>2 DEF RowOK, Belongs
  <2>2. CASE n \notin DOMAIN found /\ n \in Deleted(c)
    <3>1. relation'[n] = NoRow /\ NoRow.searched = Unknown /\ NoRow.cites = Unknown
      BY <1>1, <2>2 DEF NoRow
    <3> QED
      BY <3>1 DEF RowOK, Belongs
  <2>3. CASE n \notin DOMAIN found /\ n \notin Deleted(c)
    <3>1. relation'[n] = relation[n]
      BY <1>1, <2>3
    <3> QED
      BY <1>1, <3>1 DEF RelationInv, RowOK, Belongs
  <2> QED
    BY <2>1, <2>2, <2>3
<1>4. relation' \in [Parties -> ClaimRows \cup {NoRow}] /\ citable' \subseteq Citable
  <2> HIDE DEF found
  <2> QED
    BY <1>1, <1>3 DEF RelationInv
<1>5. classifier' \in [Classifiers -> Classifying]
  BY ClassifierTyped
<1> QED
  BY <1>3, <1>4, <1>5 DEF RelationInv

\* An outcome goes to a row that still has the label it was searched for.
LEMMA OutcomeKeeps ==
    ASSUME RelationInv, NEW v \in Verifiers, StoreOutcome(v)
    PROVE  RelationInv' /\ \A n \in Parties : Belongs(n)
<1> DEFINE claim == Claim(v)
<1>1. relation \in [Parties -> ClaimRows \cup {NoRow}] /\ UNCHANGED <<citable, classifier>>
  BY DEF RelationInv, StoreOutcome
<1>2. CASE relation' = relation
  BY <1>1, <1>2, SameRows DEF RelationInv, RowOK
<1>3. CASE relation' # relation
  <2>1. /\ StillClaimed(claim) /\ claim.cites \in citable \cup {Unknown}
        /\ relation' = [relation EXCEPT ![claim.name].searched = claim.type,
                                        ![claim.name].cites = claim.cites]
    BY <1>3 DEF StoreOutcome
  <2>2. claim.name \in Parties
    <3> HIDE DEF claim
    <3> QED
      BY <1>1, <1>3, <2>1
  <2>3. Pending(claim.name) /\ relation[claim.name] \in ClaimRows /\ relation[claim.name].type = claim.type
    <3> HIDE DEF claim
    <3> QED
      BY <1>1, <2>1, <2>2 DEF StillClaimed, Pending, There
  <2> DEFINE updated == [relation[claim.name] EXCEPT !.searched = claim.type, !.cites = claim.cites]
  <2>4. /\ updated \in ClaimRows /\ updated.searched = updated.type
        /\ updated.cites \in citable \cup {Unknown}
    <3> HIDE DEF claim
    <3> QED
      BY <2>1, <2>3 DEF ClaimRows, RelationInv
  <2>5. \A n \in Parties : relation'[n] = IF n = claim.name THEN updated ELSE relation[n]
    <3> HIDE DEF claim
    <3> QED
      BY <1>1, <2>1
  <2>6. relation' \in [Parties -> ClaimRows \cup {NoRow}]
    <3>1. \E any : relation' = [relation EXCEPT ![claim.name] = any]
      <4> HIDE DEF claim
      <4> QED
        BY <2>1
    <3> HIDE DEF updated, claim
    <3> QED
      BY <1>1, <2>4, <2>5, <3>1
  <2>7. \A n \in Parties : RowOK(relation[n])' /\ Belongs(n)
    <3> HIDE DEF updated, claim
    <3> QED
      BY <1>1, <2>3, <2>4, <2>5 DEF RowOK, Belongs, RelationInv
  <2> QED
    BY <1>1, <2>6, <2>7 DEF RelationInv
<1> QED
  BY <1>2, <1>3

LEMMA RelationStepKeeps ==
    ASSUME RelationInv, [RelationNext]_relationVars
    PROVE  RelationInv' /\ \A n \in Parties : Belongs(n)
<1>1. \A n \in Parties : relation[n].cites \in citable \cup {Unknown}
  BY DEF RelationInv, RowOK
<1>2. CASE UNCHANGED <<relation, citable, classifier>>
  BY <1>1, <1>2, SameRows DEF RelationInv
<1>3. ASSUME NEW c \in Classifiers, Classify(c) \/ DeleteRelations(c) \/ ReplacementFails(c)
      PROVE  RelationInv' /\ \A n \in Parties : Belongs(n)
  <2>1. UNCHANGED <<relation, citable>>
    BY <1>3 DEF Classify, DeleteRelations, ReplacementFails
  <2> QED
    BY <1>1, <1>3, <2>1, ClassifierTyped, SameRows
<1>4. ASSUME NEW v \in Verifiers, ReadPending(v) \/ FindCitation(v) \/ SearchRelation(v)
      PROVE  UNCHANGED <<relation, citable, classifier>>
  BY <1>4 DEF ReadPending, FindCitation, SearchRelation
<1>5. ASSUME NEW p \in Citable, DeleteCitable(p)
      PROVE  RelationInv' /\ \A n \in Parties : Belongs(n)
  BY <1>1, <1>5, SameRows DEF DeleteCitable, RelationInv
<1> QED
  BY <1>2, <1>3, <1>4, <1>5, ReplacedKeep, OutcomeKeeps DEF RelationNext, relationVars

RelationSpec == RelationInit /\ [][RelationNext]_relationVars

\* An outcome of a search belongs to the relation it was asked about and cites a post that
\* exists, for every number of parties, extractions and verifications in flight
\* (verify_post_relations).
THEOREM OutcomesBelong == RelationSpec => OutcomeBelongsToRelation
<1>1. RelationInv /\ [RelationNext]_relationVars =>
      [\A n \in Parties : relation'[n].searched # Unknown =>
          /\ relation'[n].searched = relation'[n].type
          /\ relation'[n].cites \in citable' \cup {Unknown}
          /\ (Pending(n) \/ relation'[n] = relation[n])]_relationVars
  BY RelationStepKeeps DEF Belongs
<1>2. RelationInv /\ [RelationNext]_relationVars => RelationInv'
  BY RelationStepKeeps
<1> QED
  BY <1>1, <1>2, RelationInvInit, PTL DEF RelationSpec, OutcomeBelongsToRelation

-----------------------------------------------------------------------------
(* What a verification holds. *)

VerifierInv == RelationInv /\ verifier \in [Verifiers -> Verifying]

LEMMA NoVerificationTyped == NoVerification \in Verifying
BY DEF NoVerification, Verifying

\* A verification goes on with one claim less, or ends.
LEMMA RestTyped ==
    ASSUME NEW v \in Verifiers, verifier[v] \in Verifying
    PROVE  Rest(v) \in Verifying
<1> DEFINE left == verifier[v].claims \ {Claim(v)}
<1>1. left \subseteq verifier[v].claims
  OBVIOUS
<1>2. Rest(v) = IF left = {} THEN NoVerification
                ELSE [verifier[v] EXCEPT !.pc = "searching", !.claims = left]
  BY DEF Rest
<1> HIDE DEF left
<1>3. [verifier[v] EXCEPT !.pc = "searching", !.claims = left] \in Verifying
  BY <1>1 DEF Verifying
<1> QED
  BY <1>2, <1>3, NoVerificationTyped

LEMMA VerifierTyped ==
    ASSUME VerifierInv, NEW v \in Verifiers,
           ReadPending(v) \/ FindCitation(v) \/ SearchRelation(v) \/ StoreOutcome(v)
    PROVE  verifier' \in [Verifiers -> Verifying]
<1>1. verifier \in [Verifiers -> Verifying] /\ verifier[v] \in Verifying
  BY DEF VerifierInv
<1>2. CASE ReadPending(v)
  <2> DEFINE claims == {[name |-> n, type |-> relation[n].type, cites |-> Unknown] :
                           n \in {m \in Parties : Pending(m)}}
  <2>1. \A n \in Parties : Pending(n) => relation[n].type \in Relations
    BY DEF VerifierInv, RelationInv, Pending, There, ClaimRows
  <2>2. claims \in SUBSET [name : Parties, type : Relations, cites : Citable \cup {Unknown}]
    BY <2>1
  <2>3. verifier' = [verifier EXCEPT ![v] = [pc |-> "citing", cited |-> {}, claims |-> claims]]
    BY <1>2 DEF ReadPending
  <2> HIDE DEF claims
  <2>4. [pc |-> "citing", cited |-> {}, claims |-> claims] \in Verifying
    BY <2>2 DEF Verifying
  <2> QED
    BY <1>1, <2>3, <2>4
<1>3. CASE FindCitation(v)
  <2>1. PICK claim \in verifier[v].claims, p \in citable \cup {Unknown} :
            verifier' = [verifier EXCEPT
                ![v].claims = (@ \ {claim}) \cup {[claim EXCEPT !.cites = p]},
                ![v].cited = verifier[v].cited \cup {claim.name},
                ![v].pc = IF {x.name : x \in verifier[v].claims} = verifier[v].cited \cup {claim.name}
                          THEN "searching" ELSE "citing"]
    BY <1>3 DEF FindCitation
  <2> DEFINE pc == IF {x.name : x \in verifier[v].claims} = verifier[v].cited \cup {claim.name}
                   THEN "searching" ELSE "citing"
  <2>2. claim \in [name : Parties, type : Relations, cites : Citable \cup {Unknown}]
        /\ p \in Citable \cup {Unknown}
    BY <1>1 DEF Verifying, VerifierInv, RelationInv
  <2>3. [claim EXCEPT !.cites = p] \in [name : Parties, type : Relations, cites : Citable \cup {Unknown}]
    BY <2>2
  <2> DEFINE next == [verifier[v] EXCEPT
                         !.claims = (verifier[v].claims \ {claim}) \cup {[claim EXCEPT !.cites = p]},
                         !.cited = verifier[v].cited \cup {claim.name},
                         !.pc = pc]
  <2>4. next \in Verifying
    <3>1. pc \in {"citing", "searching"}
      OBVIOUS
    <3> HIDE DEF pc
    <3> QED
      BY <1>1, <2>2, <2>3, <3>1 DEF Verifying
  <2>5. verifier' = [verifier EXCEPT ![v] = next]
    BY <1>1, <2>1
  <2> HIDE DEF next
  <2> QED
    BY <1>1, <2>4, <2>5
<1>4. CASE SearchRelation(v)
  <2>1. PICK answered \in BOOLEAN : verifier' = [verifier EXCEPT ![v] =
            IF answered THEN [verifier[v] EXCEPT !.pc = "updating"] ELSE NoVerification]
    BY <1>1, <1>4 DEF SearchRelation
  <2>2. [verifier[v] EXCEPT !.pc = "updating"] \in Verifying
    BY <1>1 DEF Verifying
  <2> QED
    BY <1>1, <2>1, <2>2, NoVerificationTyped
<1>5. CASE StoreOutcome(v)
  <2>1. verifier' = [verifier EXCEPT ![v] = Rest(v)]
    BY <1>5 DEF StoreOutcome
  <2> QED
    BY <1>1, <2>1, RestTyped
<1> QED
  BY <1>2, <1>3, <1>4, <1>5

LEMMA VerifierInvStep == VerifierInv /\ [RelationNext]_relationVars => VerifierInv'
<1> SUFFICES ASSUME VerifierInv, [RelationNext]_relationVars PROVE VerifierInv'
  OBVIOUS
<1>1. RelationInv'
  BY RelationStepKeeps DEF VerifierInv
<1>2. ASSUME NEW c \in Classifiers, InsertRelations(c)
      PROVE  verifier' \in [Verifiers -> Verifying]
  <2>1. PICK waiting : verifier' = [v \in Verifiers |-> IF v \in waiting THEN Rest(v) ELSE verifier[v]]
    BY <1>2 DEF InsertRelations
  <2>2. \A v \in Verifiers : Rest(v) \in Verifying /\ verifier[v] \in Verifying
    BY RestTyped DEF VerifierInv
  <2> QED
    BY <2>1, <2>2
<1>3. ASSUME NEW c \in Classifiers, Classify(c) \/ DeleteRelations(c) \/ ReplacementFails(c)
      PROVE  verifier' = verifier
  BY <1>3 DEF Classify, DeleteRelations, ReplacementFails
<1>4. ASSUME NEW p \in Citable, DeleteCitable(p)
      PROVE  verifier' = verifier
  BY <1>4 DEF DeleteCitable
<1>5. verifier' \in [Verifiers -> Verifying]
  BY <1>2, <1>3, <1>4, VerifierTyped DEF RelationNext, relationVars, VerifierInv
<1> QED
  BY <1>1, <1>5 DEF VerifierInv

LEMMA VerifierInvInit == RelationInit => VerifierInv
BY RelationInvInit, NoVerificationTyped DEF RelationInit, VerifierInv

-----------------------------------------------------------------------------
(* Customer hints. *)

HintTypes ==
    /\ hintSource \in [Hinted -> HintSources]
    /\ resolution \in [Hinted -> Resolutions \cup {Unresolved}]
    /\ resolver \in [Resolvers -> Resolving] /\ hintEdits \in 0 .. MaxHintEdits

\* What a resolution was derived from is what it is stored for.
DerivedFromOwn(any) == any # Unresolved => any.from = [code |-> any.code, text |-> any.text]

HintInv == HintTypes /\ \A p \in Hinted : DerivedFromOwn(resolution[p])

LEMMA NotResolvingTyped == NotResolving \in Resolving
BY DEF NotResolving, Resolving

LEMMA HintInvInit == HintInit => HintInv
<1> SUFFICES ASSUME HintInit PROVE HintInv
  OBVIOUS
<1>1. resolver \in [Resolvers -> Resolving] /\ hintEdits \in 0 .. MaxHintEdits
  BY NotResolvingTyped, ClaimConstants DEF HintInit
<1>2. hintSource \in [Hinted -> HintSources]
  BY DEF HintInit
<1> QED
  BY <1>1, <1>2 DEF HintInit, HintInv, HintTypes, DerivedFromOwn

LEMMA ResolverKeeps ==
    ASSUME HintInv, NEW r \in Resolvers, CaptureHint(r) \/ Derive(r) \/ ResolveFails(r)
    PROVE  HintInv'
<1>1. resolver \in [Resolvers -> Resolving] /\ resolver[r] \in Resolving
      /\ UNCHANGED <<hintSource, resolution, hintEdits>>
  BY DEF HintInv, HintTypes, CaptureHint, Derive, ResolveFails
<1>2. CASE CaptureHint(r)
  <2>1. PICK hint \in Codes, newest \in SUBSET Hinted :
            resolver' = [resolver EXCEPT ![r] = [pc |-> "deriving", hint |-> hint, bound |-> {},
                             captured |-> {<<p, hintSource[p].text>> : p \in newest}]]
    BY <1>2 DEF CaptureHint, Resolve
  <2>2. {<<p, hintSource[p].text>> : p \in newest} \subseteq Hinted \X Texts
    BY <2>1 DEF HintInv, HintTypes, HintSources
  <2> DEFINE captured == {<<p, hintSource[p].text>> : p \in newest}
  <2> HIDE DEF captured
  <2>3. [pc |-> "deriving", hint |-> hint, bound |-> {}, captured |-> captured] \in Resolving
    BY <2>2 DEF Resolving, captured
  <2> QED
    BY <1>1, <2>1, <2>3 DEF captured, HintInv, HintTypes
<1>3. CASE Derive(r)
  <2>1. PICK next \in resolver[r].captured, customer \in Customers \cup {Unknown} :
            resolver' = [resolver EXCEPT ![r] = [resolver[r] EXCEPT
                !.captured = resolver[r].captured \ {next},
                !.bound = IF customer = Unknown THEN resolver[r].bound
                          ELSE resolver[r].bound \cup {<<next[1], next[2], customer>>},
                !.pc = IF resolver[r].captured = {next} THEN "binding" ELSE resolver[r].pc]]
    BY <1>3 DEF Derive, Resolve
  <2>2. next[1] \in Hinted /\ next[2] \in Texts
    BY <1>1 DEF Resolving
  <2>3. customer # Unknown => <<next[1], next[2], customer>> \in Hinted \X Texts \X Customers
    BY <2>2
  <2> DEFINE captured == resolver[r].captured \ {next}
             bound == IF customer = Unknown THEN resolver[r].bound
                      ELSE resolver[r].bound \cup {<<next[1], next[2], customer>>}
             pc == IF resolver[r].captured = {next} THEN "binding" ELSE resolver[r].pc
  <2>4. captured \subseteq Hinted \X Texts /\ bound \subseteq Hinted \X Texts \X Customers
        /\ pc \in {"idle", "deriving", "binding"}
    BY <1>1, <2>3 DEF Resolving
  <2>5. resolver' = [resolver EXCEPT ![r] =
            [resolver[r] EXCEPT !.captured = captured, !.bound = bound, !.pc = pc]]
    BY <2>1
  <2> HIDE DEF captured, bound, pc
  <2>6. [resolver[r] EXCEPT !.captured = captured, !.bound = bound, !.pc = pc] \in Resolving
    BY <1>1, <2>4 DEF Resolving
  <2> QED
    BY <1>1, <2>5, <2>6 DEF HintInv, HintTypes
<1>4. CASE ResolveFails(r)
  BY <1>1, <1>4, NotResolvingTyped DEF ResolveFails, Resolve, HintInv, HintTypes
<1> QED
  BY <1>2, <1>3, <1>4

\* What is bound under the share lock has the code and the text that it was derived from.
LEMMA BindKeeps ==
    ASSUME HintInv, NEW r \in Resolvers, BindCustomer(r)
    PROVE  HintInv'
<1> DEFINE bound == resolver[r].bound
           Stored(p) == LET b == CHOOSE x \in bound : x[1] = p
                        IN  [code |-> hintSource[p].code, text |-> b[2], customer |-> b[3],
                             from |-> [code |-> resolver[r].hint, text |-> b[2]]]
<1>1. resolver \in [Resolvers -> Resolving] /\ resolver[r] \in Resolving
      /\ hintSource \in [Hinted -> HintSources] /\ resolution \in [Hinted -> Resolutions \cup {Unresolved}]
  BY DEF HintInv, HintTypes
<1>2. resolver' \in [Resolvers -> Resolving] /\ UNCHANGED <<hintSource, hintEdits>>
  BY <1>1, NotResolvingTyped DEF BindCustomer, Resolve
<1>3. CASE resolution' = resolution
  BY <1>2, <1>3 DEF HintInv, HintTypes
<1>4. CASE resolution' # resolution
  <2>1. /\ \A b \in bound : Unmoved(r, b[1], b[2])
        /\ resolution' = [p \in Hinted |-> IF \E b \in bound : b[1] = p THEN Stored(p) ELSE resolution[p]]
    BY <1>4 DEF BindCustomer
  <2>2. ASSUME NEW p \in Hinted, \E b \in bound : b[1] = p
        PROVE  Stored(p) \in Resolutions /\ DerivedFromOwn(Stored(p))
    <3> DEFINE b == CHOOSE x \in bound : x[1] = p
    <3>1. b \in bound /\ b[1] = p
      BY <2>2
    <3>2. b[2] \in Texts /\ b[3] \in Customers
      <4> HIDE DEF b
      <4> QED
        BY <1>1, <3>1 DEF Resolving
    <3>3. hintSource[p].code = resolver[r].hint /\ hintSource[p].code \in Codes
      <4> HIDE DEF b
      <4> QED
        BY <1>1, <2>1, <3>1 DEF Unmoved, HintSources
    <3>4. Stored(p) = [code |-> hintSource[p].code, text |-> b[2], customer |-> b[3],
                       from |-> [code |-> resolver[r].hint, text |-> b[2]]]
      OBVIOUS
    <3> HIDE DEF b, Stored
    <3> QED
      BY <3>2, <3>3, <3>4 DEF Resolutions, HintEvidence, DerivedFromOwn
  <2> HIDE DEF Stored, bound
  <2>3. \A p \in Hinted : resolution'[p] \in Resolutions \cup {Unresolved} /\ DerivedFromOwn(resolution'[p])
    BY <1>1, <2>1, <2>2 DEF HintInv
  <2>4. resolution' \in [Hinted -> Resolutions \cup {Unresolved}]
    BY <2>1, <2>3
  <2> QED
    BY <1>1, <1>2, <2>3, <2>4 DEF HintInv, HintTypes, DerivedFromOwn
<1> QED
  BY <1>3, <1>4

LEMMA HintInvStep == HintInv /\ [HintNext]_hintVars => HintInv'
<1> SUFFICES ASSUME HintInv, [HintNext]_hintVars PROVE HintInv'
  OBVIOUS
<1>1. ASSUME NEW p \in Hinted, EditHinted(p) PROVE HintInv'
  BY <1>1, ClaimConstants DEF EditHinted, HintInv, HintTypes, DerivedFromOwn
<1>2. CASE UNCHANGED hintVars
  BY <1>2 DEF hintVars, HintInv, HintTypes, DerivedFromOwn
<1> QED
  BY <1>1, <1>2, ResolverKeeps, BindKeeps DEF HintNext

\* A customer is shown because of an association that counts.
LEMMA ShownIsBornOut == HintInv => CustomerOfPresentText
<1> SUFFICES ASSUME HintInv, NEW code \in Codes, ShownCustomer(code) # Unknown
             PROVE  \E p \in Hinted : /\ hintSource[p].open
                                      /\ resolution[p].customer = ShownCustomer(code)
                                      /\ resolution[p].from = [code |-> code, text |-> hintSource[p].text]
  BY DEF CustomerOfPresentText
<1>1. CustomersOf(code) # {} /\ ShownCustomer(code) = CHOOSE c \in CustomersOf(code) : TRUE
  BY FS_EmptySet DEF ShownCustomer
<1>2. ShownCustomer(code) \in CustomersOf(code)
  BY <1>1
<1>3. PICK p \in Hinted : /\ hintSource[p].open /\ hintSource[p].code = code /\ Associated(p)
                          /\ resolution[p].customer = ShownCustomer(code)
  BY <1>2 DEF CustomersOf
<1>4. resolution[p].from = [code |-> code, text |-> hintSource[p].text]
  BY <1>3 DEF Associated, HintInv, DerivedFromOwn
<1> QED
  BY <1>3, <1>4

HintSpec == HintInit /\ [][HintNext]_hintVars

\* The customer shown for a code was derived from the present text of a readable post under
\* that code, for every set of posts, codes and texts, every limit and number of attempts and
\* imports in between (persist_customer_hint_resolutions, read_customer_master).
THEOREM CustomersOfPresentText == HintSpec => []CustomerOfPresentText
BY HintInvInit, HintInvStep, ShownIsBornOut, PTL DEF HintSpec

\* Relations and searches, hints and resolutions keep their types, whatever a search or a model
\* answers (verify_post_relations, persist_customer_hint_resolutions).
THEOREM ClaimsTyped == RelationSpec /\ HintSpec => []ClaimTypeOK
<1>1. VerifierInv /\ HintInv => ClaimTypeOK
  BY DEF VerifierInv, RelationInv, HintInv, HintTypes, ClaimTypeOK
<1> QED
  BY <1>1, VerifierInvInit, VerifierInvStep, HintInvInit, HintInvStep, PTL DEF RelationSpec, HintSpec

-----------------------------------------------------------------------------
(* Orders and lists. *)

\* A list of the members of a set, by falling value.
Falling(s, among, value) ==
    /\ s \in [1 .. Cardinality(among) -> among]
    /\ \A i, j \in 1 .. Cardinality(among) : i < j => value[s[i]] > value[s[j]]

Valued(among, value) ==
    /\ \A x \in among : value[x] \in Nat
    /\ \A x, y \in among : value[x] = value[y] => x = y

\* Numbers that some set has have a least one.
LEMMA LeastNumber ==
    ASSUME NEW T \in SUBSET Nat, T # {}
    PROVE  \E n \in T : \A m \in T : n <= m
<1> DEFINE R == {pair \in Nat \X Nat : pair[1] < pair[2]}
<1>1. IsWellFoundedOn(R, Nat)
  BY NatLessThanWellFounded, Zenon DEF OpToRel
<1>2. PICK n \in T : \A m \in T : ~(<<m, n>> \in R)
  <2> HIDE DEF R
  <2> QED
    BY <1>1, WFMin
<1>3. \A m \in T : ~(m < n)
  <2> SUFFICES ASSUME NEW m \in T, m < n PROVE FALSE
    OBVIOUS
  <2>1. <<m, n>> \in R
    OBVIOUS
  <2> HIDE DEF R
  <2> QED
    BY <1>2, <2>1
<1>4. \A m \in T : n <= m
  BY <1>3
<1> QED
  BY <1>4

\* The member of the least value goes last.
LEMMA FallingJoined ==
    ASSUME NEW among, IsFiniteSet(among), NEW value, Valued(among, value),
           NEW x \in among, \A y \in among : value[x] <= value[y],
           NEW s, Falling(s, among \ {x}, value)
    PROVE  \E t : Falling(t, among, value)
<1> DEFINE n == Cardinality(among)
           t == [i \in 1 .. n |-> IF i = n THEN x ELSE s[i]]
<1>1. n \in Nat /\ n > 0 /\ Cardinality(among \ {x}) = n - 1
  BY FS_CardinalityType, FS_RemoveElement, FS_EmptySet
<1>2. s \in [1 .. n - 1 -> among \ {x}]
  BY <1>1 DEF Falling
<1>3. ASSUME NEW i \in 1 .. n, i # n PROVE t[i] = s[i] /\ s[i] \in among \ {x}
  BY <1>1, <1>2, <1>3
<1>4. t[n] = x /\ DOMAIN t = 1 .. n
  BY <1>1
<1>5. t \in [1 .. n -> among]
  BY <1>1, <1>3
<1>6. ASSUME NEW i \in 1 .. n, NEW j \in 1 .. n, i < j PROVE value[t[i]] > value[t[j]]
  <2>1. i # n /\ t[i] = s[i] /\ s[i] \in among \ {x}
    BY <1>1, <1>3, <1>6
  <2>2. CASE j = n
    BY <1>4, <2>1, <2>2 DEF Valued
  <2>3. CASE j # n
    <3>1. t[j] = s[j] /\ i \in 1 .. n - 1 /\ j \in 1 .. n - 1
      BY <1>1, <1>3, <1>6, <2>3
    <3> QED
      BY <1>1, <1>6, <2>1, <3>1 DEF Falling
  <2> QED
    BY <2>2, <2>3
<1>7. Falling(t, among, value)
  <2> HIDE DEF t
  <2> QED
    BY <1>5, <1>6 DEF Falling
<1> QED
  BY <1>7

LEMMA FallingExists ==
    ASSUME NEW all, IsFiniteSet(all), NEW value, Valued(all, value)
    PROVE  \E s : Falling(s, all, value)
<1> DEFINE Bad(among) == among \in SUBSET all /\ ~\E s : Falling(s, among, value)
           T == {Cardinality(among) : among \in {b \in SUBSET all : Bad(b)}}
<1> SUFFICES ASSUME Bad(all) PROVE FALSE
  OBVIOUS
<1>1. \A among \in SUBSET all : IsFiniteSet(among) /\ Cardinality(among) \in Nat /\ Valued(among, value)
  BY FS_Subset, FS_CardinalityType DEF Valued
<1>2. T \in SUBSET Nat /\ T # {}
  BY <1>1
<1>3. PICK n \in T : \A m \in T : n <= m
  <2> HIDE DEF T
  <2> QED
    BY <1>2, LeastNumber
<1>4. PICK among \in SUBSET all : Bad(among) /\ n = Cardinality(among)
  OBVIOUS
<1>5. \A fewer \in SUBSET all : Cardinality(fewer) < n => ~Bad(fewer)
  <2> SUFFICES ASSUME NEW fewer \in SUBSET all, Cardinality(fewer) < n, Bad(fewer) PROVE FALSE
    OBVIOUS
  <2>1. Cardinality(fewer) \in T /\ Cardinality(fewer) \in Nat /\ n \in Nat
    BY <1>1, <1>4
  <2> QED
    BY <1>3, <2>1
<1>6. CASE among = {}
  <2>1. Cardinality(among) = 0
    BY <1>6, FS_EmptySet
  <2>2. Falling([i \in 1 .. 0 |-> 0], among, value)
    BY <1>6, <2>1 DEF Falling
  <2> QED
    BY <1>4, <2>2
<1>7. CASE among # {}
  <2> DEFINE V == {value[y] : y \in among}
  <2>1. V \in SUBSET Nat /\ V # {}
    BY <1>1, <1>7 DEF Valued
  <2>2. PICK v \in V : \A w \in V : v <= w
    <3> HIDE DEF V
    <3> QED
      BY <2>1, LeastNumber
  <2>3. PICK x \in among : v = value[x]
    OBVIOUS
  <2>4. \A y \in among : value[x] <= value[y]
    BY <2>2, <2>3
  <2>5. among \ {x} \in SUBSET all /\ Cardinality(among \ {x}) < n
    BY <1>1, <1>4, FS_RemoveElement
  <2>6. PICK s : Falling(s, among \ {x}, value)
    BY <1>5, <2>5
  <2>7. \E t : Falling(t, among, value)
    <3> HIDE DEF Bad
    <3> QED
      BY <1>1, <2>4, <2>6, FallingJoined
  <2> QED
    BY <1>4, <2>7
<1> QED
  BY <1>6, <1>7

Distinct(list) == \A i, j \in DOMAIN list : list[i] = list[j] => i = j

\* Sorted lists every member of a set once, by falling value.
LEMMA SortedLists ==
    ASSUME NEW among, IsFiniteSet(among), NEW value, Valued(among, value)
    PROVE  /\ Falling(Sorted(among, value), among, value)
           /\ Sorted(among, value) \in Seq(among)
           /\ Len(Sorted(among, value)) = Cardinality(among)
           /\ Distinct(Sorted(among, value))
           /\ Members(Sorted(among, value)) = among
<1> DEFINE n == Cardinality(among)
           s == Sorted(among, value)
<1>1. n \in Nat
  BY FS_CardinalityType
<1>2. Falling(s, among, value)
  BY FallingExists DEF Falling, Sorted
<1> HIDE DEF s
<1>3. s \in [1 .. n -> among] /\ s \in Seq(among) /\ Len(s) = n /\ DOMAIN s = 1 .. n
  BY <1>1, <1>2 DEF Falling
<1>4. ASSUME NEW i \in 1 .. n, NEW j \in 1 .. n, s[i] = s[j] PROVE i = j
  <2>1. s[i] \in among /\ value[s[i]] \in Nat
    BY <1>3 DEF Valued
  <2>2. ~(i < j) /\ ~(j < i)
    BY <1>2, <1>4, <2>1 DEF Falling
  <2> QED
    BY <1>1, <2>2
<1>5. Distinct(s)
  BY <1>3, <1>4 DEF Distinct
<1>6. s \in Injection(1 .. n, among)
  BY <1>3, <1>4 DEF Injection, IsInjective
<1>7. IsFiniteSet(1 .. n) /\ Cardinality(1 .. n) = n
  BY <1>1, FS_Interval
<1>8. s \in Surjection(1 .. n, among)
  BY <1>6, <1>7, FS_Injection
<1>9. Members(s) = among
  BY <1>3, <1>8 DEF Members, Surjection
<1> QED
  BY <1>2, <1>3, <1>5, <1>9 DEF s

\* Those keeps the members of a list that are in a set, each once if the list has it once.
LEMMA ThoseKept ==
    ASSUME NEW S, NEW list \in Seq(S), Distinct(list), NEW some
    PROVE  /\ Those(list, some) \in Seq(S)
           /\ Len(Those(list, some)) <= Len(list)
           /\ Distinct(Those(list, some))
           /\ Members(Those(list, some)) = Members(list) \cap some
<1> DEFINE places == {i \in DOMAIN list : list[i] \in some}
           value == [i \in DOMAIN list |-> Len(list) - i]
           order == Sorted(places, value)
           those == [m \in DOMAIN order |-> list[order[m]]]
<1>1. Those(list, some) = those
  BY DEF Those
<1>2. DOMAIN list = 1 .. Len(list) /\ Len(list) \in Nat
  OBVIOUS
<1>3. IsFiniteSet(DOMAIN list) /\ Cardinality(DOMAIN list) = Len(list)
  BY <1>2, FS_Interval
<1>4. places \in SUBSET DOMAIN list /\ IsFiniteSet(places) /\ Cardinality(places) <= Len(list)
  BY <1>3, FS_Subset
<1>5. Valued(places, value)
  BY <1>2 DEF Valued
<1>6. \A i \in places : i \in DOMAIN list /\ list[i] \in some /\ list[i] \in S
  OBVIOUS
<1>7. \A i \in DOMAIN list : list[i] \in some => i \in places
  OBVIOUS
<1> HIDE DEF places, value
<1>8. /\ order \in Seq(places) /\ Len(order) = Cardinality(places)
      /\ Distinct(order) /\ Members(order) = places
  BY <1>4, <1>5, SortedLists
<1>9. those \in Seq(S) /\ Len(those) = Len(order) /\ DOMAIN those = DOMAIN order
  <2> HIDE DEF order
  <2>1. DOMAIN order = 1 .. Len(order) /\ Len(order) \in Nat /\ \A m \in DOMAIN order : order[m] \in places
    BY <1>8
  <2> QED
    BY <1>6, <2>1
<1>10. \A m \in DOMAIN order : those[m] = list[order[m]] /\ order[m] \in places
  <2> HIDE DEF order
  <2> QED
    BY <1>8
<1> HIDE DEF those, order
<1>11. Distinct(those)
  BY <1>6, <1>8, <1>9, <1>10 DEF Distinct
<1>12. Members(those) = Members(list) \cap some
  <2>1. ASSUME NEW x \in Members(those) PROVE x \in Members(list) \cap some
    BY <1>6, <1>9, <1>10 DEF Members
  <2>2. ASSUME NEW x \in Members(list) \cap some PROVE x \in Members(those)
    <3>1. PICK i \in DOMAIN list : x = list[i]
      BY DEF Members
    <3>2. i \in Members(order)
      BY <1>7, <1>8, <3>1
    <3> QED
      BY <1>9, <1>10, <3>1, <3>2 DEF Members
  <2> QED
    BY <2>1, <2>2
<1> QED
  BY <1>1, <1>4, <1>8, <1>9, <1>11, <1>12

LEMMA CutKept ==
    ASSUME NEW S, NEW list \in Seq(S), Distinct(list), NEW limit \in Nat
    PROVE  /\ Cut(list, limit) \in Seq(S) /\ Distinct(Cut(list, limit))
           /\ Len(Cut(list, limit)) <= limit
           /\ Members(Cut(list, limit)) \subseteq Members(list)
           /\ limit # 0 => (Cut(list, limit) = <<>> <=> list = <<>>)
           /\ Cut(list, limit) # <<>> => Cut(list, limit)[1] = list[1]
<1> DEFINE n == IF Len(list) < limit THEN Len(list) ELSE limit
           cut == SubSeq(list, 1, n)
<1>1. n \in Nat /\ n <= Len(list) /\ n <= limit /\ (limit # 0 => (n = 0 <=> Len(list) = 0))
  OBVIOUS
<1>2. Cut(list, limit) = cut
  BY DEF Cut
<1> HIDE DEF n
<1>3. cut \in Seq(S) /\ Len(cut) = n /\ \A i \in 1 .. n : cut[i] = list[i]
  BY <1>1
<1> HIDE DEF cut
<1>4. Distinct(cut) /\ Members(cut) \subseteq Members(list)
  <2>1. DOMAIN cut = 1 .. n /\ DOMAIN list = 1 .. Len(list) /\ \A i \in 1 .. n : i \in DOMAIN list
    BY <1>1, <1>3
  <2> QED
    BY <1>3, <2>1 DEF Distinct, Members
<1>5. (cut = <<>> <=> n = 0) /\ (cut # <<>> => cut[1] = list[1])
  BY <1>1, <1>3
<1> QED
  BY <1>1, <1>2, <1>3, <1>4, <1>5

-----------------------------------------------------------------------------
(* The answer over all posts. *)

AskFields == {"pc", "cutoff", "verify", "ids", "anchor", "near", "rows", "public", "bodies", "facts",
              "cited", "sent", "drawn", "pictures"}

ListOK(list) == list \in Seq(Asked) /\ Distinct(list) /\ Len(list) <= AskLimit

AskShape ==
    /\ AskFields \subseteq DOMAIN ask
    /\ ListOK(ask.ids) /\ ListOK(ask.rows) /\ ask.near \subseteq Asked
    /\ kept \in [Asked -> {1, 2, Unkept}] /\ stated \subseteq Facts /\ changes \in 0 .. MaxChanges

\* The best match comes first in what was found, and may be seen if nothing has changed.
AnchorLeads ==
    /\ ask.pc \in {"expand", "rows"} =>
           /\ ask.ids = <<>> => ask.anchor = NoPost
           /\ ask.ids # <<>> => ask.anchor = ask.ids[1]
           /\ changes = 0 /\ ask.ids # <<>> => Answerable(ask.anchor)
    /\ ask.pc \in {"revisions", "semantic", "graph", "answer"} /\ changes = 0 /\ ask.ids # <<>> =>
           ask.anchor \in Members(ask.rows)

\* What a step has not read yet is empty.
NotYet ==
    /\ ask.pc \in {"idle", "search", "search_both", "expand", "rows"} => ask.rows = <<>>
    /\ ask.pc \in {"idle", "search", "search_both", "expand", "rows", "revisions", "semantic"} =>
           ask.facts = {}
    /\ ask.pc \notin {"verify", "draw", "pictures", "done"} => ask.cited = {}

\* A fact stands under a source that evidences it, and relates sources.
FactStands(e) ==
    /\ e[1] \in Members(ask.rows) \cap e[2].on /\ e[2].ends \subseteq Members(ask.rows)
    /\ ask.cutoff => e[2].early /\ e[2].kind = "project"

PastOnly ==
    ask.cutoff =>
        /\ ask.near = {} /\ ask.drawn = {} /\ ask.pictures = {}
        /\ ask.pc \notin {"draw", "pictures"}
        /\ ask.pc # "revisions" => \A p \in Usable : ask.bodies[p] = 2 => kept[p] = 2

GroundedInv ==
    /\ AskShape /\ AnchorLeads /\ NotYet /\ PastOnly
    /\ \A e \in ask.facts : FactStands(e)
    /\ ask.cited \subseteq Usable

LEMMA GroundedInvSound == GroundedInv => AnswerTypeOK /\ AnswerIsGrounded
<1> SUFFICES ASSUME GroundedInv PROVE AnswerTypeOK /\ AnswerIsGrounded
  OBVIOUS
<1>1. Members(ask.rows) \subseteq Asked
  BY DEF GroundedInv, AskShape, ListOK, Members
<1>2. AnswerTypeOK
  BY <1>1 DEF GroundedInv, AskShape, ListOK, Distinct, Usable, AnswerTypeOK
<1>3. NotedAsNeighbour # {} => ask.anchor \in Members(ask.rows)
  BY DEF NotedAsNeighbour
<1>4. ask.cutoff => NotedAsNeighbour = {}
  BY DEF NotedAsNeighbour, GroundedInv, PastOnly
<1>5. AnswerIsGrounded
  BY <1>3, <1>4 DEF GroundedInv, AnchorLeads, FactStands, PastOnly, AnswerIsGrounded
<1> QED
  BY <1>2, <1>5

LEMMA EmptyListOK == ListOK(<<>>) /\ Members(<<>>) = {}
BY AskBounds DEF ListOK, Distinct, Members

LEMMA GroundedInvInit == AnswerInit => GroundedInv
BY EmptyListOK, AskBounds DEF AnswerInit, Empty, AskFields, GroundedInv, AskShape, AnchorLeads, NotYet,
    FactStands, PastOnly, Usable

\* What a computation does, it does alone.
LEMMA Going ==
    ASSUME NEW asked, Goes(asked)
    PROVE  ask' = asked /\ UNCHANGED <<posting, kept, stated, timeline, changes>>
BY DEF Goes

LEMMA AnswerableAlike ==
    ASSUME ask'.cutoff = ask.cutoff, posting' = posting
    PROVE  \A p \in Asked : Answerable(p)' <=> Answerable(p)
BY DEF Answerable, Seen

LEMMA BeginGrounds ==
    ASSUME GroundedInv, Begin
    PROVE  GroundedInv'
<1>1. PICK cutoff, verify, vector \in BOOLEAN :
          ask' = [Empty EXCEPT !.pc = IF vector THEN "search_both" ELSE "search",
                          !.cutoff = cutoff, !.verify = verify]
  BY DEF Begin, Goes
<1>2. UNCHANGED <<kept, stated, changes>>
  BY DEF Begin, Goes
<1>3. /\ AskFields \subseteq DOMAIN ask' /\ ask'.ids = <<>> /\ ask'.rows = <<>> /\ ask'.near = {}
      /\ ask'.facts = {} /\ ask'.cited = {} /\ ask'.drawn = {} /\ ask'.pictures = {}
      /\ ask'.pc \in {"search", "search_both"}
  BY <1>1 DEF Empty, AskFields
<1>4. AskShape'
  BY <1>2, <1>3, EmptyListOK DEF GroundedInv, AskShape
<1>5. Usable' = {}
  BY <1>3, EmptyListOK DEF Usable, Members
<1> QED
  BY <1>3, <1>4, <1>5 DEF GroundedInv, AnchorLeads, NotYet, PastOnly, FactStands

\* A list of posts that may be answered from.
FromAnswerable(list) ==
    list \in Seq(Asked) /\ Distinct(list) /\ \A p \in Members(list) : Answerable(p)

LEMMA CandidatesOK ==
    /\ FromAnswerable(EmbeddingCandidates)
    /\ \A matching \in SUBSET Asked : FromAnswerable(EvidenceCandidates(matching))
<1>1. ASSUME NEW among \in SUBSET Asked, NEW value, Valued(among, value), \A p \in among : Answerable(p)
      PROVE  FromAnswerable(Cut(Sorted(among, value), AskLimit))
  <2>1. IsFiniteSet(among)
    BY AskOrders, FS_Subset
  <2>2. /\ Sorted(among, value) \in Seq(among) /\ Distinct(Sorted(among, value))
        /\ Members(Sorted(among, value)) = among
    BY <1>1, <2>1, SortedLists
  <2>3. PICK list : list = Sorted(among, value)
    OBVIOUS
  <2>4. list \in Seq(Asked) /\ Distinct(list) /\ Members(list) = among
    BY <2>2, <2>3
  <2> QED
    BY <1>1, <2>3, <2>4, CutKept, AskBounds DEF FromAnswerable
<1>2. FromAnswerable(EmbeddingCandidates)
  <2> DEFINE among == {p \in DOMAIN Similarity : Answerable(p)}
  <2>1. among \in SUBSET Asked /\ Valued(among, Similarity) /\ \A p \in among : Answerable(p)
    BY AskOrders DEF Valued
  <2> HIDE DEF among
  <2>2. FromAnswerable(Cut(Sorted(among, Similarity), AskLimit))
    BY <1>1, <2>1
  <2> QED
    BY <2>2 DEF EmbeddingCandidates, among
<1>3. ASSUME NEW matching \in SUBSET Asked PROVE FromAnswerable(EvidenceCandidates(matching))
  <2> DEFINE among == {p \in matching : Answerable(p) /\ Evidenced(p)}
  <2>1. among \in SUBSET Asked /\ Valued(among, EventClock) /\ \A p \in among : Answerable(p)
    BY AskOrders DEF Valued
  <2> HIDE DEF among
  <2>2. FromAnswerable(Cut(Sorted(among, EventClock), AskLimit))
    BY <1>1, <2>1
  <2> QED
    BY <2>2 DEF EvidenceCandidates, among
<1> QED
  BY <1>2, <1>3

LEMMA FusionsOK ==
    ASSUME NEW left, FromAnswerable(left), NEW right, FromAnswerable(right), NEW fused \in Fusions(left, right)
    PROVE  FromAnswerable(fused)
<1> DEFINE all == Members(left) \cup Members(right)
<1>1. all \in SUBSET Asked /\ \A p \in all : Answerable(p)
  BY DEF FromAnswerable, Members
<1>2. IsFiniteSet(all) /\ Cardinality(all) \in Nat
  BY <1>1, AskOrders, FS_Subset, FS_CardinalityType
<1>3. \/ fused \in {left, right}
      \/ fused \in [1 .. Cardinality(all) -> all] /\ \A i, j \in DOMAIN fused : i < j => fused[i] # fused[j]
  BY Zenon DEF Fusions
<1>4. CASE /\ fused \in [1 .. Cardinality(all) -> all]
           /\ \A i, j \in DOMAIN fused : i < j => fused[i] # fused[j]
  <2> HIDE DEF all
  <2>1. fused \in Seq(Asked) /\ DOMAIN fused = 1 .. Cardinality(all) /\ Members(fused) \subseteq all
    BY <1>1, <1>2, <1>4 DEF Members
  <2>2. Distinct(fused)
    BY <1>2, <1>4, <2>1 DEF Distinct
  <2> QED
    BY <1>1, <2>1, <2>2 DEF FromAnswerable
<1> QED
  BY <1>3, <1>4

LEMMA SearchGrounds ==
    ASSUME GroundedInv, Search
    PROVE  GroundedInv'
<1> DEFINE left == IF ask.pc = "search_both" THEN EmbeddingCandidates ELSE <<>>
<1>1. PICK matching \in SUBSET Asked : \E fused \in Fusions(left, EvidenceCandidates(matching)) :
          Goes([ask EXCEPT !.pc = "expand", !.ids = Cut(fused, AskLimit),
                           !.anchor = IF fused = <<>> THEN NoPost ELSE fused[1]])
  BY DEF Search
<1>2. PICK fused \in Fusions(left, EvidenceCandidates(matching)) :
          Goes([ask EXCEPT !.pc = "expand", !.ids = Cut(fused, AskLimit),
                           !.anchor = IF fused = <<>> THEN NoPost ELSE fused[1]])
  BY <1>1
<1>3. FromAnswerable(left) /\ FromAnswerable(EvidenceCandidates(matching))
  <2>1. FromAnswerable(<<>>)
    BY DEF FromAnswerable, Distinct, Members
  <2> QED
    BY <2>1, CandidatesOK
<1> HIDE DEF left
<1>4. FromAnswerable(fused)
  BY <1>3, FusionsOK
<1>5. PICK ids : ids = Cut(fused, AskLimit)
  OBVIOUS
<1>6. /\ ids \in Seq(Asked) /\ Distinct(ids) /\ Len(ids) <= AskLimit
      /\ Members(ids) \subseteq Members(fused) /\ (ids = <<>> <=> fused = <<>>)
      /\ ids # <<>> => ids[1] = fused[1]
  BY <1>4, <1>5, CutKept, AskBounds DEF FromAnswerable
<1>7. PICK anchor : anchor = IF fused = <<>> THEN NoPost ELSE fused[1]
  OBVIOUS
<1>8. ask' = [ask EXCEPT !.pc = "expand", !.ids = ids, !.anchor = anchor]
      /\ UNCHANGED <<posting, kept, stated, changes>>
  BY <1>2, <1>5, <1>7 DEF Goes
<1>9. /\ AskFields \subseteq DOMAIN ask' /\ ask'.pc = "expand" /\ ask'.ids = ids /\ ask'.anchor = anchor
      /\ ask'.cutoff = ask.cutoff /\ ask'.near = ask.near /\ ask'.rows = ask.rows
      /\ ask'.facts = ask.facts /\ ask'.cited = ask.cited /\ ask'.drawn = ask.drawn
      /\ ask'.pictures = ask.pictures /\ ask'.bodies = ask.bodies
  BY <1>8 DEF AskFields, GroundedInv, AskShape
<1>10. ask.pc \in {"search", "search_both"} /\ ask.rows = <<>> /\ ask.facts = {} /\ ask.cited = {}
  BY DEF Search, GroundedInv, NotYet
<1>11. AskShape'
  BY <1>6, <1>8, <1>9 DEF GroundedInv, AskShape, ListOK
<1>12. AnchorLeads'
  <2>1. ids # <<>> => anchor = ids[1] /\ Answerable(anchor) /\ anchor \in Asked
    BY <1>4, <1>6, <1>7 DEF FromAnswerable, Members
  <2>2. ids = <<>> => anchor = NoPost
    BY <1>6, <1>7
  <2> QED
    BY <1>8, <1>9, <2>1, <2>2, AnswerableAlike DEF AnchorLeads
<1>13. Usable' = {}
  BY <1>9, <1>10, EmptyListOK DEF Usable
<1> QED
  BY <1>9, <1>10, <1>11, <1>12, <1>13 DEF GroundedInv, NotYet, PastOnly, FactStands

\* The best match, its neighbours and the other candidates, each once.
LEMMA ExpandedOK ==
    ASSUME NEW ids, ListOK(ids), ids # <<>>, NEW near \in SUBSET (Asked \ Members(ids))
    PROVE  LET all == <<ids[1]>> \o Sorted(near, IdRank) \o Tail(ids) IN
           all \in Seq(Asked) /\ Distinct(all) /\ all # <<>> /\ all[1] = ids[1]
<1> DEFINE s == Sorted(near, IdRank)
           all == <<ids[1]>> \o s \o Tail(ids)
<1>1. IsFiniteSet(near) /\ Valued(near, IdRank)
  BY AskOrders, FS_Subset DEF Valued
<1>2. s \in Seq(near) /\ Distinct(s) /\ Members(s) = near
  BY <1>1, SortedLists
<1> HIDE DEF s
<1>3. ids \in Seq(Asked) /\ Distinct(ids) /\ Len(ids) \in Nat /\ Len(ids) >= 1 /\ Len(s) \in Nat
      /\ s \in Seq(Asked)
  BY <1>2 DEF ListOK
<1>4. /\ all \in Seq(Asked) /\ Len(all) = Len(ids) + Len(s)
      /\ \A i \in 1 .. Len(ids) + Len(s) : all[i] =
            IF i = 1 THEN ids[1] ELSE IF i <= Len(s) + 1 THEN s[i - 1] ELSE ids[i - Len(s)]
  BY <1>3
<1>5. \A i \in 1 .. Len(ids) : ids[i] \notin near
  BY <1>3 DEF Members
<1>6. \A i \in 1 .. Len(s) : s[i] \in near
  BY <1>2
<1>7. ASSUME NEW i \in 1 .. Len(ids) + Len(s), NEW j \in 1 .. Len(ids) + Len(s), all[i] = all[j]
      PROVE  i = j
  <2> DEFINE Mid(k) == k # 1 /\ k <= Len(s) + 1
             Idx(k) == IF k = 1 THEN 1 ELSE k - Len(s)
  <2>1. ASSUME NEW k \in 1 .. Len(ids) + Len(s)
        PROVE  IF Mid(k) THEN k - 1 \in 1 .. Len(s) /\ all[k] = s[k - 1]
                         ELSE Idx(k) \in 1 .. Len(ids) /\ all[k] = ids[Idx(k)]
    <3> HIDE DEF all
    <3> QED
      BY <1>3, <1>4
  <2>2. Mid(i) <=> Mid(j)
    BY <1>5, <1>6, <1>7, <2>1
  <2>3. CASE Mid(i)
    <3>1. i - 1 = j - 1
      BY <1>2, <1>3, <1>7, <2>1, <2>2, <2>3 DEF Distinct
    <3> QED
      BY <1>3, <3>1
  <2>4. CASE ~Mid(i)
    <3>1. Idx(i) = Idx(j)
      BY <1>3, <1>7, <2>1, <2>2, <2>4 DEF Distinct
    <3> QED
      BY <1>3, <2>2, <2>4, <3>1
  <2> QED
    BY <2>3, <2>4
<1>8. all # <<>> /\ all[1] = ids[1] /\ DOMAIN all = 1 .. Len(ids) + Len(s)
  BY <1>3, <1>4
<1>9. Distinct(all)
  <2> HIDE DEF all
  <2> QED
    BY <1>7, <1>8 DEF Distinct
<1> QED
  BY <1>4, <1>8, <1>9 DEF s

LEMMA ExpandGrounds ==
    ASSUME GroundedInv, Expand
    PROVE  GroundedInv'
<1>1. /\ ask.pc = "expand" /\ AskFields \subseteq DOMAIN ask /\ ask.rows = <<>> /\ ask.facts = {}
      /\ ask.cited = {} /\ ListOK(ask.ids) /\ UNCHANGED <<posting, kept, stated, changes>>
  BY DEF Expand, Goes, GroundedInv, AskShape, NotYet
<1>2. ASSUME NEW ids, ListOK(ids), ids = <<>> <=> ask.ids = <<>>,
             ids # <<>> => ids[1] = ask.ids[1],
             NEW near \in SUBSET Asked, ask.cutoff => near = {},
             ask' = [ask EXCEPT !.pc = "rows", !.near = near, !.ids = ids]
      PROVE  GroundedInv'
  <2>1. /\ AskFields \subseteq DOMAIN ask' /\ ask'.pc = "rows" /\ ask'.ids = ids /\ ask'.near = near
        /\ ask'.anchor = ask.anchor /\ ask'.cutoff = ask.cutoff /\ ask'.rows = ask.rows
        /\ ask'.facts = ask.facts /\ ask'.cited = ask.cited /\ ask'.drawn = ask.drawn
        /\ ask'.pictures = ask.pictures
    BY <1>1, <1>2 DEF AskFields
  <2>2. AskShape'
    BY <1>1, <1>2, <2>1 DEF GroundedInv, AskShape
  <2>3. AnchorLeads'
    <3>1. ids # <<>> => ask.anchor \in Asked
      BY <1>1, <1>2 DEF GroundedInv, AnchorLeads, ListOK
    <3> QED
      BY <1>1, <1>2, <2>1, <3>1, AnswerableAlike DEF GroundedInv, AnchorLeads
  <2>4. Usable' = {}
    BY <1>1, <2>1, EmptyListOK DEF Usable
  <2> QED
    BY <1>1, <1>2, <2>1, <2>2, <2>3, <2>4 DEF GroundedInv, NotYet, PastOnly, FactStands
<1>3. CASE ask.cutoff \/ ask.anchor = NoPost
  <2>1. ask' = [ask EXCEPT !.pc = "rows"]
    BY <1>3 DEF Expand, Goes
  <2>2. ask' = [ask EXCEPT !.pc = "rows", !.near = ask.near, !.ids = ask.ids]
    BY <1>1, <2>1 DEF AskFields
  <2>3. ask.near \in SUBSET Asked /\ (ask.cutoff => ask.near = {})
    BY DEF GroundedInv, AskShape, PastOnly
  <2> QED
    BY <1>1, <1>2, <2>2, <2>3
<1>4. CASE ~(ask.cutoff \/ ask.anchor = NoPost)
  <2> DEFINE near == NeighboursOf(ask.anchor) \ Members(ask.ids)
             all == <<ask.anchor>> \o Sorted(near, IdRank) \o Tail(ask.ids)
  <2>1. ask' = [ask EXCEPT !.pc = "rows", !.near = near, !.ids = Cut(all, AskLimit)]
    BY <1>4 DEF Expand, Goes
  <2>2. near \in SUBSET (Asked \ Members(ask.ids)) /\ near \in SUBSET Asked
    BY DEF NeighboursOf
  <2>3. ask.ids # <<>> /\ ask.anchor = ask.ids[1]
    BY <1>1, <1>4 DEF GroundedInv, AnchorLeads
  <2> HIDE DEF near
  <2>4. all \in Seq(Asked) /\ Distinct(all) /\ all # <<>> /\ all[1] = ask.ids[1]
    BY <1>1, <2>2, <2>3, ExpandedOK
  <2> HIDE DEF all
  <2>5. PICK ids : ids = Cut(all, AskLimit)
    OBVIOUS
  <2>6. ListOK(ids) /\ ids # <<>> /\ ids[1] = ask.ids[1]
    BY <2>4, <2>5, CutKept, AskBounds DEF ListOK
  <2>7. ask' = [ask EXCEPT !.pc = "rows", !.near = near, !.ids = ids]
    BY <2>1, <2>5
  <2> QED
    BY <1>2, <1>4, <2>2, <2>3, <2>6, <2>7
<1> QED
  BY <1>3, <1>4

LEMMA ReadRowsGrounds ==
    ASSUME GroundedInv, ReadRows
    PROVE  GroundedInv'
<1> DEFINE some == {p \in Asked : Answerable(p)}
<1>1. PICK rows : rows = Those(ask.ids, some)
  OBVIOUS
<1>2. PICK to, public, bodies :
          /\ to = IF ask.cutoff THEN "revisions" ELSE "semantic"
          /\ ask' = [ask EXCEPT !.pc = to, !.rows = rows, !.public = public, !.bodies = bodies]
  BY <1>1 DEF ReadRows, Goes
<1>3. /\ ask.pc = "rows" /\ AskFields \subseteq DOMAIN ask /\ ask.facts = {} /\ ask.cited = {}
      /\ ListOK(ask.ids) /\ UNCHANGED <<posting, kept, stated, changes>>
  BY DEF ReadRows, Goes, GroundedInv, AskShape, NotYet
<1>4. /\ AskFields \subseteq DOMAIN ask' /\ ask'.pc = to /\ ask'.ids = ask.ids /\ ask'.near = ask.near
      /\ ask'.anchor = ask.anchor /\ ask'.cutoff = ask.cutoff /\ ask'.rows = rows
      /\ ask'.facts = ask.facts /\ ask'.cited = ask.cited /\ ask'.drawn = ask.drawn
      /\ ask'.pictures = ask.pictures
  BY <1>2, <1>3 DEF AskFields
<1>5. ListOK(rows) /\ Members(rows) = Members(ask.ids) \cap some
  <2> HIDE DEF some
  <2>1. ask.ids \in Seq(Asked) /\ Distinct(ask.ids) /\ Len(ask.ids) <= AskLimit /\ Len(ask.ids) \in Nat
    BY <1>3 DEF ListOK
  <2>2. /\ Those(ask.ids, some) \in Seq(Asked) /\ Len(Those(ask.ids, some)) <= Len(ask.ids)
        /\ Distinct(Those(ask.ids, some)) /\ Members(Those(ask.ids, some)) = Members(ask.ids) \cap some
    BY <2>1, ThoseKept
  <2>3. Len(rows) \in Nat
    BY <1>1, <2>2
  <2> QED
    BY <1>1, <2>1, <2>2, <2>3, AskBounds DEF ListOK
<1>6. AskShape'
  BY <1>3, <1>4, <1>5 DEF GroundedInv, AskShape
<1>7. AnchorLeads'
  <2>1. changes = 0 /\ ask.ids # <<>> => ask.anchor \in Members(rows)
    <3> SUFFICES ASSUME changes = 0, ask.ids # <<>> PROVE ask.anchor \in Members(rows)
      OBVIOUS
    <3>1. ask.anchor = ask.ids[1] /\ Answerable(ask.anchor)
      BY <1>3 DEF GroundedInv, AnchorLeads
    <3>2. ask.anchor \in Members(ask.ids) /\ ask.anchor \in Asked
      BY <1>3, <3>1 DEF ListOK, Members
    <3> QED
      BY <1>5, <3>1, <3>2
  <2> QED
    BY <1>2, <1>3, <1>4, <2>1 DEF AnchorLeads
<1>8. ask'.cutoff => ask'.pc = "revisions"
  BY <1>2, <1>4
<1> QED
  BY <1>2, <1>3, <1>4, <1>6, <1>7, <1>8 DEF GroundedInv, NotYet, PastOnly, FactStands

\* Rows, scope, window and changes stay: only what is named may differ.
LEMMA AfterRows ==
    ASSUME GroundedInv, AskFields \subseteq DOMAIN ask', UNCHANGED <<posting, kept, stated, changes>>,
           ask'.ids = ask.ids, ask'.near = ask.near, ask'.rows = ask.rows, ask'.anchor = ask.anchor,
           ask'.cutoff = ask.cutoff, ask.pc \in {"revisions", "semantic", "graph", "answer", "verify", "draw", "pictures"},
           ask'.pc \in {"semantic", "graph", "answer", "verify", "draw", "pictures", "done", "failed"},
           ask'.pc \in {"semantic", "graph", "answer"} => ask.pc \in {"revisions", "semantic", "graph", "answer"},
           ask'.pc = "semantic" => ask'.facts = {}, \A e \in ask'.facts : FactStands(e),
           ask'.pc \notin {"verify", "draw", "pictures", "done"} => ask'.cited = {},
           ask'.cited \subseteq Usable', PastOnly'
    PROVE  GroundedInv'
<1>1. AskShape'
  BY DEF GroundedInv, AskShape
<1>2. AnchorLeads'
  BY DEF GroundedInv, AnchorLeads
<1>3. \A e \in ask'.facts : FactStands(e)'
  BY DEF FactStands
<1> QED
  BY <1>1, <1>2, <1>3 DEF GroundedInv, NotYet

LEMMA ReadRevisionsGrounds ==
    ASSUME GroundedInv, ReadRevisions
    PROVE  GroundedInv'
<1>1. /\ ask' = [ask EXCEPT !.pc = "semantic", !.bodies = [p \in Members(ask.rows) |-> kept[p]]]
      /\ UNCHANGED <<posting, kept, stated, changes>> /\ ask.pc = "revisions"
      /\ AskFields \subseteq DOMAIN ask /\ ask.facts = {} /\ ask.cited = {}
  BY DEF ReadRevisions, Goes, GroundedInv, AskShape, NotYet
<1>2. PICK bodies : bodies = [p \in Members(ask.rows) |-> kept[p]]
  OBVIOUS
<1>3. /\ AskFields \subseteq DOMAIN ask' /\ ask'.pc = "semantic" /\ ask'.ids = ask.ids /\ ask'.near = ask.near
      /\ ask'.anchor = ask.anchor /\ ask'.cutoff = ask.cutoff /\ ask'.rows = ask.rows
      /\ ask'.facts = ask.facts /\ ask'.cited = ask.cited /\ ask'.drawn = ask.drawn
      /\ ask'.pictures = ask.pictures /\ ask'.bodies = bodies
  BY <1>1, <1>2 DEF AskFields
<1>4. PastOnly'
  <2>1. \A p \in Members(ask.rows) : bodies[p] = kept[p]
    BY <1>2
  <2> QED
    BY <1>1, <1>3, <2>1 DEF GroundedInv, PastOnly, Usable
<1> QED
  BY <1>1, <1>3, <1>4, AfterRows

\* Facts join, all else stays.
LEMMA FactsGround ==
    ASSUME GroundedInv, UNCHANGED <<posting, kept, stated, changes>>, NEW facts, NEW to,
           \/ ask.pc = "semantic" /\ to = "graph"
           \/ ask.pc = "graph" /\ to = "answer",
           ask' = [ask EXCEPT !.pc = to, !.facts = facts], \A e \in facts : FactStands(e)
    PROVE  GroundedInv'
<1>1. AskFields \subseteq DOMAIN ask /\ ask.cited = {} /\ ask.pc \in {"semantic", "graph"} /\ to \in {"graph", "answer"}
  BY DEF GroundedInv, AskShape, NotYet
<1>2. /\ AskFields \subseteq DOMAIN ask' /\ ask'.pc = to /\ ask'.ids = ask.ids /\ ask'.near = ask.near
      /\ ask'.anchor = ask.anchor /\ ask'.cutoff = ask.cutoff /\ ask'.rows = ask.rows
      /\ ask'.facts = facts /\ ask'.cited = ask.cited /\ ask'.drawn = ask.drawn
      /\ ask'.pictures = ask.pictures /\ ask'.bodies = ask.bodies
  BY <1>1 DEF AskFields
<1>3. Usable' = Usable
  BY <1>2 DEF Usable
<1>4. PastOnly'
  BY <1>1, <1>2, <1>3 DEF GroundedInv, PastOnly
<1> QED
  BY <1>1, <1>2, <1>4, AfterRows

LEMMA ReadFactsGrounds ==
    ASSUME GroundedInv, ReadSemantic \/ ReadGraph
    PROVE  GroundedInv'
<1>1. stated \subseteq Facts
  BY DEF GroundedInv, AskShape
<1>2. CASE ReadSemantic
  <2> DEFINE facts == {e \in Members(ask.rows) \X stated :
                         /\ e[1] \in e[2].on /\ e[2].kind \in Semantic
                         /\ ask.cutoff => e[2].kind = "project" /\ e[2].early}
  <2>1. /\ ask.pc = "semantic" /\ ask' = [ask EXCEPT !.pc = "graph", !.facts = facts]
        /\ UNCHANGED <<posting, kept, stated, changes>>
    BY <1>2 DEF ReadSemantic, Goes
  <2>2. ASSUME NEW e \in facts PROVE FactStands(e)
    <3>1. e[2] \in Facts /\ e[2].kind \in Semantic
      BY <1>1
    <3>2. e[2].ends = {}
      BY <3>1, AskFacts DEF Semantic
    <3> QED
      BY <3>2 DEF FactStands
  <2> HIDE DEF facts
  <2> QED
    BY <2>1, <2>2, FactsGround
<1>3. CASE ReadGraph
  <2> DEFINE more == IF ask.cutoff THEN {}
                     ELSE UNION {{ask.rows[i]} \X Budgeted(i) : i \in DOMAIN ask.rows}
             facts == ask.facts \cup more
  <2>1. /\ ask.pc = "graph" /\ ask' = [ask EXCEPT !.pc = "answer", !.facts = facts]
        /\ UNCHANGED <<posting, kept, stated, changes>>
    BY <1>3 DEF ReadGraph, Goes
  <2>2. ASSUME NEW e \in more PROVE FactStands(e)
    <3>1. ~ask.cutoff
      OBVIOUS
    <3>2. PICK i \in DOMAIN ask.rows : e \in {ask.rows[i]} \X Budgeted(i)
      BY <3>1
    <3>3. e[1] = ask.rows[i] /\ e[2] \in GraphFacts(ask.rows[i])
      BY <3>2 DEF Budgeted, Foremost
    <3>4. e[1] \in e[2].on /\ e[2].ends \subseteq Members(ask.rows)
      BY <3>3 DEF GraphFacts, Evidences
    <3> QED
      BY <3>1, <3>3, <3>4 DEF FactStands, Members
  <2>3. \A e \in facts : FactStands(e)
    BY <2>2 DEF GroundedInv
  <2> HIDE DEF facts
  <2> QED
    BY <2>1, <2>3, FactsGround
<1> QED
  BY <1>2, <1>3

LEMMA AnswerGrounds ==
    ASSUME GroundedInv, Answer
    PROVE  GroundedInv'
<1>1. /\ ask.pc = "answer" /\ UNCHANGED <<posting, kept, stated, changes>>
      /\ AskFields \subseteq DOMAIN ask /\ ask.cited = {}
  BY DEF Answer, Goes, GroundedInv, AskShape, NotYet
<1>2. PICK to, cited :
          /\ ask' = [ask EXCEPT !.pc = to, !.cited = cited]
          /\ to \in {"done", "failed", "verify"} /\ cited \subseteq Usable
          /\ to = "failed" => cited = {}
  <2>1. CASE ask' = [ask EXCEPT !.pc = "done"] \/ ask' = [ask EXCEPT !.pc = "failed"]
    <3>1. \/ ask' = [ask EXCEPT !.pc = "done", !.cited = {}]
          \/ ask' = [ask EXCEPT !.pc = "failed", !.cited = {}]
      BY <1>1, <2>1 DEF AskFields
    <3> QED
      BY <3>1
  <2>2. ASSUME NEW numbers, ask' = [ask EXCEPT !.pc = "verify", !.cited = CitedBy(numbers)]
        PROVE  CitedBy(numbers) \subseteq Usable
    <3>1. Members(Numbered) \subseteq Usable
      BY ThoseKept DEF Numbered, GroundedInv, AskShape, ListOK
    <3> QED
      BY <3>1 DEF CitedBy, Members
  <2> QED
    BY <2>1, <2>2 DEF Answer, Goes
<1>3. /\ AskFields \subseteq DOMAIN ask' /\ ask'.pc = to /\ ask'.ids = ask.ids /\ ask'.near = ask.near
      /\ ask'.anchor = ask.anchor /\ ask'.cutoff = ask.cutoff /\ ask'.rows = ask.rows
      /\ ask'.facts = ask.facts /\ ask'.cited = cited /\ ask'.drawn = ask.drawn
      /\ ask'.pictures = ask.pictures /\ ask'.bodies = ask.bodies
  BY <1>1, <1>2 DEF AskFields
<1>4. Usable' = Usable
  BY <1>3 DEF Usable
<1>5. PastOnly'
  BY <1>1, <1>2, <1>3, <1>4 DEF GroundedInv, PastOnly
<1>6. \A e \in ask.facts : FactStands(e)
  BY DEF GroundedInv
<1> QED
  BY <1>1, <1>2, <1>3, <1>4, <1>5, <1>6, AfterRows

LEMMA OutputsGround ==
    ASSUME GroundedInv, Verify \/ Draw \/ Picture
    PROVE  GroundedInv'
<1>1. /\ UNCHANGED <<posting, kept, stated, changes>>
      /\ AskFields \subseteq DOMAIN ask /\ ask.pc \in {"verify", "draw", "pictures"}
      /\ ask.cited \subseteq Usable /\ \A e \in ask.facts : FactStands(e)
  BY DEF Verify, Draw, Picture, Goes, GroundedInv, AskShape
<1>2. PICK to, sent, drawn, pictures :
          /\ ask' = [ask EXCEPT !.pc = to, !.sent = sent, !.drawn = drawn, !.pictures = pictures]
          /\ to \in {"draw", "pictures", "done"}
          /\ ask.cutoff => to = "done" /\ drawn = ask.drawn /\ pictures = ask.pictures
  <2>1. CASE Verify
    <3>1. PICK sent : ask' = [ask EXCEPT !.pc = IF ask.cutoff THEN "done" ELSE "draw", !.sent = sent]
      BY <2>1 DEF Verify, Goes
    <3>2. PICK to : to = IF ask.cutoff THEN "done" ELSE "draw"
      OBVIOUS
    <3>3. ask' = [ask EXCEPT !.pc = to, !.sent = sent, !.drawn = ask.drawn, !.pictures = ask.pictures]
      BY <1>1, <3>1, <3>2 DEF AskFields
    <3> QED
      BY <3>2, <3>3
  <2>2. CASE Draw
    <3>1. PICK drawn : ask' = [ask EXCEPT !.pc = "pictures", !.drawn = drawn] /\ ask.pc = "draw"
      BY <2>2 DEF Draw, Goes
    <3>2. ask' = [ask EXCEPT !.pc = "pictures", !.sent = ask.sent, !.drawn = drawn, !.pictures = ask.pictures]
      BY <1>1, <3>1 DEF AskFields
    <3>3. ~ask.cutoff
      BY <3>1 DEF GroundedInv, PastOnly
    <3> QED
      BY <3>2, <3>3
  <2>3. CASE Picture
    <3>1. PICK pictures : ask' = [ask EXCEPT !.pc = "done", !.pictures = pictures] /\ ask.pc = "pictures"
      BY <2>3 DEF Picture, Goes
    <3>2. ask' = [ask EXCEPT !.pc = "done", !.sent = ask.sent, !.drawn = ask.drawn, !.pictures = pictures]
      BY <1>1, <3>1 DEF AskFields
    <3>3. ~ask.cutoff
      BY <3>1 DEF GroundedInv, PastOnly
    <3> QED
      BY <3>2, <3>3
  <2> QED
    BY <2>1, <2>2, <2>3
<1>3. /\ AskFields \subseteq DOMAIN ask' /\ ask'.pc = to /\ ask'.ids = ask.ids /\ ask'.near = ask.near
      /\ ask'.anchor = ask.anchor /\ ask'.cutoff = ask.cutoff /\ ask'.rows = ask.rows
      /\ ask'.facts = ask.facts /\ ask'.cited = ask.cited /\ ask'.drawn = drawn
      /\ ask'.pictures = pictures /\ ask'.bodies = ask.bodies
  BY <1>1, <1>2 DEF AskFields
<1>4. Usable' = Usable
  BY <1>3 DEF Usable
<1>5. PastOnly'
  BY <1>1, <1>2, <1>3, <1>4 DEF GroundedInv, PastOnly
<1> QED
  BY <1>1, <1>2, <1>3, <1>4, <1>5, AfterRows

\* What others do changes nothing that was read, and a text that was rewritten stays so.
LEMMA OthersGround ==
    ASSUME GroundedInv, ChangeSight \/ Rewrite \/ Restate \/ Relink
    PROVE  GroundedInv'
<1>1. /\ ask' = ask /\ changes' = changes + 1 /\ changes < MaxChanges
      /\ kept' = kept \/ \E p \in Asked : kept' = [kept EXCEPT ![p] = 2]
      /\ stated' = stated \/ \E f \in Facts : stated' \in {stated \ {f}, stated \cup {f}}
  BY DEF ChangeSight, Rewrite, Restate, Relink, Meanwhile
<1>2. /\ kept' \in [Asked -> {1, 2, Unkept}] /\ \A p \in Asked : kept[p] = 2 => kept'[p] = 2
      /\ stated' \subseteq Facts /\ changes' \in 0 .. MaxChanges /\ changes' # 0
  BY <1>1, AskBounds DEF GroundedInv, AskShape
<1>3. Usable' = Usable /\ Usable \subseteq Asked
  BY <1>1 DEF Usable, GroundedInv, AskShape, ListOK, Members
<1>4. PastOnly'
  BY <1>1, <1>2, <1>3 DEF GroundedInv, PastOnly
<1>5. AskShape' /\ AnchorLeads' /\ NotYet'
  BY <1>1, <1>2 DEF GroundedInv, AskShape, AnchorLeads, NotYet
<1>6. \A e \in ask'.facts : FactStands(e)'
  BY <1>1 DEF GroundedInv, FactStands
<1> QED
  BY <1>1, <1>3, <1>4, <1>5, <1>6 DEF GroundedInv

LEMMA GroundedInvStep == GroundedInv /\ [AnswerNext]_answerVars => GroundedInv'
<1> SUFFICES ASSUME GroundedInv, [AnswerNext]_answerVars PROVE GroundedInv'
  OBVIOUS
<1>1. CASE UNCHANGED answerVars
  <2>1. ask' = ask /\ kept' = kept /\ stated' = stated /\ changes' = changes /\ posting' = posting
    BY <1>1 DEF answerVars
  <2>2. /\ Usable' = Usable /\ \A e : FactStands(e)' <=> FactStands(e)
        /\ \A p : Answerable(p)' <=> Answerable(p)
    BY <2>1 DEF Usable, FactStands, Answerable, Seen
  <2> QED
    BY <2>1, <2>2 DEF GroundedInv, AskShape, AnchorLeads, NotYet, PastOnly
<1> QED
  BY <1>1, BeginGrounds, SearchGrounds, ExpandGrounds, ReadRowsGrounds, ReadRevisionsGrounds,
     ReadFactsGrounds, AnswerGrounds, OutputsGround, OthersGround DEF AnswerNext, ComputeStep

\* An answer rests on its sources: no fact stands under a source that does not evidence it or relates
\* what is no source, the best match is a source unless something changed, only sources with a body
\* are cited, and an answer about the past rests on facts and texts of that time: for every set of
\* posts and facts, every order and limit and whatever others change meanwhile
\* (gather_global_chat_sources, compute_global_ask_answer).
THEOREM AnswerGrounded == AnswerSpec => [](AnswerTypeOK /\ AnswerIsGrounded)
BY GroundedInvInit, GroundedInvStep, GroundedInvSound, PTL DEF AnswerSpec

\* Nothing has left the system before claims are verified, and what left may leave.
EgressInv ==
    /\ AskFields \subseteq DOMAIN ask
    /\ ask.sent # {} => ask.pc \in {"draw", "pictures", "done"}
    /\ EgressIsPublic

LEMMA EgressInvInit == AnswerInit => EgressInv
BY DEF AnswerInit, Empty, AskFields, EgressInv, EgressIsPublic

\* A computation that has sent nothing yet.
LEMMA NothingSent ==
    ASSUME AskFields \subseteq DOMAIN ask', ask'.sent = {}
    PROVE  EgressInv'
BY DEF EgressInv, EgressIsPublic, AskFields

\* What was sent is judged by the sources, their facts and the citations.
LEMMA SameEgress ==
    ASSUME EgressInv, AskFields \subseteq DOMAIN ask',
           ask'.verify = ask.verify, ask'.rows = ask.rows, ask'.bodies = ask.bodies,
           ask'.public = ask.public, ask'.facts = ask.facts, ask'.cited = ask.cited,
           ask'.sent = ask.sent, ask'.pc \in {"pictures", "done"}
    PROVE  EgressInv'
BY DEF EgressInv, EgressIsPublic, Usable, Members, AskFields

LEMMA RetrievalKeeps ==
    ASSUME EgressInv,
           Begin \/ Search \/ Expand \/ ReadRows \/ ReadRevisions \/ ReadSemantic \/ ReadGraph \/ Answer
    PROVE  EgressInv'
<1>1. AskFields \subseteq DOMAIN ask
  BY DEF EgressInv
<1>2. CASE Begin
  <2>1. PICK cutoff, verify, vector \in BOOLEAN :
            ask' = [Empty EXCEPT !.pc = IF vector THEN "search_both" ELSE "search",
                          !.cutoff = cutoff, !.verify = verify]
    BY <1>2 DEF Begin, Goes
  <2>2. AskFields \subseteq DOMAIN ask' /\ ask'.sent = {}
    BY <2>1 DEF Empty, AskFields
  <2> QED
    BY <2>2, NothingSent
<1>3. CASE Search
  <2>1. ask.sent = {}
    BY <1>3 DEF Search, EgressInv
  <2>2. PICK fused : ask' = [ask EXCEPT !.pc = "expand", !.ids = Cut(fused, AskLimit),
                                       !.anchor = IF fused = <<>> THEN NoPost ELSE fused[1]]
    BY <1>3, Zenon DEF Search, Goes
  <2> QED
    BY <1>1, <2>1, <2>2, NothingSent DEF AskFields
<1>4. CASE Expand
  <2>1. ask.sent = {}
    BY <1>4 DEF Expand, EgressInv
  <2>2. \/ ask' = [ask EXCEPT !.pc = "rows"]
        \/ \E near, ids : ask' = [ask EXCEPT !.pc = "rows", !.near = near, !.ids = ids]
    BY <1>4 DEF Expand, Goes
  <2> QED
    BY <1>1, <2>1, <2>2, NothingSent DEF AskFields
<1>5. CASE ReadRows
  <2>1. ask.sent = {}
    BY <1>5 DEF ReadRows, EgressInv
  <2>2. PICK to, rows, public, bodies :
            ask' = [ask EXCEPT !.pc = to, !.rows = rows, !.public = public, !.bodies = bodies]
    BY <1>5 DEF ReadRows, Goes
  <2> QED
    BY <1>1, <2>1, <2>2, NothingSent DEF AskFields
<1>6. CASE ReadRevisions
  <2>1. ask.sent = {}
    BY <1>6 DEF ReadRevisions, EgressInv
  <2>2. PICK bodies : ask' = [ask EXCEPT !.pc = "semantic", !.bodies = bodies]
    BY <1>6 DEF ReadRevisions, Goes
  <2> QED
    BY <1>1, <2>1, <2>2, NothingSent DEF AskFields
<1>7. CASE ReadSemantic
  <2>1. ask.sent = {}
    BY <1>7 DEF ReadSemantic, EgressInv
  <2>2. PICK facts : ask' = [ask EXCEPT !.pc = "graph", !.facts = facts]
    BY <1>7 DEF ReadSemantic, Goes
  <2> QED
    BY <1>1, <2>1, <2>2, NothingSent DEF AskFields
<1>8. CASE ReadGraph
  <2>1. ask.sent = {}
    BY <1>8 DEF ReadGraph, EgressInv
  <2>2. PICK facts : ask' = [ask EXCEPT !.pc = "answer", !.facts = facts]
    BY <1>8 DEF ReadGraph, Goes
  <2> QED
    BY <1>1, <2>1, <2>2, NothingSent DEF AskFields
<1>9. CASE Answer
  <2>1. ask.sent = {}
    BY <1>9 DEF Answer, EgressInv
  <2>2. \/ \E to : ask' = [ask EXCEPT !.pc = to]
        \/ \E cited : ask' = [ask EXCEPT !.pc = "verify", !.cited = cited]
    BY <1>9 DEF Answer, Goes
  <2> QED
    BY <1>1, <2>1, <2>2, NothingSent DEF AskFields
<1> QED
  BY <1>2, <1>3, <1>4, <1>5, <1>6, <1>7, <1>8, <1>9

LEMMA VerifyKeeps ==
    ASSUME EgressInv, Verify
    PROVE  EgressInv'
<1>1. AskFields \subseteq DOMAIN ask /\ ask.sent = {}
  BY DEF Verify, EgressInv
<1>2. PICK sent \in {{}, IF ask.verify THEN Verifiable ELSE {}} :
          ask' = [ask EXCEPT !.pc = IF ask.cutoff THEN "done" ELSE "draw", !.sent = sent]
  BY DEF Verify, Goes
<1>3. /\ AskFields \subseteq DOMAIN ask' /\ ask'.sent = sent /\ ask'.pc \in {"done", "draw"}
      /\ ask'.verify = ask.verify /\ ask'.rows = ask.rows /\ ask'.bodies = ask.bodies
      /\ ask'.public = ask.public /\ ask'.facts = ask.facts /\ ask'.cited = ask.cited
  BY <1>1, <1>2 DEF AskFields
<1>4. ASSUME NEW f \in sent
      PROVE  /\ ask.verify /\ f.kind \in {"project", "relation"}
             /\ StatedBy(f) # {} /\ StatedBy(f) \subseteq ask.cited
  <2>1. ask.verify /\ f \in Verifiable
    BY <1>2, <1>4
  <2> QED
    BY <2>1 DEF Verifiable, Claims, Foremost
<1>5. Usable' = Usable
  BY <1>3 DEF Usable, Members
<1>6. ASSUME NEW f \in ask'.sent
      PROVE  /\ ask'.verify
             /\ f.kind \notin {"actor", "keyman", "person_relation"}
             /\ \A p \in Usable' \cap ask'.public : <<p, f>> \in ask'.facts => p \in ask'.cited
             /\ \E p \in ask'.cited \cap ask'.public : <<p, f>> \in ask'.facts
  BY <1>3, <1>4, <1>5, <1>6 DEF StatedBy
<1>7. EgressIsPublic'
  BY <1>6 DEF EgressIsPublic
<1> QED
  BY <1>3, <1>7 DEF EgressInv

LEMMA EgressInvStep == EgressInv /\ [AnswerNext]_answerVars => EgressInv'
<1> SUFFICES ASSUME EgressInv, [AnswerNext]_answerVars PROVE EgressInv'
  OBVIOUS
<1>1. AskFields \subseteq DOMAIN ask
  BY DEF EgressInv
<1>2. CASE Draw
  <2>1. PICK drawn : ask' = [ask EXCEPT !.pc = "pictures", !.drawn = drawn]
    BY <1>2 DEF Draw, Goes
  <2> QED
    BY <1>1, <2>1, SameEgress DEF AskFields
<1>3. CASE Picture
  <2>1. PICK pictures : ask' = [ask EXCEPT !.pc = "done", !.pictures = pictures]
    BY <1>3 DEF Picture, Goes
  <2> QED
    BY <1>1, <2>1, SameEgress DEF AskFields
<1>4. CASE ChangeSight \/ Rewrite \/ Restate \/ Relink \/ UNCHANGED answerVars
  <2>1. ask' = ask
    BY <1>4 DEF ChangeSight, Rewrite, Restate, Relink, answerVars
  <2> QED
    BY <2>1 DEF EgressInv, EgressIsPublic, Usable, Members
<1> QED
  BY <1>2, <1>3, <1>4, RetrievalKeeps, VerifyKeeps DEF AnswerNext, ComputeStep

\* A claim leaves the system only on request, names no person, and is stated by a cited source
\* that was public when it was read and by no other public one that is not cited: for every set
\* of posts and facts, every limit and whatever others change meanwhile (_verify_public_claims).
THEOREM EgressPublic == AnswerSpec => []EgressIsPublic
<1>1. EgressInv => EgressIsPublic
  BY DEF EgressInv
<1> QED
  BY <1>1, EgressInvInit, EgressInvStep, PTL DEF AnswerSpec

-----------------------------------------------------------------------------
(* All of them next to one another. *)

derivedVars == <<part, chatVars, summaryVars, claimVars, answerVars, ticketVars, unitVars>>

LEMMA HintsLeaveRelations == HintNext => UNCHANGED relationVars
BY DEF HintNext, CaptureHint, Derive, ResolveFails, BindCustomer, EditHinted

LEMMA RelationsLeaveHints == RelationNext => UNCHANGED hintVars
BY DEF RelationNext, Classify, DeleteRelations, InsertRelations, ReplacementFails, ReadPending,
       FindCitation, SearchRelation, StoreOutcome, DeleteCitable

\* A step of the composition is one of a component or leaves it alone.
AllStep ==
    /\ [ChatNext]_chatVars /\ [SummaryNext]_summaryVars
    /\ [RelationNext]_relationVars /\ [HintNext]_hintVars
    /\ [AnswerNext]_answerVars /\ [TicketsNext]_ticketVars /\ [UnitsNext]_unitVars

LEMMA StepsProject == [DerivedNext]_derivedVars => AllStep
<1> SUFFICES ASSUME [DerivedNext]_derivedVars PROVE AllStep
  OBVIOUS
<1>1. CASE UNCHANGED derivedVars
  BY <1>1 DEF derivedVars, claimVars, AllStep
<1>2. CASE ChatTurn
  BY <1>2 DEF ChatTurn, claimVars, otherVars, AllStep
<1>3. CASE SummaryTurn
  BY <1>3 DEF SummaryTurn, claimVars, otherVars, AllStep
<1>4. CASE RelationTurn
  BY <1>4, RelationsLeaveHints DEF RelationTurn, otherVars, AllStep
<1>5. CASE HintTurn
  BY <1>5, HintsLeaveRelations DEF HintTurn, otherVars, AllStep
<1>6. CASE AnswerTurn \/ TicketTurn \/ UnitTurn
  BY <1>6 DEF AnswerTurn, TicketTurn, UnitTurn, postVars, claimVars, AllStep
<1> QED
  BY <1>1, <1>2, <1>3, <1>4, <1>5, <1>6 DEF DerivedNext

\* The composition starts every component in an initial state of its own.
LEMMA InitsProject ==
    DerivedInit => /\ ChatInit /\ SummaryInit /\ RelationInit /\ HintInit
                   /\ AnswerInit /\ TicketsInit /\ UnitsInit
<1> SUFFICES ASSUME DerivedInit
             PROVE  /\ ChatInit /\ SummaryInit /\ RelationInit /\ HintInit
                    /\ AnswerInit /\ TicketsInit /\ UnitsInit
  OBVIOUS
<1>1. ChatInit /\ SummaryInit /\ RelationInit /\ HintInit /\ TicketsInit /\ UnitsInit
  BY DEF DerivedInit, ClaimInit
<1>2. posting \in [Asked -> [sight : Sights, text : {1}]] /\ kept \in [Asked -> {1, Unkept}]
  BY DEF DerivedInit, Sights
<1>3. stated \in SUBSET Facts /\ timeline \in SUBSET (Asked \X Asked)
  BY DEF DerivedInit, AskedInit
<1> QED
  BY <1>1, <1>2, <1>3 DEF DerivedInit, AnswerInit

\* Each behaviour of the composition is one of every component.
LEMMA DerivedImplementsParts ==
    DerivedSpec => /\ ChatSpec /\ SummarySpec /\ RelationSpec /\ HintSpec
                   /\ AnswerSpec /\ TicketsSpec /\ UnitsSpec
BY InitsProject, StepsProject, PTL
   DEF AllStep, DerivedSpec, ChatSpec, SummarySpec, RelationSpec, HintSpec, AnswerSpec, TicketsSpec,
       UnitsSpec, derivedVars

\* What was derived for one reader, an answer or a summary, reaches another only if it may
\* see all it rests on, whatever else is derived meanwhile (chat_about_post, read_post_chat,
\* read_post_summary).
THEOREM ReadersAuthorized == DerivedSpec => ReadersAreAuthorized
BY DerivedImplementsParts, AnswersAreAuthorized, SummariesAreAuthorized, PTL DEF ReadersAreAuthorized

\* A late answer is stored only for what it was asked about, whatever else is derived
\* meanwhile (persist_prepared_post_summary, verify_post_relations).
THEOREM LateAnswers == DerivedSpec => LateAnswersBelong
BY DerivedImplementsParts, LastGoodIsKept, OutcomesBelong, PTL DEF LateAnswersBelong

\* Every variable of every component keeps its type in the composition.
THEOREM DerivedTyped == DerivedSpec => []DerivedTypeOK
BY DerivedImplementsParts, ChatTyped, SummaryTyped, ClaimsTyped, AnswerGrounded, TicketsTyped,
   UnitsTyped, PTL DEF DerivedTypeOK

\* What is said of answers, customers, tickets and units alone is true of them next to all else.
THEOREM DerivedSound ==
    DerivedSpec => /\ [](AnswerIsGrounded /\ EgressIsPublic /\ CustomerOfPresentText)
                   /\ TicketsAreTrue /\ []UnitsAreWhole
BY DerivedImplementsParts, AnswerGrounded, EgressPublic, CustomersOfPresentText, TicketsTrue,
   UnitsWhole, PTL
=============================================================================
