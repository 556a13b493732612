----------------------------- MODULE MCDerived -----------------------------
(* What is derived from posts on request: chat, summaries, verified relations, resolved  *)
(* hints, answers over all posts, tickets and content units.  They share the source      *)
(* posts only: each behaviour explores one of them, with its own copy of the posts.      *)
EXTENDS PostChat, PostSummary, ClaimEvidence, AskAnswer, IssueTickets, ContentUnits, TLC

CONSTANT DerivedParts   \* the components explored

VARIABLE part           \* the component that takes steps

\* Rows of one entity: seen by its whole scope, by its unit "u1", by neither; one without
\* source context, one rewritten and one without a body.
Private == [public |-> FALSE, entity |-> "e1", unit |-> "u1",
            withdrawn |-> FALSE, real |-> TRUE, body |-> 1]
OtherUnit == [Private EXCEPT !.unit = "u2"]
Withdrawn == [Private EXCEPT !.withdrawn = TRUE]
Demo == [Private EXCEPT !.real = FALSE]
Rewritten == [Private EXCEPT !.body = 2]
Bodiless == [Private EXCEPT !.body = 0]

ChatRows == {Private, OtherUnit, Withdrawn, Demo}
SummaryRows == {Private, OtherUnit, Withdrawn, Rewritten, Bodiless}
GrantedScopes == {[entities |-> {"e1"}, units |-> {}], [entities |-> {"e1"}, units |-> {"u1"}]}
FirstCode == [code |-> "k1", text |-> "t1", open |-> TRUE]
NextTo == {<<1, 2>>}
IdOrder == [post \in Posts |-> post]
SameRequests == Permutations(Readers) \cup Permutations(Writers)

\* Facts of one and of two posts, one of them without a label; the first post can be read by
\* anyone, the second by the asker.
Stated(n, kind, on, ends, early) ==
    [name |-> n, kind |-> kind, on |-> on, ends |-> ends, early |-> early, labelled |-> TRUE]
Statements ==
    {Stated(1, "project", {1}, {}, FALSE), Stated(2, "project", {1, 2}, {}, TRUE),
     Stated(3, "actor", {3}, {}, TRUE), Stated(4, "relation", {2}, {2}, TRUE),
     Stated(5, "relation", {1, 2}, {}, FALSE), Stated(6, "person_relation", {1, 3}, {}, TRUE),
     [Stated(7, "relation", {1}, {}, TRUE) EXCEPT !.labelled = FALSE]}
StatementOrder == [f \in Statements |-> f.name]
SecondIsNearest == [p \in {1, 2} |-> p]
LaterFirst == [p \in Asked |-> p]
AskedInit ==
    /\ posting[1].sight = "public" /\ posting[2].sight # "hidden"
    /\ kept[1] = 1 /\ kept[3] = 1
    /\ stated \in {Facts, {f \in Facts : f.name = 4}}
    /\ timeline \in {{}, {1} \X {2, 3}} /\ timeline \subseteq Asked \X Asked

\* Every kind of reply to a request for the commitment of a post.
Says(flag, sum, day) == [flag |-> flag, summary |-> sum, day |-> day]
AllReplies == {Says("junk", TRUE, NoDay), Says("no", FALSE, NoDay), Says("yes", FALSE, NoDay)}
              \cup {Says("yes", TRUE, day) : day \in Days \cup {NoDay, BadDay, Prose}}

\* A body with a picture between a plain and an indented text, one of a plain and one of an
\* indented text.
TextPiece(indent) == [kind |-> "text", indent |-> indent]
PicturePiece == [kind |-> "picture", indent |-> 0]
Chunks == [long |-> <<TextPiece(0), PicturePiece, TextPiece(2)>>,
           short |-> <<TextPiece(0)>>, indented |-> <<TextPiece(2)>>]

\* The other components stay in one initial state.
DerivedInit ==
    /\ part \in DerivedParts
    /\ ChatInit /\ row[2] # Demo
    /\ part # "chat" =>
           live = {} /\ row = [p \in Posts |-> Private] /\ stored = [x \in Exchanges |-> NoAnswer]
    /\ SummaryInit
    /\ part # "summary" =>
           /\ present = {}
           /\ source = [p \in Summarized |-> Private]
           /\ summary = [p \in Summarized |-> NoSummary]
    /\ ClaimInit
    /\ part # "relations" => relation = [n \in Parties |-> NoRow]
    /\ hintSource = [p \in Hinted |-> FirstCode]
    /\ ask = Empty /\ changes = 0
    /\ posting \in [Asked -> [sight : IF part = "answers" THEN Sights ELSE {"public"}, text : {1}]]
    /\ kept \in [Asked -> IF part = "answers" THEN {1, Unkept} ELSE {1}]
    /\ IF part = "answers" THEN AskedInit ELSE stated = {} /\ timeline = {}
    /\ TicketsInit
    /\ part # "tickets" => visible
    /\ UnitsInit
    /\ draft # "indented" /\ (part # "units" => draft = "long")

otherVars == <<part, answerVars, ticketVars, unitVars>>
\* The second post is no demonstration, and of the second hint post the text stays: what may
\* be read and what is bound is decided alike for every post.
ChatTurn == part = "chat" /\ ChatNext /\ row'[2] # Demo /\ UNCHANGED <<otherVars, summaryVars, claimVars>>
SummaryTurn == part = "summary" /\ SummaryNext /\ UNCHANGED <<otherVars, chatVars, claimVars>>
RelationTurn == part = "relations" /\ RelationNext /\ UNCHANGED <<otherVars, chatVars, summaryVars>>
HintTurn ==
    /\ part = "hints" /\ HintNext /\ hintSource'[2].text = FirstCode.text
    /\ UNCHANGED <<otherVars, chatVars, summaryVars>>

postVars == <<part, chatVars, summaryVars, claimVars>>
AnswerTurn == part = "answers" /\ AnswerNext /\ UNCHANGED <<postVars, ticketVars, unitVars>>

\* Calls of providers touch nothing that others read: they are explored without other steps
\* between them.  The long body is persisted once, with all answers of the providers; two
\* writers at a time persist the others again and again, with one model, and one while a
\* request is under way.
Computes(w) == writing[w].pc \in {"pictures", "structure", "vectors"}
AtWork == {w \in Writers : writing[w].pc # "idle"}
PersistedOnce ==
    /\ draft' = "long" /\ ledger'.budget = 1 /\ ledger'.attempts <= 1
    /\ Cardinality(AtWork') <= 1 /\ (persisted = NothingStored \/ AtWork' \subseteq AtWork)
AllOrNothing(state) ==
    IF state.vectors = {} THEN state.model = NoModel /\ \A i \in DOMAIN state.source : state.source[i] # "llm"
                          ELSE state.model = "m1" /\ \A i \in DOMAIN state.source : state.source[i] # "unresolved"
PersistedByTwo ==
    /\ draft' = draft \/ (draft = "short" /\ draft' = "indented")
    /\ ledger'.budget + ledger'.attempts <= 3
    /\ \A w \in Writers : writing[w].pc = "idle" => writing'[w].model = NoModel
    /\ \A w \in Writers : writing'[w].pc = "replace" => AllOrNothing(writing'[w])
    /\ glance' # NoGlance => Cardinality(AtWork') <= 1
    /\ Cardinality({w \in AtWork' : writing'[w].by # "job"}) <= 1
UnitTurn ==
    /\ part = "units" /\ UnitsNext
    /\ \A w \in Writers : Computes(w) => writing'[w] # writing[w]
    /\ IF draft = "long" THEN PersistedOnce ELSE PersistedByTwo
    /\ UNCHANGED <<postVars, answerVars, ticketVars>>

\* One clerk creates the first ticket by hand and edits tickets; both derive.
TicketTurn ==
    /\ part = "tickets" /\ TicketsNext
    /\ \A c \in Clerks : clerk'[c].pc \in {"create", "patch"} => c = "k1"
    /\ \A t \in DOMAIN tickets' : ~tickets'[t].derived => t = 1
    /\ UNCHANGED <<postVars, answerVars, unitVars>>

DerivedNext ==
    ChatTurn \/ SummaryTurn \/ RelationTurn \/ HintTurn \/ AnswerTurn \/ TicketTurn \/ UnitTurn
DerivedSpec ==
    DerivedInit
    /\ [][DerivedNext]_<<part, chatVars, summaryVars, claimVars, answerVars, ticketVars, unitVars>>

\* Types of all components.
DerivedTypeOK ==
    /\ ChatTypeOK /\ SummaryTypeOK /\ ClaimTypeOK
    /\ AnswerTypeOK /\ TicketsTypeOK /\ UnitsTypeOK

\* What was derived for one reader reaches another only if it may see all it rests on, in an
\* answer (PostChat) and in a summary (PostSummary).
ReadersAreAuthorized == ShownIsAuthorized /\ ToldIsAuthorized

\* A late answer is stored only for what it was asked about: a summary for the body that the
\* post has (PostSummary), a search for the relation that it searched (ClaimEvidence).
LateAnswersBelong == LastGoodKept /\ OutcomeBelongsToRelation
=============================================================================
