---------------------------- MODULE ClaimEvidence ----------------------------
(***************************************************************************)
(* Claims about organizations that a search outside has to bear out:       *)
(*   the relations of one post's counterparties, classified and verified   *)
(*   (entity_relationship_ingestion.py, relation_verification_ingestion.py *)
(*   in backend/app), and the customer behind a raw code of a source post  *)
(*   (customer_hint_ingestion.py).                                         *)
(*                                                                         *)
(* No connection or lock is held while a provider works: what it says is   *)
(* about rows that may have been replaced meanwhile.  A text stands for    *)
(* title, body and their digest; a provider answers anything or raises.    *)
(***************************************************************************)
EXTENDS Integers, FiniteSets

CONSTANTS
    Parties,        \* names of counterparties
    Relations,      \* relationship codes with their labels
    Citable,        \* other posts that may be cited as internal evidence
    Classifiers,    \* requests that extract Keymen and classify, one extraction each
    Verifiers,      \* requests that verify relations
    Unknown,        \* no citation, no customer
    Hinted,         \* source posts with customer codes; a greater one is newer
    Codes, Texts,
    Customers,      \* corporate entities
    Resolvers,      \* requests that resolve a hint
    HintLimit,      \* posts one attempt looks at
    MaxHintEdits    \* bound of imports between the statements

ASSUME ClaimConstants ==
    /\ Unknown \notin Parties \cup Relations \cup Citable \cup Customers
    /\ Hinted \subseteq Int /\ HintLimit \in Nat \ {0} /\ MaxHintEdits \in Nat

VARIABLES
    relation,       \* post_counterparty_entity of the post, by name
    citable,        \* the citable posts that exist
    classifier, verifier,
    hintSource,     \* source_post: code, text, and whether the resolvers' accounts may read it
    resolution,     \* source_post_customer_resolution
    resolver, hintEdits

relationVars == <<relation, citable, classifier, verifier>>
hintVars == <<hintSource, resolution, resolver, hintEdits>>
claimVars == <<relationVars, hintVars>>

-----------------------------------------------------------------------------
\* Relations.  searched: the relationship a search was made for, Unknown while pending.

ClaimRows == [type : Relations, by : Classifiers \cup {Unknown},
         searched : Relations \cup {Unknown}, cites : Citable \cup {Unknown}]
NoRow == [type |-> Unknown, by |-> Unknown, searched |-> Unknown, cites |-> Unknown]
There(n) == relation[n] # NoRow
Pending(n) == There(n) /\ relation[n].searched = Unknown

Findings == UNION {[names -> Relations] : names \in SUBSET Parties}
NoFinding == [n \in {} |-> Unknown]

\* Identity of a row: a name and the extraction that inserted it.
Identities == {<<n, relation[n].by>> : n \in {m \in Parties : There(m)}}

Classifying == [pc : {"new", "replacing", "inserting", "done"}, found : Findings,
                seen : SUBSET (Parties \X (Classifiers \cup {Unknown}))]
Verifying == [pc : {"idle", "citing", "searching", "updating"},
              claims : SUBSET [name : Parties, type : Relations, cites : Citable \cup {Unknown}],
              cited : SUBSET Parties]
NoVerification == [pc |-> "idle", claims |-> {}, cited |-> {}]

RelationInit ==
    /\ \E before \in Findings : relation = [n \in Parties |->
           IF n \in DOMAIN before THEN [NoRow EXCEPT !.type = before[n]] ELSE NoRow]
    /\ citable = Citable
    /\ classifier = [c \in Classifiers |-> [pc |-> "new", found |-> NoFinding, seen |-> {}]]
    /\ verifier = [v \in Verifiers |-> NoVerification]

\* The model classifies some of the organizations of the post; the transaction begins with
\* the deletion of the rows it sees.  (A failure of the model leaves the rows alone.)
Classify(c) == \E found \in Findings :
    /\ classifier[c].pc = "new"
    /\ classifier' = [classifier EXCEPT
           ![c] = [pc |-> "replacing", found |-> found, seen |-> Identities]]
    /\ UNCHANGED <<relation, citable, verifier, hintVars>>

\* The deletion waits for another that has locked one of these rows.
DeleteRelations(c) ==
    /\ classifier[c].pc = "replacing"
    /\ \A d \in Classifiers \ {c} :
           classifier[d].pc = "inserting" => classifier[d].seen \cap classifier[c].seen = {}
    /\ classifier' = [classifier EXCEPT ![c].pc = "inserting"]
    /\ UNCHANGED <<relation, citable, verifier, hintVars>>

RowLocked(n) == \E c \in Classifiers :
    classifier[c].pc = "inserting" /\ <<n, relation[n].by>> \in classifier[c].seen

Deleted(c) == {n \in Parties : There(n) /\ <<n, relation[n].by>> \in classifier[c].seen}

Claim(v) == CHOOSE claim \in verifier[v].claims : TRUE
Rest(v) ==
    LET left == verifier[v].claims \ {Claim(v)}
    IN  IF left = {} THEN NoVerification
        ELSE [verifier[v] EXCEPT !.pc = "searching", !.claims = left]

\* Replace and commit.  An UPDATE that was waiting for a deleted row updates none.
InsertRelations(c) == \E waiting \in SUBSET {v \in Verifiers :
                              verifier[v].pc = "updating" /\ Claim(v).name \in Deleted(c)} :
    /\ classifier[c].pc = "inserting"
    /\ \A n \in DOMAIN classifier[c].found : There(n) => n \in Deleted(c)
    /\ relation' = [n \in Parties |->
           IF n \in DOMAIN classifier[c].found
           THEN [NoRow EXCEPT !.type = classifier[c].found[n], !.by = c]
           ELSE IF n \in Deleted(c) THEN NoRow ELSE relation[n]]
    /\ classifier' = [classifier EXCEPT ![c] = [pc |-> "done", found |-> NoFinding, seen |-> {}]]
    /\ verifier' = [v \in Verifiers |-> IF v \in waiting THEN Rest(v) ELSE verifier[v]]
    /\ UNCHANGED <<citable, hintVars>>

\* A name the model repeats, or one inserted meanwhile, violates the key: all is undone.
ReplacementFails(c) ==
    /\ classifier[c].pc \in {"replacing", "inserting"}
    /\ classifier' = [classifier EXCEPT ![c] = [pc |-> "done", found |-> NoFinding, seen |-> {}]]
    /\ UNCHANGED <<relation, citable, verifier, hintVars>>

\* The pending rows, and for each one statement that finds a post to cite.
ReadPending(v) ==
    /\ verifier[v].pc = "idle"
    /\ \E n \in Parties : Pending(n)
    /\ verifier' = [verifier EXCEPT ![v] = [pc |-> "citing", cited |-> {}, claims |->
           {[name |-> n, type |-> relation[n].type, cites |-> Unknown] : n \in {m \in Parties : Pending(m)}}]]
    /\ UNCHANGED <<relation, citable, classifier, hintVars>>

FindCitation(v) == \E claim \in verifier[v].claims, p \in citable \cup {Unknown} :
    LET cited == verifier[v].cited \cup {claim.name} IN
    /\ verifier[v].pc = "citing" /\ claim.name \notin verifier[v].cited
    /\ verifier' = [verifier EXCEPT
           ![v].claims = (@ \ {claim}) \cup {[claim EXCEPT !.cites = p]},
           ![v].cited = cited,
           ![v].pc = IF {x.name : x \in verifier[v].claims} = cited THEN "searching" ELSE "citing"]
    /\ UNCHANGED <<relation, citable, classifier, hintVars>>

\* A failed search ends the request; what was stored before it stays.
SearchRelation(v) == \E answered \in BOOLEAN :
    /\ verifier[v].pc = "searching"
    /\ verifier' = [verifier EXCEPT ![v] =
           IF answered THEN [@ EXCEPT !.pc = "updating"] ELSE NoVerification]
    /\ UNCHANGED <<relation, citable, classifier, hintVars>>

\* The conditions of the UPDATE.
StillClaimed(claim) == Pending(claim.name) /\ relation[claim.name].type = claim.type

StoreOutcome(v) ==
    LET claim == Claim(v) IN
    /\ verifier[v].pc = "updating" /\ ~RowLocked(claim.name)
    /\ relation' = IF StillClaimed(claim) /\ claim.cites \in citable \cup {Unknown}
                   THEN [relation EXCEPT ![claim.name].searched = claim.type,
                                         ![claim.name].cites = claim.cites]
                   ELSE relation
    /\ verifier' = [verifier EXCEPT ![v] = Rest(v)]
    /\ UNCHANGED <<citable, classifier, hintVars>>

\* A post that a relation cites cannot be deleted.
DeleteCitable(p) ==
    /\ p \in citable
    /\ \A n \in Parties : relation[n].cites # p
    /\ citable' = citable \ {p}
    /\ UNCHANGED <<relation, classifier, verifier, hintVars>>

RelationNext ==
    \/ \E c \in Classifiers : Classify(c) \/ DeleteRelations(c) \/ InsertRelations(c) \/ ReplacementFails(c)
    \/ \E v \in Verifiers : ReadPending(v) \/ FindCitation(v) \/ SearchRelation(v) \/ StoreOutcome(v)
    \/ \E p \in Citable : DeleteCitable(p)

-----------------------------------------------------------------------------
\* Customer hints.  from: the code and the text that a customer was derived from.

HintSources == [code : Codes, text : Texts, open : BOOLEAN]
HintEvidence == [code : Codes, text : Texts]
Resolutions == [code : Codes, text : Texts, customer : Customers, from : HintEvidence]
Unresolved == [customer |-> Unknown]

Resolving == [pc : {"idle", "deriving", "binding"}, hint : Codes \cup {Unknown},
              captured : SUBSET (Hinted \X Texts), bound : SUBSET (Hinted \X Texts \X Customers)]
NotResolving == [pc |-> "idle", hint |-> Unknown, captured |-> {}, bound |-> {}]

HintInit ==
    /\ hintSource \in [Hinted -> {s \in HintSources : s.open}]
    /\ resolution = [p \in Hinted |-> Unresolved]
    /\ resolver = [r \in Resolvers |-> NotResolving]
    /\ hintEdits = 0

Resolve(r, state) == resolver' = [resolver EXCEPT ![r] = state]

\* fetch_visible_customer_hint_evidence: the newest posts of the hint.
CaptureHint(r) == \E hint \in Codes :
    LET posts == {p \in Hinted : hintSource[p].open /\ hintSource[p].code = hint}
        newest == {p \in posts : Cardinality({q \in posts : q > p}) < HintLimit}
    IN  /\ resolver[r].pc = "idle" /\ posts # {}
        /\ Resolve(r, [pc |-> "deriving", hint |-> hint, bound |-> {},
                       captured |-> {<<p, hintSource[p].text>> : p \in newest}])
        /\ UNCHANGED <<hintSource, resolution, hintEdits, relationVars>>

\* One post after the other: a name is proposed from its text alone, borne out by a search
\* and bound to the catalog; or it stays unbound.
Derive(r) == \E next \in resolver[r].captured, customer \in Customers \cup {Unknown} :
    /\ resolver[r].pc = "deriving"
    /\ \A other \in resolver[r].captured : other[1] <= next[1]
    /\ Resolve(r, [resolver[r] EXCEPT
           !.captured = @ \ {next},
           !.bound = IF customer = Unknown THEN @ ELSE @ \cup {<<next[1], next[2], customer>>},
           !.pc = IF resolver[r].captured = {next} THEN "binding" ELSE @])
    /\ UNCHANGED <<hintSource, resolution, hintEdits, relationVars>>

\* Any provider or the catalog may raise.
ResolveFails(r) ==
    /\ resolver[r].pc = "deriving"
    /\ Resolve(r, NotResolving)
    /\ UNCHANGED <<hintSource, resolution, hintEdits, relationVars>>

\* Bug: readability and text are compared, the code is not.
ReadableAsCaptured(r, p, text) == hintSource[p].open /\ hintSource[p].text = text

\* lock_visible_customer_hint_sources and the comparison of digests, under a share lock.
Unmoved(r, p, text) == hintSource[p].open /\ hintSource[p].code = resolver[r].hint /\ hintSource[p].text = text

\* All posts that were bound agree and are unmoved, and their rows are stored, or none is.
BindCustomer(r) ==
    LET bound == resolver[r].bound IN
    /\ resolver[r].pc = "binding"
    /\ resolution' = IF /\ Cardinality({b[3] : b \in bound}) = 1
                        /\ \A b \in bound : Unmoved(r, b[1], b[2])
                     THEN [p \in Hinted |->
                            IF \E b \in bound : b[1] = p
                            THEN LET b == CHOOSE x \in bound : x[1] = p
                                 IN  [code |-> hintSource[p].code, text |-> b[2], customer |-> b[3],
                                      from |-> [code |-> resolver[r].hint, text |-> b[2]]]
                            ELSE resolution[p]]
                     ELSE resolution
    /\ Resolve(r, NotResolving)
    /\ UNCHANGED <<hintSource, hintEdits, relationVars>>

\* The upsert of an import changes code, text and readability at once.
EditHinted(p) == \E new \in HintSources :
    /\ hintEdits < MaxHintEdits /\ new # hintSource[p]
    /\ hintEdits' = hintEdits + 1
    /\ hintSource' = [hintSource EXCEPT ![p] = new]
    /\ UNCHANGED <<resolution, resolver, relationVars>>

\* read_customer_master: an association counts while its code and its digest are those of
\* the post; a code is shown with a customer if all that count agree.
Associated(p) ==
    /\ resolution[p] # Unresolved
    /\ resolution[p].code = hintSource[p].code /\ resolution[p].text = hintSource[p].text
CustomersOf(code) ==
    {resolution[p].customer : p \in {q \in Hinted : hintSource[q].open /\ hintSource[q].code = code /\ Associated(q)}}
ShownCustomer(code) ==
    IF Cardinality(CustomersOf(code)) = 1 THEN CHOOSE c \in CustomersOf(code) : TRUE ELSE Unknown

HintNext ==
    \/ \E r \in Resolvers : CaptureHint(r) \/ Derive(r) \/ ResolveFails(r) \/ BindCustomer(r)
    \/ \E p \in Hinted : EditHinted(p)

ClaimInit == RelationInit /\ HintInit
ClaimNext == RelationNext \/ HintNext
ClaimSpec == ClaimInit /\ [][ClaimNext]_claimVars

-----------------------------------------------------------------------------

\* Every variable holds what its columns and its request may hold.
ClaimTypeOK ==
    /\ relation \in [Parties -> ClaimRows \cup {NoRow}] /\ citable \subseteq Citable
    /\ classifier \in [Classifiers -> Classifying] /\ verifier \in [Verifiers -> Verifying]
    /\ hintSource \in [Hinted -> HintSources] /\ resolution \in [Hinted -> Resolutions \cup {Unresolved}]
    /\ resolver \in [Resolvers -> Resolving] /\ hintEdits \in 0 .. MaxHintEdits

\* However late a search answers: a relation that is not pending was searched for under its
\* own label, cites a post that exists, and keeps this outcome until an extraction replaces
\* the row ("Already-checked rows are left alone", verify_post_relations).
OutcomeBelongsToRelation ==
    [][\A n \in Parties : relation'[n].searched # Unknown =>
          /\ relation'[n].searched = relation'[n].type
          /\ relation'[n].cites \in citable' \cup {Unknown}
          /\ (Pending(n) \/ relation'[n] = relation[n])]_relationVars

\* Whatever a customer is shown for, the present text of a readable post under that code
\* led to it; an edit, a new code or another attempt in between hides it.
CustomerOfPresentText ==
    \A code \in Codes : ShownCustomer(code) # Unknown =>
        \E p \in Hinted : /\ hintSource[p].open
                          /\ resolution[p].customer = ShownCustomer(code)
                          /\ resolution[p].from = [code |-> code, text |-> hintSource[p].text]
=============================================================================
