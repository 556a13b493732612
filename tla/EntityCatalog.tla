--------------------------- MODULE EntityCatalog ---------------------------
(***************************************************************************)
(* The catalog of corporate entities: how an extraction binds the          *)
(* organizations that a post names                                         *)
(* (backend/app/corporate_entity_ingestion.py, its caller in               *)
(* keyman_ingestion.py, organization_name_resolution_ingestion.py and      *)
(* lineageweave/corporate_hierarchy_resolution.py).                        *)
(*                                                                         *)
(* A name is scored in a snapshot of the catalog.  If nothing is like it   *)
(* providers place it below a parent, which is bound first in the same     *)
(* way, and under one lock it is scored again in the live catalog and      *)
(* created.  A row is created under a code derived from its name, so the   *)
(* name stands for the row; seeded rows have codes of their own.           *)
(***************************************************************************)
EXTENDS Integers, FiniteSets, SequencesExt

CONSTANTS
    Names,       \* normalized names
    Seeds,       \* rows that no extraction created
    NameOf,      \* their names
    Likeness,    \* SequenceMatcher ratio of a name to another, 0 to Same
    Enough,      \* DEFAULT_MIN_SIMILARITY
    Same,        \* the ratio of a name and itself
    FullName,    \* the full name that the provider finds for a name, or Nobody
    MaxDepth,    \* _MAX_HIERARCHY_DEPTH
    Extractors,  \* extractions in progress
    Nobody       \* no row, no name, no extraction

Rows == Names \cup Seeds

ASSUME CatalogNames == NameOf \in [Seeds -> Names] /\ Names \cap Seeds = {}
ASSUME CatalogLikeness ==
    /\ Enough \in Nat /\ Same \in Nat /\ 0 < Enough /\ Enough <= Same
    /\ Likeness \in [Names -> [Names -> 0 .. Same]]
    /\ \A m, n \in Names : Likeness[m][n] = Same <=> m = n
ASSUME CatalogFullNames == FullName \in [Names -> Names \cup {Nobody}]
ASSUME CatalogNobody == Nobody \notin Rows \cup Extractors

VARIABLES
    catalog,     \* corporate_entity: the rows
    parent,      \* parent_entity_id of each
    resolution,  \* organization_name_resolution: the verdict on each short name
    confirmed,   \* short names that have ever been corroborated
    lock,        \* the holder of the creation lock
    extraction   \* progress of each extraction

catalogVars == <<catalog, parent, resolution, confirmed, lock, extraction>>

-----------------------------------------------------------------------------

Label(r) == IF r \in Seeds THEN NameOf[r] ELSE r
Labelled(rows) == {[row |-> r, label |-> Label(r)] : r \in rows}
Candidates == [row : Rows, label : Names]

\* path: the name asked for, its parent, the parent's parent, ...
Progress == [pc : {"idle", "candidates", "loaded", "unknown", "bind", "create", "locked", "bound"},
                known : SUBSET Candidates, fresh : SUBSET Candidates, aliases : SUBSET Names,
                asked : Names \cup {Nobody}, path : Seq(Names),
                above : SUBSET Rows, answer : Rows \cup {Nobody}]
NoProgress == [pc |-> "idle", known |-> {}, fresh |-> {}, aliases |-> {},
                 asked |-> Nobody, path |-> <<>>, above |-> {}, answer |-> Nobody]

CatalogInit ==
    /\ catalog \in SUBSET Seeds
    /\ parent = [r \in Rows |-> Nobody]
    /\ resolution = [n \in Names |-> "none"]
    /\ confirmed = {}
    /\ lock = Nobody
    /\ extraction = [e \in Extractors |-> NoProgress]

-----------------------------------------------------------------------------
\* score_corporate_entity: the rows that share the best score, if it is at least the minimum.

BestRows(name, candidates, minimum) ==
    {c.row : c \in {d \in candidates :
        /\ Likeness[name][d.label] >= minimum
        /\ \A other \in candidates : Likeness[name][other.label] <= Likeness[name][d.label]}}

\* expand_candidates_with_skos_aliases.
Expanded(candidates, aliases) == candidates \cup
    {[row |-> pair[1].row, label |-> FullName[pair[2]]] :
        pair \in {p \in candidates \X aliases : p[1].label = p[2]}} \cup
    {[row |-> pair[1].row, label |-> pair[2]] :
        pair \in {p \in candidates \X aliases : p[1].label = FullName[p[2]]}}

\* One row, none, or a tie: a name is scored as it stands, then by the aliases.
Hits(name, candidates, aliases) ==
    LET raw == BestRows(name, candidates, Enough)
    IN  IF raw # {} THEN raw ELSE BestRows(name, Expanded(candidates, aliases), Same)

\* load_corroborated_organization_name_aliases: the short names of corroborated pairs.
Aliases == {n \in Names : resolution[n] = "corroborated"}

Name(e) == Last(extraction[e].path)

\* The name was bound: it is the answer, or the parent of the name before it.
Bind(e, row, known) ==
    LET old == extraction[e] IN
    extraction' = [extraction EXCEPT ![e] = IF Len(old.path) = 1
        THEN [old EXCEPT !.pc = "bound", !.known = known, !.fresh = {}, !.answer = row]
        ELSE [old EXCEPT !.pc = "create", !.known = known, !.fresh = {}, !.answer = row,
                         !.path = Front(old.path), !.above = old.above \cup {row}]]

\* None: neither the name nor what waits for it is bound.
Leave(e) ==
    LET old == extraction[e] IN
    extraction' = [extraction EXCEPT ![e] = [old EXCEPT
        !.pc = "bound", !.fresh = {}, !.path = <<Head(old.path)>>, !.answer = Nobody]]

-----------------------------------------------------------------------------
\* One extraction: candidates and aliases are read once and serve all its names.

LoadCandidates(e) ==
    /\ extraction[e].pc = "idle"
    /\ extraction' = [extraction EXCEPT ![e].pc = "candidates", ![e].known = Labelled(catalog)]
    /\ UNCHANGED <<catalog, parent, resolution, confirmed, lock>>

LoadAliases(e) ==
    /\ extraction[e].pc = "candidates"
    /\ extraction' = [extraction EXCEPT ![e].pc = "loaded", ![e].aliases = Aliases]
    /\ UNCHANGED <<catalog, parent, resolution, confirmed, lock>>

\* A name that is tied as it stands is not rewritten; another one is replaced by its full
\* name if that is on record and corroborated, and asked for if nothing is on record.
MentionName(e) == \E name \in Names :
    LET tied   == Cardinality(BestRows(name, extraction[e].known, Enough)) > 1
        asking == resolution[name] = "none"
        used   == IF resolution[name] = "corroborated" THEN FullName[name] ELSE name
    IN  /\ extraction[e].pc = "loaded"
        /\ extraction' = [extraction EXCEPT ![e] = [@ EXCEPT
               !.asked = name,
               !.path = <<IF tied THEN name ELSE used>>,
               !.above = {}, !.answer = Nobody,
               !.pc = IF tied THEN "bound" ELSE IF asking THEN "unknown" ELSE "bind"]]
        /\ UNCHANGED <<catalog, parent, resolution, confirmed, lock>>

\* The provider proposes a name, and not the one it was given.
Proposed(name) == FullName[name] \notin {Nobody, name}

\* The proposal is verified and stored; without one nothing is.
ResolveName(e) ==
    LET name == extraction[e].asked
    IN  /\ extraction[e].pc = "unknown"
        /\ \/ /\ extraction' = [extraction EXCEPT ![e].pc = "bind"]
              /\ UNCHANGED <<resolution, confirmed>>
           \/ \E verdict \in {"corroborated", "other"} :
                 /\ Proposed(name)
                 /\ resolution' = [resolution EXCEPT ![name] = verdict]
                 /\ confirmed' = IF verdict = "corroborated" THEN confirmed \cup {name}
                                 ELSE confirmed
                 /\ extraction' = [extraction EXCEPT ![e].pc = "bind",
                        ![e].path = <<IF verdict = "corroborated" THEN FullName[name] ELSE name>>]
        /\ UNCHANGED <<catalog, parent, lock>>

\* get_or_create_corporate_entity up to its transaction, at the depth reached: a hit in the
\* snapshot, a tie, too deep, a provider that declines or proposes a cycle, a placement.
Place(e) ==
    LET name  == Name(e)
        hits  == Hits(name, extraction[e].known, extraction[e].aliases)
        depth == Len(extraction[e].path) - 1
    IN  /\ extraction[e].pc = "bind"
        /\ \/ \E row \in hits : Cardinality(hits) = 1 /\ Bind(e, row, extraction[e].known)
           \/ Cardinality(hits) # 1 /\ Leave(e)
           \/ /\ hits = {} /\ depth < MaxDepth
              /\ \/ extraction' = [extraction EXCEPT ![e].pc = "create", ![e].answer = Nobody]
                 \/ \E above \in Names \ Range(extraction[e].path) :
                        extraction' = [extraction EXCEPT ![e].path = Append(@, above)]
        /\ UNCHANGED <<catalog, parent, resolution, confirmed, lock>>

\* Bug: the lock is not waited for.
LockIgnored == TRUE
Unlocked == lock = Nobody

\* The lock, and the live catalog without the ancestors bound so far.
TakeLock(e) ==
    /\ extraction[e].pc = "create"
    /\ Unlocked
    /\ lock' = e
    /\ extraction' = [extraction EXCEPT ![e].pc = "locked",
                                        ![e].fresh = Labelled(catalog \ extraction[e].above)]
    /\ UNCHANGED <<catalog, parent, resolution, confirmed>>

\* _remember_candidate: the row under the name that was asked for.
Remembered(known, row, name) ==
    IF \E c \in known : c.row = row THEN known ELSE known \cup {[row |-> row, label |-> name]}

\* Scored again, a row is created if there still is none; a row of the same code is moved.
Create(e) ==
    LET name == Name(e)
        hits == Hits(name, extraction[e].fresh, Aliases)
    IN  /\ extraction[e].pc = "locked"
        /\ lock' = Nobody
        /\ \/ \E row \in hits :
                 /\ Cardinality(hits) = 1
                 /\ Bind(e, row, Remembered(extraction[e].known, row, name))
                 /\ UNCHANGED <<catalog, parent>>
           \/ /\ Cardinality(hits) > 1
              /\ Leave(e)
              /\ UNCHANGED <<catalog, parent>>
           \/ /\ hits = {}
              /\ catalog' = catalog \cup {name}
              /\ parent' = [parent EXCEPT ![name] = extraction[e].answer]
              /\ Bind(e, name, Remembered(extraction[e].known, name, name))
        /\ UNCHANGED <<resolution, confirmed>>

\* The answer is kept for the mention, and the next name taken.
NextMention(e) ==
    /\ extraction[e].pc = "bound"
    /\ extraction' = [extraction EXCEPT ![e] = [NoProgress EXCEPT
           !.pc = "loaded", !.known = extraction[e].known, !.aliases = extraction[e].aliases]]
    /\ UNCHANGED <<catalog, parent, resolution, confirmed, lock>>

\* The extraction is over, or its process is; what it holds open is rolled back.
EndExtraction(e) ==
    /\ extraction[e].pc # "idle"
    /\ extraction' = [extraction EXCEPT ![e] = NoProgress]
    /\ lock' = IF lock = e THEN Nobody ELSE lock
    /\ UNCHANGED <<catalog, parent, resolution, confirmed>>

ExtractionStep(e) ==
    \/ LoadCandidates(e) \/ LoadAliases(e) \/ MentionName(e) \/ ResolveName(e) \/ Place(e)
    \/ TakeLock(e) \/ Create(e) \/ NextMention(e) \/ EndExtraction(e)

CatalogNext == \E e \in Extractors : ExtractionStep(e)
CatalogSpec == CatalogInit /\ [][CatalogNext]_catalogVars

-----------------------------------------------------------------------------

\* Every variable holds what its columns may hold.
CatalogTypeOK ==
    /\ catalog \subseteq Rows
    /\ parent \in [Rows -> Rows \cup {Nobody}]
    /\ resolution \in [Names -> {"none", "corroborated", "other"}]
    /\ confirmed \subseteq Names
    /\ lock \in Extractors \cup {Nobody}
    /\ \A e \in Extractors : extraction[e].pc = "idle" \/ extraction[e].known \subseteq Candidates

\* A row is created only if nothing in the catalog, as it is at that moment, is like it,
\* the ancestors bound on its way apart ("no candidate at or above the similarity
\* threshold", corporate_entity_ingestion.py): of two extractions that have found nothing
\* one creates and the other binds what it created.
TwinsAreKin ==
    [][\A e \in Extractors : \A name \in catalog' \ catalog :
          extraction[e].pc = "locked" /\ extraction'[e].pc # "locked" =>
              BestRows(name, Labelled(catalog \ extraction[e].above), Enough) = {}]_catalogVars

\* Two names are of one entity: alike, or one the corroborated full name of the other.
OneEntity(a, b) ==
    \/ Likeness[a][b] >= Enough
    \/ a \in confirmed /\ FullName[a] = b
    \/ b \in confirmed /\ FullName[b] = a

\* What a mention is bound to stands in the catalog, and it has the mention's name, one
\* that is of the same entity, or one from which it is two such steps away: a short name
\* is expanded first, and a row found under the lock is remembered under the name that
\* found it.
BoundByLikeness ==
    \A e \in Extractors : extraction[e].pc = "bound" /\ extraction[e].answer # Nobody =>
        /\ extraction[e].answer \in catalog
        /\ \E a, b \in Names :
              /\ extraction[e].asked = a \/ OneEntity(extraction[e].asked, a)
              /\ OneEntity(a, b)
              /\ OneEntity(b, Label(extraction[e].answer))

\* "Parent failure, cycles, and excessive depth all fail closed"
\* (corporate_entity_ingestion.py): no entity stands above itself.
NoEntityAboveItself ==
    \A r \in catalog : parent[r] # r /\ (parent[r] # Nobody => parent[parent[r]] # r)
=============================================================================
