--------------------------- MODULE ExternalLineage ---------------------------
(***************************************************************************)
(* Lineage for consumers outside this product                              *)
(* (lineageweave/external_lineage_contract.py and                          *)
(* external_lineage_analysis.py): a request of evidence records is parsed, *)
(* checked and cut off before any pair of labels is shown to a model; the  *)
(* result is checked against the contract before it is returned.           *)
(*                                                                         *)
(* A reference is its position in the order of references.  Scores are not *)
(* modelled: of its candidates a record may follow any or none.            *)
(***************************************************************************)
EXTENDS Integers, Sequences, FiniteSets

CONSTANTS
    Clocks,         \* occurrence, availability and cutoff times
    Forever,        \* no knowledge_cutoff
    NoRef,          \* no explicit parent, no project
    Payloads,       \* decoded request documents
    MaxRecords,     \* MAX_RECORD_COUNT
    MaxWindow,      \* MAX_CANDIDATE_WINDOW
    MaxPairCount    \* MAX_PAIR_EVALUATIONS

ASSUME ExternalBounds == /\ Clocks \subseteq Int /\ MaxRecords \in Nat
                         /\ MaxWindow \in Nat /\ MaxPairCount \in Nat

\* What decoding makes of a record and of a cutoff.
Records == [ref : Int, group : Int, at : Clocks, parent : Int \cup {NoRef}, available : Clocks,
            project : Int \cup {NoRef}]
ASSUME ExternalPayloads ==
    /\ NoRef \notin Int
    /\ \A payload \in Payloads : /\ payload.records \in Seq(Records)
                               /\ payload.cutoff \in Clocks \cup {Forever}

VARIABLES
    demand,     \* the document, and what the host supplies to analyse it with
    inquiry     \* progress of analyze_external_lineage

externalVars == <<demand, inquiry>>

Estimates == {"none", "unsourced", "deterministic", "llm"}
NoResult == [edges |-> {}, projects |-> {}, limits |-> {}, included |-> {}, excluded |-> {}]
NotStarted == [pc |-> "sent", left |-> {}, judged |-> {}, inferred |-> {}, result |-> NoResult]

ExternalInit ==
    /\ demand \in [payload : Payloads, estimate : Estimates, client : BOOLEAN]
    /\ inquiry = NotStarted

-----------------------------------------------------------------------------
\* What the parser accepts.

Policy == demand.payload.policy
Rows == {demand.payload.records[i] : i \in DOMAIN demand.payload.records}
RefsOf(rows) == {x.ref : x \in rows}

Unrepeated(records) == \A i, j \in DOMAIN records : records[i].ref = records[j].ref => i = j

Parses(payload) ==
    /\ Len(payload.records) \in 1 .. MaxRecords
    /\ Unrepeated(payload.records)
    /\ payload.policy.window \in 1 .. MaxWindow
    /\ payload.policy.budget \in 1 .. MaxPairCount

\* _validate_explicit_parent_relations: of all records, whatever the cutoff.
ParentOf(child) == {x \in Rows : x.ref = child.parent}
Observed(rows) == {x \in rows : x.parent # NoRef}

ParentsAreSound ==
    /\ \A child \in Observed(Rows) :
           /\ child.parent # child.ref
           /\ \E x \in ParentOf(child) : x.group = child.group /\ x.at <= child.at
    /\ \A circle \in SUBSET Observed(Rows) : circle # {} =>
           \E child \in circle : ParentOf(child) \cap circle = {}

InTime(x) == demand.payload.cutoff = Forever \/ x.available <= demand.payload.cutoff

Included == {x \in Rows : InTime(x)}
Excluded == Rows \ Included

-----------------------------------------------------------------------------
\* Candidates.

Precedes(x, y) ==
    /\ x.group = y.group
    /\ x.at < y.at \/ (x.at = y.at /\ x.ref < y.ref)
IndexOf(x) == Cardinality({y \in Included : Precedes(y, x)})

\* Included records that follow x by caller-observed relations only.
ObservedUnder(x) ==
    {y \in Included : \A closed \in SUBSET Included :
        (\A z \in Included : (z.parent = x.ref \/ z.parent \in RefsOf(closed)) => z \in closed)
            => y \in closed}

\* Bug: those the caller has seen to follow x are not excluded.
InWindow(x) == {y \in Included : Precedes(y, x) /\ IndexOf(y) >= IndexOf(x) - Policy.window}

CandidatesFor(x) == InWindow(x) \ ObservedUnder(x)

\* Bug: a record is scored too if its observed parent was cut off.
UnobservedHere == {x \in Included : x.parent \notin RefsOf(Included)}

Unobserved == Included \ Observed(Included)
PairsToJudge == UNION {{<<y, x>> : y \in CandidatesFor(x)} : x \in Unobserved}

\* _selected_llm.
Status ==
    IF ~Policy.llm THEN "not_requested"
    ELSE IF demand.client /\ demand.estimate = "llm" THEN "completed" ELSE "unavailable"

-----------------------------------------------------------------------------

Continues(state) == inquiry' = state /\ UNCHANGED demand
Refuse == Continues([NotStarted EXCEPT !.pc = "refused", !.judged = inquiry.judged])

\* An estimate without provenance is refused once there is something to score.
Begin ==
    /\ inquiry.pc = "sent"
    /\ IF ~Parses(demand.payload) \/ ~ParentsAreSound
          \/ Cardinality(PairsToJudge) > Policy.budget
          \/ (demand.estimate = "unsourced" /\ Included # {})
       THEN Refuse
       ELSE Continues([inquiry EXCEPT !.pc = "inferring",
                !.left = IF demand.estimate = "none" THEN {} ELSE Unobserved])

\* The records are scored in the order of their groups; a pair is judged if the model takes part.
Infer == \E x \in inquiry.left :
    /\ inquiry.pc = "inferring"
    /\ \A y \in inquiry.left : x.group < y.group \/ x = y \/ Precedes(x, y)
    /\ \E chosen \in {{}} \cup {{y} : y \in CandidatesFor(x)} :
          Continues([inquiry EXCEPT
              !.left = @ \ {x},
              !.judged = IF Status = "completed" THEN @ \cup {<<y, x>> : y \in CandidatesFor(x)}
                         ELSE @,
              !.inferred = @ \cup {[parent |-> y.ref, child |-> x.ref, truth |-> "inferred"] :
                                      y \in chosen}])

\* The model fails, or its answer is not a score, at some candidate.
ModelFails == \E x \in inquiry.left : \E shown \in SUBSET CandidatesFor(x) :
    /\ inquiry.pc = "inferring" /\ Status = "completed" /\ shown # {}
    /\ \A y \in inquiry.left : x.group < y.group \/ x = y \/ Precedes(x, y)
    /\ Continues([NotStarted EXCEPT !.pc = "refused",
                      !.judged = inquiry.judged \cup {<<y, x>> : y \in shown}])

ObservedEdges ==
    {[parent |-> x.parent, child |-> x.ref, truth |-> "observed"] :
        x \in {y \in Observed(Included) : y.parent \in RefsOf(Included)}}

\* A record that has another before it in its group, and no observed parent.
MightFollow == {x \in Unobserved : IndexOf(x) > 0}

Limits ==
    {<<"evidence_after_cutoff_excluded", x.ref>> : x \in Excluded}
        \cup {<<"explicit_parent_after_cutoff", x.ref>> :
                 x \in {y \in Observed(Included) : y.parent \notin RefsOf(Included)}}
        \cup (IF demand.estimate = "none" /\ MightFollow # {}
              THEN {<<"channel_weights_unavailable", NoRef>>} ELSE {})

\* _project_groups: projects do not cross groups.
ProjectGroups ==
    {[group |-> x.group, project |-> x.project,
      refs |-> {y.ref : y \in {z \in Included : z.group = x.group /\ z.project = x.project}}] :
        x \in {y \in Included : y.project # NoRef}}

Result == [edges |-> inquiry.inferred \cup ObservedEdges, projects |-> ProjectGroups,
           limits |-> Limits, included |-> RefsOf(Included), excluded |-> RefsOf(Excluded)]

\* serialize_lineage_analysis_result, for the digest: what the contract demands.
MeetsContract(result) ==
    /\ result.included \cap result.excluded = {}
    /\ \A e \in result.edges : e.parent # e.child /\ {e.parent, e.child} \subseteq result.included
    /\ \A p \in result.projects : p.refs \subseteq result.included

Conclude ==
    /\ inquiry.pc = "inferring" /\ inquiry.left = {}
    /\ Continues([inquiry EXCEPT !.pc = IF MeetsContract(Result) THEN "answered" ELSE "broken",
                                 !.result = Result])

ExternalNext == Begin \/ Infer \/ ModelFails \/ Conclude
ExternalSpec == ExternalInit /\ [][ExternalNext]_externalVars

-----------------------------------------------------------------------------

\* Only known refusals and answers end an inquiry.
ExternalTypeOK ==
    /\ inquiry.pc \in {"sent", "inferring", "refused", "answered", "broken"}
    /\ inquiry.left \subseteq Rows /\ inquiry.judged \subseteq Rows \X Rows
    /\ inquiry.result # NoResult => inquiry.pc \in {"answered", "broken"}

\* Labels are disclosed to a model only as the caller allows: never for a child whose parent
\* the caller has observed, nor of evidence after the cutoff or of another group, and never
\* more pairs than declared ("rejects work above the declared budget before any optional
\* LLM/provider call", ADR 0239), even if the analysis fails.
DisclosureIsBounded ==
    /\ inquiry.judged # {} => /\ Policy.llm /\ demand.client
                              /\ Cardinality(inquiry.judged) <= Policy.budget
    /\ \A pair \in inquiry.judged :
          /\ pair[2].parent = NoRef /\ pair[1].group = pair[2].group /\ pair[1] # pair[2]
          /\ demand.payload.cutoff = Forever
                \/ (pair[1].available <= demand.payload.cutoff
                    /\ pair[2].available <= demand.payload.cutoff)

\* An answer meets the contract.  Every record has one parent at most; one that the caller
\* has observed stands, or is named as cut off; an inferred one neither reverses what was
\* observed nor leads back in time; and nothing that became known after the cutoff shows.
AnswerIsSound ==
    /\ inquiry.pc # "broken"
    /\ inquiry.pc = "answered" =>
          /\ \A e, f \in inquiry.result.edges : e.child = f.child => e = f
          /\ \A x, y \in Rows : \A e \in inquiry.result.edges :
                (e.parent = x.ref /\ e.child = y.ref) =>
                    /\ x.group = y.group /\ x.at <= y.at
                    /\ y.parent # NoRef => e.truth = "observed" /\ y.parent = x.ref
                    /\ \A known \in {x, y} : demand.payload.cutoff = Forever
                                                \/ known.available <= demand.payload.cutoff
                    /\ [parent |-> y.ref, child |-> x.ref, truth |-> "observed"]
                          \notin inquiry.result.edges
          /\ \A x \in Rows : (x.parent # NoRef /\ x.ref \in inquiry.result.included) =>
                 \/ \E e \in inquiry.result.edges : e.child = x.ref
                 \/ <<"explicit_parent_after_cutoff", x.ref>> \in inquiry.result.limits

\* No answer leads in a circle.  This does not hold: three records of one time, of which the
\* first follows the last as observed, may be inferred to follow each other.
AnswerIsAcyclic ==
    \A circle \in SUBSET RefsOf(Rows) : circle # {} =>
        \E child \in circle : \A e \in inquiry.result.edges :
            e.child = child => e.parent \notin circle
=============================================================================
