-------------------------- MODULE SourceRevisions --------------------------
(***************************************************************************)
(* Source posts and their valid-time history: the import of                *)
(* scripts/import_postgresql_posts.py, the triggers of migrations 0024,    *)
(* 0237 and 0243, additional Voices of                                     *)
(* backend/app/source_post_voice_ingestion.py, and what                    *)
(* backend/app/source_post_revision.py answers for a clock in the past.    *)
(*                                                                         *)
(* A body is dated by the source system, which may edit a record without   *)
(* moving its clock forward; a Voice is dated by the database.  Every      *)
(* statement of the import commits by itself.                              *)
(***************************************************************************)
EXTENDS Integers, FiniteSets

CONSTANTS
    Imported,   \* source_post keys
    Bodies,     \* titles and bodies
    Voices,     \* voc_type codes
    Sources,    \* evidence of an additional Voice: truth status and derivation
    Primary,    \* the evidence of a primary Voice
    Importers,  \* runs of the import script
    MaxTime     \* the last instant explored

ASSUME RevisionTime == MaxTime \in Nat
ASSUME RevisionEvidence == Primary \notin Sources
ASSUME RevisionColumns == Bodies # {} /\ Voices # {}

VARIABLES
    now,        \* clock_timestamp()
    post,       \* source_post
    revisions,  \* source_post_revision of each post
    voices,     \* source_post_voice of each post
    import      \* progress of each import

revisionVars == <<now, post, revisions, voices, import>>

-----------------------------------------------------------------------------

Times == 0 .. MaxTime
Open == MaxTime + 1     \* a null end

Records == [there : BOOLEAN, body : Bodies, updated : Times, voice : Voices]
Absent == [there |-> FALSE, body |-> CHOOSE b \in Bodies : TRUE, updated |-> 0,
           voice |-> CHOOSE v \in Voices : TRUE]
Revisions == [body : Bodies, from : Times, to : Times \cup {Open}]
Assignments == [voice : Voices, evidence : Sources \cup {Primary},
                from : Times, to : Times \cup {Open}]

\* at: the posts whose row is written and whose revision and content are not.
Imports == [pc : {"idle", "rows", "revision", "content", "failed"},
            rows : [Imported -> Records], left : SUBSET Imported, at : SUBSET Imported]
NoImport == [pc |-> "idle", rows |-> [p \in Imported |-> Absent], left |-> {}, at |-> {}]

RevisionInit ==
    /\ now = 0
    /\ post = [p \in Imported |-> Absent]
    /\ revisions = [p \in Imported |-> {}]
    /\ voices = [p \in Imported |-> {}]
    /\ import = [i \in Importers |-> NoImport]

Current(intervals) == {x \in intervals : x.to = Open}
Close(intervals, ending, time) ==
    (intervals \ ending) \cup {[x EXCEPT !.to = time] : x \in ending}

-----------------------------------------------------------------------------
\* The import.

\* The source system is asked once, and has edited its records in any way.
FetchRows(i) == \E rows \in [Imported -> Records] :
    /\ import[i].pc = "idle"
    /\ \A p \in Imported : rows[p].there \/ rows[p] = Absent
    /\ \A p \in Imported : rows[p].updated <= now
    /\ import' = [import EXCEPT ![i] = [NoImport EXCEPT
           !.pc = "rows", !.rows = rows, !.left = {p \in Imported : rows[p].there}]]
    /\ UNCHANGED <<now, post, revisions, voices>>

\* Bug: the last revision is rewritten in place.
RevisedInPlace(old, new, kept) ==
    IF old.there /\ old.body = new.body THEN kept
    ELSE (kept \ Current(kept)) \cup {[body |-> new.body, to |-> Open,
             from |-> IF old.there THEN old.updated ELSE new.updated]}

\* record_source_post_revision.
Revised(old, new, kept) ==
    IF old.there /\ old.body = new.body THEN kept
    ELSE Close(kept, Current(kept), new.updated)
             \cup {[body |-> new.body, from |-> new.updated, to |-> Open]}

\* synchronize_source_post_primary_voice.  A new post has had its Voice since it was created.
Revoiced(old, new, kept) ==
    IF old.there /\ old.voice = new.voice THEN kept
    ELSE Close(kept, {x \in Current(kept) : x.evidence = Primary \/ x.voice = new.voice}, now)
             \cup {[voice |-> new.voice, evidence |-> Primary, to |-> Open,
                    from |-> IF old.there THEN now ELSE 0]}

\* source_post_revision_interval_check.  The clock of the database never gives one instant
\* to two changes, so that source_post_voice_effective_interval_check holds.
Ordered(kept) == \A x \in kept : x.from <= x.to
Proper(kept) == \A x \in kept : x.from < x.to

FailImport(i) == import' = [import EXCEPT ![i] = [NoImport EXCEPT !.pc = "failed"]]

\* The upsert and its triggers are one statement: it fails as a whole.
Upsert(i) == \E p \in import[i].left :
    LET new     == import[i].rows[p]
        revised == Revised(post[p], new, revisions[p])
        spoken  == Revoiced(post[p], new, voices[p])
    IN  /\ import[i].pc = "rows"
        /\ Proper(spoken)
        /\ IF Ordered(revised)
           THEN /\ post' = [post EXCEPT ![p] = new]
                /\ revisions' = [revisions EXCEPT ![p] = revised]
                /\ voices' = [voices EXCEPT ![p] = spoken]
                /\ import' = [import EXCEPT ![i].pc = "revision", ![i].at = {p},
                                            ![i].left = import[i].left \ {p}]
           ELSE /\ FailImport(i)
                /\ UNCHANGED <<post, revisions, voices>>
        /\ UNCHANGED now

\* The import adds a current revision unless one starts at the record's time;
\* source_post_revision_current_idx admits one current revision of a post.
AddRevision(i) == \E p \in import[i].at :
    LET new == [body |-> import[i].rows[p].body, from |-> import[i].rows[p].updated, to |-> Open]
    IN  /\ import[i].pc = "revision"
        /\ \/ /\ \E x \in Current(revisions[p]) : x.from = new.from
              /\ import' = [import EXCEPT ![i].pc = "content"]
              /\ UNCHANGED revisions
           \/ /\ Current(revisions[p]) # {}
              /\ \A x \in Current(revisions[p]) : x.from # new.from
              /\ FailImport(i)
              /\ UNCHANGED revisions
        /\ UNCHANGED <<now, post, voices>>

\* persist_post_content, which asks providers and may raise.
PersistContent(i) ==
    /\ import[i].pc = "content"
    /\ \/ import' = [import EXCEPT ![i] = IF import[i].left = {} THEN NoImport
                                          ELSE [import[i] EXCEPT !.pc = "rows", !.at = {}]]
       \/ FailImport(i)
    /\ UNCHANGED <<now, post, revisions, voices>>

\* The script is started again.
StartAgain(i) ==
    /\ import[i].pc = "failed"
    /\ import' = [import EXCEPT ![i] = NoImport]
    /\ UNCHANGED <<now, post, revisions, voices>>

-----------------------------------------------------------------------------
\* An additional Voice; it waits for a writer of the post.

AssignVoice(p) == \E voice \in Voices \ {post[p].voice}, evidence \in Sources :
    LET current == {x \in Current(voices[p]) : x.voice = voice}
        spoken  == Close(voices[p], current, now)
                       \cup {[voice |-> voice, evidence |-> evidence, from |-> now, to |-> Open]}
    IN  /\ post[p].there
        /\ \A x \in current : x.evidence \notin {Primary, evidence}
        /\ Proper(spoken)
        /\ voices' = [voices EXCEPT ![p] = spoken]
        /\ UNCHANGED <<now, post, revisions, import>>

Tick ==
    /\ now < MaxTime
    /\ now' = now + 1
    /\ UNCHANGED <<post, revisions, voices, import>>

ImportStep(i) == FetchRows(i) \/ Upsert(i) \/ AddRevision(i) \/ PersistContent(i) \/ StartAgain(i)

RevisionNext ==
    \/ \E p \in Imported : AssignVoice(p)
    \/ \E i \in Importers : ImportStep(i)
    \/ Tick

RevisionSpec == RevisionInit /\ [][RevisionNext]_revisionVars

-----------------------------------------------------------------------------
\* What a reader is told of a clock.

Covers(x, time) == x.from <= time /\ time < x.to
KnownAt(p, time) == {x.body : x \in {y \in revisions[p] : Covers(y, time)}}
SpokenAt(p, time) ==
    {[voice |-> x.voice, evidence |-> x.evidence] : x \in {y \in voices[p] : Covers(y, time)}}

-----------------------------------------------------------------------------

\* Every variable holds what its columns may hold, dated within the instants explored.
RevisionTypeOK ==
    /\ now \in Times
    /\ post \in [Imported -> Records]
    /\ \A p \in Imported : revisions[p] \subseteq Revisions /\ voices[p] \subseteq Assignments
    /\ import \in [Importers -> Imports]

\* At every clock since a post was first written one body is known and one primary Voice
\* spoken, whatever order imports, edits and assignments come in; the last ones are those
\* of the live row, and no Voice is spoken twice at once.
OneVersionKnown ==
    \A p \in Imported : post[p].there =>
        /\ \A time \in Times : \A x, y \in revisions[p] :
               Covers(x, time) /\ Covers(y, time) => x = y
        /\ \A x \in revisions[p] : \A time \in x.from .. MaxTime : KnownAt(p, time) # {}
        /\ KnownAt(p, MaxTime) = {post[p].body}
        /\ \A time \in Times :
               /\ Cardinality({x \in SpokenAt(p, time) : x.evidence = Primary}) = 1
               /\ \A x, y \in voices[p] :
                      Covers(x, time) /\ Covers(y, time) /\ x.voice = y.voice => x = y
        /\ [voice |-> post[p].voice, evidence |-> Primary] \in SpokenAt(p, MaxTime)

\* What was known of a post before a write stays known: a body changes no clock before its
\* own time, a Voice none before the instant of its change ("Bind an additional Voice
\* without rewriting earlier cutoff evidence", persist_additional_voice_assignment).
PastIsKept ==
    [][\A p \in Imported : post[p].there =>
          \A time \in Times :
              /\ KnownAt(p, time)' # KnownAt(p, time) => time >= post'[p].updated
              /\ SpokenAt(p, time)' # SpokenAt(p, time) => time >= now]_revisionVars
=============================================================================
