-------------------------- MODULE AnalysisRegistry --------------------------
(***************************************************************************)
(* The creation of analysis runs: create_pending_analysis_run of           *)
(* backend/app/analysis_run_ingestion.py in the transaction of its         *)
(* endpoint, with the constraints of migrations 0018 and 0022.             *)
(*                                                                         *)
(* A request reads the clock and the earlier run of its key, then the      *)
(* posts its cutoff admits, and later inserts a snapshot or reuses one of  *)
(* the same digest, and the run.  Other requests commit in between, and    *)
(* posts are imported with any earlier creation time.                      *)
(*                                                                         *)
(* One account and one corporate entity; a digest is what it is taken of.  *)
(***************************************************************************)
EXTENDS Integers, FiniteSets

CONSTANTS
    Keys,           \* idempotency keys
    Creators,       \* create requests in flight
    Documents,      \* source posts of the corporate entity
    NoKey,          \* no key
    MaxTime,        \* bound on the clock
    MaxCreates      \* bound on the requests made

ASSUME NoKeyAssumption == NoKey \notin Keys
ASSUME RegistryLimits == MaxTime \in Nat \ {0} /\ MaxCreates \in Nat

VARIABLES
    clock,          \* the database clock
    born,           \* created_at of each post; 0 while it does not exist
    withdrawn,      \* posts that are drafts, deleted or otherwise ineligible
    snapshots,      \* rows of analysis_source_snapshot with their members
    run,            \* the run of each key
    creator,        \* what each request asks for and has read
    creates         \* requests made

registryVars == <<clock, born, withdrawn, snapshots, run, creator, creates>>

-----------------------------------------------------------------------------

Unspecified == 0    \* the token of an omitted cutoff; a given one is its time
Tokens == 0 .. MaxTime
Times == 0 .. MaxTime

\* The digest of a snapshot covers scope, cutoff token and post ids.
Digests == [token : Tokens, documents : SUBSET Documents]
Snapshots == [digest : Digests, available : Times, members : SUBSET Documents]

NoDigest == [token |-> Unspecified, documents |-> {}]
RunRows == [exists : BOOLEAN, token : Tokens, cutoff : Times, digest : Digests]
NoRunRow == [exists |-> FALSE, token |-> Unspecified, cutoff |-> 0, digest |-> NoDigest]

\* reply: what the request is answered with.
Replies == {"none", "created", "replayed", "refused", "error"}
Creating == [pc : {"idle", "read", "insert", "done"}, key : Keys \cup {NoKey}, token : Tokens,
             cutoff : Times, documents : SUBSET Documents, reply : Replies]
NotCreating == [pc |-> "idle", key |-> NoKey, token |-> Unspecified, cutoff |-> 0,
                documents |-> {}, reply |-> "none"]

RegistryInit ==
    /\ clock = 1
    /\ born \in [Documents -> {0, 1}]
    /\ withdrawn = {}
    /\ snapshots = {}
    /\ run = [k \in Keys |-> NoRunRow]
    /\ creator = [c \in Creators |-> NotCreating]
    /\ creates = 0

Latest(documents, default) ==
    IF documents = {} THEN default
    ELSE CHOOSE t \in {born[x] : x \in documents} :
             \A x \in documents : born[x] =< t

\* The eligible posts that a cutoff admits.
Admitted(cutoff) == {x \in Documents \ withdrawn : born[x] # 0 /\ born[x] =< cutoff}

Answer(c, reply) ==
    creator' = [creator EXCEPT ![c].pc = "done", ![c].reply = reply]

-----------------------------------------------------------------------------

\* A request with a key and a cutoff at or before now, given or omitted.
AskRun(c, k, token) ==
    /\ creator[c].pc = "idle"
    /\ creates < MaxCreates
    /\ token =< clock
    /\ creates' = creates + 1
    /\ creator' = [creator EXCEPT ![c] =
           [NotCreating EXCEPT !.pc = "read", !.key = k, !.token = token,
                               !.cutoff = IF token = Unspecified THEN clock ELSE token]]
    /\ UNCHANGED <<clock, born, withdrawn, snapshots, run>>

\* Bug: whatever has the key is replayed.
SameKey(c) == run[creator[c].key].exists

\* configuration_sha256 covers kind, scope, cutoff token and key, not the posts.
SameConfiguration(c) == run[creator[c].key].token = creator[c].token

\* An earlier run of the key is replayed, or refused if it was asked differently.
ReplayRun(c) ==
    /\ creator[c].pc = "read"
    /\ run[creator[c].key].exists
    /\ Answer(c, IF SameConfiguration(c) THEN "replayed" ELSE "refused")
    /\ UNCHANGED <<clock, born, withdrawn, snapshots, run, creates>>

\* Otherwise the posts are read and the digest is taken.
CapturePosts(c) ==
    /\ creator[c].pc = "read"
    /\ ~run[creator[c].key].exists
    /\ creator' = [creator EXCEPT ![c].pc = "insert",
                                  ![c].documents = Admitted(creator[c].cutoff)]
    /\ UNCHANGED <<clock, born, withdrawn, snapshots, run, creates>>

\* Bug: key and cutoff are swapped.
DigestOfKey(c) == [token |-> creator[c].key, documents |-> creator[c].documents]

\* snapshot_sha256 covers cutoff token and posts, not the key.
DigestOf(c) == [token |-> creator[c].token, documents |-> creator[c].documents]

\* The snapshot of the digest: the stored one, or a new one with its members.
SnapshotFor(c) ==
    IF \E s \in snapshots : s.digest = DigestOf(c)
    THEN CHOOSE s \in snapshots : s.digest = DigestOf(c)
    ELSE [digest |-> DigestOf(c), members |-> creator[c].documents,
          available |-> Latest(creator[c].documents, creator[c].cutoff)]

\* Bug: the trigger is missing.
CutoffAllowsAll(c) == TRUE

\* enforce_analysis_run_knowledge_cutoff.
CutoffAllows(c) == SnapshotFor(c).available =< creator[c].cutoff

\* Snapshot, members, run, scope and Pending are committed together.
InsertRun(c) ==
    /\ creator[c].pc = "insert"
    /\ ~run[creator[c].key].exists
    /\ CutoffAllows(c)
    /\ snapshots' = snapshots \cup {SnapshotFor(c)}
    /\ run' = [run EXCEPT ![creator[c].key] =
           [exists |-> TRUE, token |-> creator[c].token, cutoff |-> creator[c].cutoff,
            digest |-> DigestOf(c)]]
    /\ Answer(c, "created")
    /\ UNCHANGED <<clock, born, withdrawn, creates>>

\* The trigger refuses a cutoff before the snapshot's evidence; or the key exists by
\* now: the query for the earlier run is made in the aborted transaction and fails.
InsertRaises(c) ==
    /\ creator[c].pc = "insert"
    /\ run[creator[c].key].exists \/ ~CutoffAllows(c)
    /\ Answer(c, "error")
    /\ UNCHANGED <<clock, born, withdrawn, snapshots, run, creates>>

\* The answer is read and the request is over.
EndCreate(c) ==
    /\ creator[c].pc = "done"
    /\ creator' = [creator EXCEPT ![c] = NotCreating]
    /\ UNCHANGED <<clock, born, withdrawn, snapshots, run, creates>>

\* Posts are written with the time that their source gives, also an earlier one.
WritePost(x) ==
    /\ born[x] = 0
    /\ \E t \in 1 .. clock : born' = [born EXCEPT ![x] = t]
    /\ UNCHANGED <<clock, withdrawn, snapshots, run, creator, creates>>

WithdrawPost(x) ==
    /\ born[x] # 0 /\ x \notin withdrawn
    /\ withdrawn' = withdrawn \cup {x}
    /\ UNCHANGED <<clock, born, snapshots, run, creator, creates>>

ClockTicks ==
    /\ clock < MaxTime
    /\ clock' = clock + 1
    /\ UNCHANGED <<born, withdrawn, snapshots, run, creator, creates>>

RegistryNext ==
    \/ \E c \in Creators, k \in Keys, token \in Tokens : AskRun(c, k, token)
    \/ \E c \in Creators :
          ReplayRun(c) \/ CapturePosts(c) \/ InsertRun(c) \/ InsertRaises(c) \/ EndCreate(c)
    \/ \E x \in Documents : WritePost(x) \/ WithdrawPost(x)
    \/ ClockTicks

RegistrySpec == RegistryInit /\ [][RegistryNext]_registryVars

-----------------------------------------------------------------------------
(* Properties. *)

\* Types of the rows and of the requests in flight.
RegistryTypeOK ==
    /\ clock \in Times /\ born \in [Documents -> Times] /\ withdrawn \in SUBSET Documents
    /\ snapshots \in SUBSET Snapshots
    /\ run \in [Keys -> RunRows]
    /\ creator \in [Creators -> Creating]
    /\ creates \in 0 .. MaxCreates

SnapshotOf(k) == CHOOSE s \in snapshots : s.digest = run[k].digest

\* No run rests on evidence that is younger than its cutoff, although runs with an
\* omitted cutoff share snapshots and posts are backdated meanwhile
\* (analysis_run_future_information_leakage, migration 0018).
NoFutureInformation ==
    \A k \in Keys : run[k].exists =>
        /\ \E s \in snapshots : s.digest = run[k].digest
        /\ SnapshotOf(k).available =< run[k].cutoff
        /\ \A x \in SnapshotOf(k).members : born[x] =< run[k].cutoff

\* Whoever is told that a run exists for his key gets the one he asked for: created and
\* replayed answers belong to a run of the same cutoff token.
AnswersMatch ==
    \A c \in Creators :
        creator[c].reply \in {"created", "replayed"} =>
            run[creator[c].key].exists /\ run[creator[c].key].token = creator[c].token
=============================================================================
