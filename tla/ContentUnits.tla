---------------------------- MODULE ContentUnits ----------------------------
(***************************************************************************)
(* How the body of a post becomes its units, and when the ledger says so:  *)
(* pictures are described, indentation is adjudicated and vectors are      *)
(* computed by providers that may fail batch by batch, then one            *)
(* transaction replaces what is persisted, whoever wrote it.               *)
(* lineageweave/post_content_normalization.py, post_content_persistence.py *)
(* and their provider clients; the jobs of post_content_worker.py with the *)
(* rules of post_content_queue.py; the scripts that persist units without  *)
(* a job.                                                                  *)
(*                                                                         *)
(* One post.  Time, wake-ups and the analyses beside the units are those   *)
(* of PostContentQueue: here a retry may be due, a lease expired and an    *)
(* analysis missing at any moment.  Bodies have text, and the import gives *)
(* no turns of a conversation in place of the pieces of a body.            *)
(***************************************************************************)
EXTENDS Integers, Sequences, FiniteSets

CONSTANTS
    Drafts, NoDraft,    \* bodies of the post
    Pieces,             \* [Drafts -> sequence of pieces], chunk_by_source_body
    Writers,            \* consumers and scripts at work at a time
    Models, NoModel,    \* models that the embedding provider may resolve
    BatchSize,          \* _LLM_BATCH_MAX_UNITS
    MaxRegions,         \* panels that a locator may find
    MaxAttempts,        \* POST_CONTENT_MAX_ATTEMPTS
    MaxClaims,          \* bound on attempt_count where the code has none
    MaxBudgets          \* bound on the budgets: resets of attempt_count and one

ASSUME UnitPieces ==
    Pieces \in [Drafts -> Seq([kind : {"text", "picture"}, indent : Nat])] /\ NoDraft \notin Drafts
ASSUME UnitBounds ==
    /\ BatchSize \in Nat \ {0} /\ MaxRegions \in Nat
    /\ MaxAttempts \in Nat /\ MaxClaims \in Nat /\ MaxBudgets \in Nat \ {0}

VARIABLES
    draft,      \* the present body
    persisted,  \* post_content_unit and what hangs on it
    ledger,     \* the row of post_content_ingestion_job; its budget counts resets (history)
    glance,     \* what a reader or an operator has read and is about to act on
    writing,    \* progress of each consumer or script
    author,     \* history: the claim whose units are persisted, if a claim wrote them
    judge       \* history: the budget of the claim that declared success last, and its body

unitVars == <<draft, persisted, ledger, glance, writing, author, judge>>

\* A piece is a text or a picture; indent is the width that its markup declares.
TextPieces(d) == {i \in DOMAIN Pieces[d] : Pieces[d][i].kind = "text"}
PicturePieces(d) == {i \in DOMAIN Pieces[d] : Pieces[d][i].kind = "picture"}
Explicit(d) == {i \in TextPieces(d) : Pieces[d][i].indent > 0}

\* budget and attempt number the claim that is at work; a script has none.
NotAtWork == [pc |-> "idle", by |-> "none", of |-> NoDraft, budget |-> 0, attempt |-> 0,
              pictures |-> <<>>, source |-> <<>>, todo |-> <<>>, model |-> NoModel, vectors |-> {}]
NothingStored == [of |-> NoDraft, pictures |-> <<>>, source |-> <<>>, model |-> NoModel, vectors |-> {}]
Active == {"queued", "running"}
LedgerStatuses == Active \cup {"absent", "succeeded", "failed"}
NoGlance == [of |-> NoDraft, complete |-> "unread"]
NoClaim == [budget |-> 0, attempt |-> 0]
NoJudge == [budget |-> 0, of |-> NoDraft]

UnitsInit ==
    /\ draft \in Drafts /\ persisted = NothingStored
    /\ ledger = [status |-> "absent", digest |-> NoDraft, attempts |-> 0, budget |-> 1]
    /\ glance = NoGlance /\ writing = [w \in Writers |-> NotAtWork]
    /\ author = NoClaim /\ judge = NoJudge

Continues(w, state) == writing' = [writing EXCEPT ![w] = state]

\* What is remembered once units are computed or given up; the model only to check them.
Stage(state, pc) ==
    [NotAtWork EXCEPT !.pc = pc, !.by = state.by, !.of = state.of, !.budget = state.budget,
        !.attempt = state.attempt, !.model = IF pc = "check" THEN state.model ELSE NoModel]

InOrder(among) == CHOOSE s \in [1 .. Cardinality(among) -> among] :
                      \A i, j \in DOMAIN s : i < j => s[i] < s[j]
Taken(list) == SubSeq(list, 1, IF Len(list) < BatchSize THEN Len(list) ELSE BatchSize)
Remaining(list) == SubSeq(list, Len(Taken(list)) + 1, Len(list))
Listed(list) == {list[i] : i \in DOMAIN list}

Panels(state, i) == {r \in DOMAIN state.pictures[i].regions : state.pictures[i].regions[r]}

\* post_content_is_complete of what is persisted, with all providers configured: a picture that
\* failed has a placeholder, which has a vector.
Complete(units, model) ==
    /\ units.of # NoDraft /\ Pieces[units.of] # <<>>
    /\ model \in {NoModel, units.model}
    /\ \A i \in DOMAIN Pieces[units.of] : <<i, 0>> \in units.vectors
    /\ \A i \in DOMAIN units.pictures : {i} \X Panels(units, i) \subseteq units.vectors
    /\ \A i \in DOMAIN units.source : units.source[i] # "unresolved"

-----------------------------------------------------------------------------
(* The ledger. *)

\* The attempts count from 0 again.
Requeue ==
    /\ ledger.budget < MaxBudgets
    /\ ledger' = [status |-> "queued", digest |-> glance.of, attempts |-> 0, budget |-> ledger.budget + 1]

\* A content request reads the body, then whether its units are complete, and acts on both in
\* a third transaction; an explicit retry acts on the body alone.
Look ==
    /\ \/ glance = NoGlance /\ glance' = [of |-> draft, complete |-> "unread"]
       \/ /\ glance.of # NoDraft /\ glance.complete = "unread"
          /\ glance' = [glance EXCEPT !.complete = IF Complete(persisted, NoModel) THEN "yes" ELSE "no"]
    /\ UNCHANGED <<draft, persisted, ledger, writing, author, judge>>

NeedsRequeue ==
    ledger.digest # glance.of \/ (ledger.status = "succeeded" /\ glance.complete = "no")

\* ensure_post_content_job.
Ensure ==
    /\ glance.complete # "unread" /\ glance' = NoGlance
    /\ \/ /\ ledger.status = "absent"
          /\ ledger' = [ledger EXCEPT !.status = IF glance.complete = "yes" THEN "succeeded" ELSE "queued",
                                      !.digest = glance.of]
       \/ ledger.status # "absent" /\ NeedsRequeue /\ Requeue
       \/ ledger.status # "absent" /\ ~NeedsRequeue /\ UNCHANGED ledger
    /\ UNCHANGED <<draft, persisted, writing, author, judge>>

\* requeue_failed_post_content_job, which raises unless the row is failed.
RequeueFailed ==
    /\ glance.of # NoDraft /\ glance.complete = "unread" /\ glance' = NoGlance
    /\ \/ ledger.status = "failed" /\ Requeue
       \/ ledger.status # "failed" /\ UNCHANGED ledger
    /\ UNCHANGED <<draft, persisted, writing, author, judge>>

Begins(w, by, d, claim, model) ==
    /\ writing[w].pc = "idle"
    /\ Continues(w, [NotAtWork EXCEPT !.pc = "pictures", !.by = by, !.of = d, !.budget = claim.budget,
                                      !.attempt = claim.attempt, !.model = model])

\* _claim_job, with the body of this moment; of what succeeded when something is missing.
TakeLease(w) ==
    /\ \/ ledger.status = "succeeded"
       \/ ledger.status \in Active /\ ledger.attempts < MaxAttempts
    /\ ledger.attempts < MaxClaims
    /\ ledger' = [ledger EXCEPT !.status = "running", !.attempts = @ + 1]
    /\ Begins(w, "job", draft, [budget |-> ledger.budget, attempt |-> ledger.attempts + 1], NoModel)
    /\ UNCHANGED <<draft, persisted, glance, author, judge>>

RefuseExhausted ==
    /\ ledger.status \in Active /\ ledger.attempts >= MaxAttempts
    /\ ledger' = [ledger EXCEPT !.status = "failed"]
    /\ UNCHANGED <<draft, persisted, glance, writing, author, judge>>

\* The import replaces the body, by another or the same, and persists its units without a
\* job; the backfill of summaries does the same with the body it finds.  A script keeps its
\* provider clients from post to post.
ImportPost(w) ==
    /\ \E d \in Drafts, model \in Models \cup {NoModel} :
           draft' = d /\ Begins(w, "import", d, NoClaim, model)
    /\ UNCHANGED <<persisted, ledger, glance, author, judge>>

\* backfill_post_content.
Backfill(w) ==
    /\ \E model \in Models \cup {NoModel} : Begins(w, "backfill", draft, NoClaim, model)
    /\ UNCHANGED <<draft, persisted, ledger, glance, author, judge>>

-----------------------------------------------------------------------------
(* From the body to its units. *)

\* _describe_image_chunk: panels that the locator finds are described one by one and the whole
\* picture once more; one description of any of them describes the picture, and no panel of
\* its own when the locator fails or returns the whole.
Outcomes == {[status |-> IF whole \/ \E r \in DOMAIN crops : crops[r] THEN "described" ELSE "failed",
              regions |-> IF whole \/ \E r \in DOMAIN crops : crops[r] THEN crops ELSE <<>>] :
                 whole \in BOOLEAN, crops \in UNION {[1 .. n -> BOOLEAN] : n \in 0 .. MaxRegions}}

\* What is left to adjudicate: texts without declared indentation.
ToAdjudicate(d) == InOrder(TextPieces(d) \ Explicit(d))

Describe(w) == LET d == writing[w].of IN
    /\ writing[w].pc = "pictures"
    /\ \E found \in [PicturePieces(d) -> Outcomes] :
           Continues(w, [writing[w] EXCEPT !.pc = "structure", !.pictures = found,
                 !.todo = ToAdjudicate(d),
                 !.source = [i \in TextPieces(d) |-> IF i \in Explicit(d) THEN "explicit" ELSE "unresolved"]])
    /\ UNCHANGED <<draft, persisted, ledger, glance, author, judge>>

\* infer drops decisions about units that it did not ask for, its caller those about units
\* with declared indentation.
Accepted(d, answered, batch) == answered \cap batch \cap (TextPieces(d) \ Explicit(d))

\* Texts and pictures with some rendering are embedded, then described panels; the second
\* part of a key is 0 for the unit itself.
Keys(state) ==
    LET units == [i \in DOMAIN Pieces[state.of] |-> <<i, 0>>]
        panels == UNION {{i} \X Panels(state, i) : i \in PicturePieces(state.of)}
        place == CHOOSE s \in [1 .. Cardinality(panels) -> panels] : Listed(s) = panels
    IN  units \o place

Described(state, key) ==
    key[2] # 0 => key[1] \in DOMAIN state.pictures /\ state.pictures[key[1]].regions[key[2]]

\* One batch; a batch that fails decides nothing.
Structure(w) == LET state == writing[w]  batch == Listed(Taken(state.todo)) IN
    /\ state.pc = "structure"
    /\ IF state.todo = <<>>
       THEN Continues(w, [state EXCEPT !.pc = "vectors", !.todo = Keys(state)])
       ELSE \E answered \in SUBSET TextPieces(state.of) :
            Continues(w, [state EXCEPT !.todo = Remaining(@),
                 !.source = [i \in DOMAIN @ |-> IF i \in Accepted(state.of, answered, batch) THEN "llm" ELSE @[i]]])
    /\ UNCHANGED <<draft, persisted, ledger, glance, author, judge>>

\* embed_many and _bind_model: the first model that answers is bound for this attempt; a batch
\* that another answers, or that does not become whole, has no vectors.
Embed(w) == LET state == writing[w] IN
    /\ state.pc = "vectors"
    /\ IF state.todo = <<>> THEN Continues(w, [state EXCEPT !.pc = "replace"])
       ELSE \E model \in Models \cup {NoModel}, whole \in BOOLEAN :
            LET bound == model # NoModel /\ state.model \in {NoModel, model} IN
            Continues(w, [state EXCEPT !.todo = Remaining(@), !.model = IF bound THEN model ELSE @,
                 !.vectors = IF bound /\ whole THEN @ \cup Listed(Taken(state.todo)) ELSE @])
    /\ UNCHANGED <<draft, persisted, ledger, glance, author, judge>>

\* The transaction; nothing in it asks who holds the lease.
Replace(w) == LET state == writing[w] IN
    /\ state.pc = "replace"
    /\ persisted' = [of |-> state.of, pictures |-> state.pictures, source |-> state.source,
                  model |-> state.model, vectors |-> state.vectors]
    /\ author' = [budget |-> state.budget, attempt |-> state.attempt]
    /\ Continues(w, CASE state.by = "job" -> Stage(state, "check")
                       [] state.by = "backfill" -> Stage(state, "record")
                       [] OTHER -> NotAtWork)
    /\ UNCHANGED <<draft, ledger, glance, judge>>

\* A provider or a statement raises, in an analysis beside the units too.
AttemptFails(w) ==
    /\ writing[w].by = "job" /\ writing[w].pc \in {"pictures", "structure", "vectors", "replace", "check"}
    /\ Continues(w, Stage(writing[w], "retry"))
    /\ UNCHANGED <<draft, persisted, ledger, glance, author, judge>>

\* A process ends, or a script on an exception.
Stops(w) ==
    /\ writing[w].pc # "idle" /\ Continues(w, NotAtWork)
    /\ UNCHANGED <<draft, persisted, ledger, glance, author, judge>>

-----------------------------------------------------------------------------
(* What the ledger makes of it. *)

\* Bug: units of the body will do, vectors or not.
CheckBody(w) ==
    /\ writing[w].pc = "check"
    /\ Continues(w, Stage(writing[w], IF persisted.of = writing[w].of THEN "succeed" ELSE "retry"))
    /\ UNCHANGED <<draft, persisted, ledger, glance, author, judge>>

\* Whatever is stored by now is looked at, in a transaction of its own.
Check(w) == LET state == writing[w] IN
    /\ state.pc = "check"
    /\ Continues(w, Stage(state, IF Complete(persisted, state.model) THEN "succeed" ELSE "retry"))
    /\ UNCHANGED <<draft, persisted, ledger, glance, author, judge>>

\* transition_post_content_job compares the number of the attempt and nothing else.
HasPresentNumber(w) == writing[w].attempt = ledger.attempts

\* _finish_job.
FinishSucceeded(w) == LET state == writing[w] IN
    /\ state.pc = "succeed" /\ Continues(w, NotAtWork)
    /\ \/ /\ HasPresentNumber(w)
          /\ ledger' = [ledger EXCEPT !.status = "succeeded"]
          /\ judge' = [budget |-> state.budget, of |-> state.of]
       \/ ~HasPresentNumber(w) /\ UNCHANGED <<ledger, judge>>
    /\ UNCHANGED <<draft, persisted, glance, author>>

\* _finish_failed_job, which compares the status too.
FinishFailed(w) == LET state == writing[w] IN
    /\ state.pc = "retry" /\ Continues(w, NotAtWork)
    /\ \/ /\ ledger.status = "running" /\ HasPresentNumber(w)
          /\ ledger' = [ledger EXCEPT !.status = IF state.attempt >= MaxAttempts THEN "failed" ELSE "queued"]
       \/ ~(ledger.status = "running" /\ HasPresentNumber(w)) /\ UNCHANGED ledger
    /\ UNCHANGED <<draft, persisted, glance, author, judge>>

\* record_post_content_backfill_success, which raises while a job is active and asks for no
\* completeness.
Record(w) == LET state == writing[w] IN
    /\ state.pc = "record" /\ Continues(w, NotAtWork)
    /\ \/ /\ ledger.status \notin Active
          /\ ledger' = [ledger EXCEPT !.status = "succeeded", !.digest = state.of]
          /\ judge' = NoJudge
       \/ ledger.status \in Active /\ UNCHANGED <<ledger, judge>>
    /\ UNCHANGED <<draft, persisted, glance, author>>

Write(w) ==
    \/ TakeLease(w) \/ ImportPost(w) \/ Backfill(w)
    \/ Describe(w) \/ Structure(w) \/ Embed(w) \/ Replace(w) \/ AttemptFails(w) \/ Stops(w)
    \/ Check(w) \/ FinishSucceeded(w) \/ FinishFailed(w) \/ Record(w)

UnitsNext == (\E w \in Writers : Write(w)) \/ Look \/ Ensure \/ RequeueFailed \/ RefuseExhausted
UnitsSpec == UnitsInit /\ [][UnitsNext]_unitVars

-----------------------------------------------------------------------------

\* No consumer is ahead of the row; attempts compare within one budget only.
UnitsTypeOK ==
    /\ draft \in Drafts /\ persisted.of \in Drafts \cup {NoDraft}
    /\ ledger \in [status : LedgerStatuses, digest : Drafts \cup {NoDraft},
                   attempts : 0 .. MaxClaims, budget : 1 .. MaxBudgets]
    /\ \A w \in Writers :
           /\ writing[w].budget <= ledger.budget
           /\ writing[w].budget = ledger.budget => writing[w].attempt <= ledger.attempts

Holder == [budget |-> ledger.budget, attempt |-> ledger.attempts]

\* A success that a claim of the present budget declared, while the units that stand are those
\* of the present attempt, was declared of these units: they are of its body, and whole.  (An
\* attempt that lost its lease, a script, or a claim of a budget before may write or declare
\* too; nothing is said of their units.)
SucceededIsStored ==
    ledger.status = "succeeded" /\ judge.budget = ledger.budget /\ author = Holder =>
        persisted.of = judge.of /\ Complete(persisted, NoModel)

\* What is persisted of one body hangs together: indentation that the markup declares is not
\* adjudicated, only described panels have vectors, and all vectors are of one known model.
EvidenceHangsTogether ==
    /\ \A i \in DOMAIN persisted.source : persisted.source[i] = "explicit" <=> i \in Explicit(persisted.of)
    /\ \A key \in persisted.vectors : Described(persisted, key)
    /\ persisted.vectors # {} => persisted.model # NoModel

\* Both hold of the units at any time.
UnitsAreWhole == SucceededIsStored /\ EvidenceHangsTogether
=============================================================================
