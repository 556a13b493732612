---------------------------- MODULE PostSummary ----------------------------
(***************************************************************************)
(* The summary of one post: read_post_summary of backend/app/main.py with  *)
(* the storage of backend/app/post_summary_ingestion.py.                   *)
(*                                                                         *)
(* A request captures the row of the post and its stored summary in one    *)
(* transaction, generates a summary outside any, and stores it in a second *)
(* transaction that locks the row for share and finds it unchanged.  Every *)
(* answer passes such a check of its own.  A summary of an older contract  *)
(* is shown, labelled stale, when no newer one can be made.                *)
(*                                                                         *)
(* The rows of one summary are replaced together and stand for one value:  *)
(* the text it was made of and its contract.  The shared catalog entries   *)
(* that its actors name are those of EntityCatalog.                        *)
(***************************************************************************)
EXTENDS SourceScope

CONSTANTS
    Summarized,         \* the posts whose summary is read
    Callers,            \* requests in flight
    Blank,              \* the body of a post imported without one
    RowVariants,        \* rows an import writes
    ScopeVariants       \* scopes an account may have

ASSUME SummaryDomain == Summarized # {} /\ Summarized \subseteq Posts /\ Blank \in Bodies
ASSUME SummaryChoices == RowVariants # {} /\ RowVariants \subseteq Rows /\ ScopeVariants \subseteq Scopes

VARIABLES
    present,    \* posts that exist
    source,     \* the row of each post
    summary,    \* the stored summary of each post
    call,       \* progress of each request
    told,       \* the answer each request has for its reader
    jobs,       \* posts and bodies whose content job was ensured
    wakes       \* wake-ups published on the post-content stream

summaryVars == <<present, source, summary, call, told, jobs, wakes>>

-----------------------------------------------------------------------------

Contracts == {"none", "old", "current"}      \* "none": nothing is stored
Summaries == [contract : Contracts, body : Bodies]
NoSummary == [contract |-> "none", body |-> Blank]

\* Why a request falls back on an older summary.
Reasons == {"none", "provider", "storage"}

Replies == [label : {"none", "current", "stale"}, body : Bodies, fresh : BOOLEAN,
            reason : Reasons]
NoReply == [label |-> "none", body |-> Blank, fresh |-> FALSE, reason |-> "none"]

Stages == {"idle", "generating", "writing", "publishing", "replying", "done"}

\* captured: the row the request has read.  stale: the older summary it may fall back on.
\* reply: the answer it is about to give.
Calls == [pc : Stages, post : Summarized, scope : Scopes, captured : RowVariants,
          stale : Summaries, reply : Replies]
NoCall == [pc |-> "idle", post |-> CHOOSE p \in Summarized : TRUE,
           scope |-> [entities |-> {}, units |-> {}],
           captured |-> CHOOSE any \in RowVariants : TRUE, stale |-> NoSummary,
           reply |-> NoReply]

\* A database migrated from an older contract holds summaries of it.
SummaryInit ==
    /\ present \in SUBSET Summarized
    /\ source \in [Summarized -> RowVariants]
    /\ summary \in [Summarized -> {NoSummary} \cup [contract : {"old"}, body : Bodies \ {Blank}]]
    /\ \A p \in Summarized : summary[p] # NoSummary => p \in present
    /\ call = [c \in Callers |-> NoCall]
    /\ told = [c \in Callers |-> NoReply]
    /\ jobs = {}
    /\ wakes = {}

-----------------------------------------------------------------------------

\* lock_unchanged_summary_source: the row may still be read and is the captured one.
Unchanged(c) ==
    /\ Readable(call[c].scope, present, source, call[c].post)
    /\ source[call[c].post] = call[c].captured

\* Bug: a reply without its label.
Unlabelled(label, body, fresh, reason) == [body |-> body, fresh |-> fresh, reason |-> reason]

Reply(label, body, fresh, reason) ==
    [label |-> label, body |-> body, fresh |-> fresh, reason |-> reason]

\* The call after a failure: it shows the older summary if there is one, else 503.
Fallback(c, reason) ==
    IF call[c].stale.contract = "none" THEN NoCall
    ELSE [call[c] EXCEPT !.pc = "replying",
                         !.reply = Reply("stale", call[c].stale.body, FALSE, reason)]

Finish(c) ==
    /\ call' = [call EXCEPT ![c] = NoCall]
    /\ told' = [told EXCEPT ![c] = NoReply]

\* A post without a body is refused: 503.
Capture(c) == \E post \in Summarized, scope \in ScopeVariants :
    LET saved == summary[post]
        start == [NoCall EXCEPT !.post = post, !.scope = scope, !.captured = source[post]]
    IN  /\ call[c].pc = "idle"
        /\ Readable(scope, present, source, post)
        /\ source[post].body # Blank
        /\ call' = [call EXCEPT ![c] =
               IF saved.contract = "current"
               THEN [start EXCEPT !.pc = "replying",
                                  !.reply = Reply("current", saved.body, FALSE, "none")]
               ELSE [start EXCEPT !.pc = "generating", !.stale = saved]]
        /\ UNCHANGED <<present, source, summary, told, jobs, wakes>>

\* The model is not configured or fails, or an identity cannot be prepared.
ProviderFails(c) ==
    /\ call[c].pc = "generating"
    /\ call' = [call EXCEPT ![c] = Fallback(c, "provider")]
    /\ UNCHANGED <<present, source, summary, told, jobs, wakes>>

\* The summary is complete, and the storing transaction has locked the row and begun to
\* delete what it replaces; 409 if the row has changed.
Generate(c) ==
    /\ call[c].pc = "generating"
    /\ IF Unchanged(c)
       THEN call' = [call EXCEPT ![c].pc = "writing"] /\ UNCHANGED told
       ELSE Finish(c)
    /\ UNCHANGED <<present, source, summary, jobs, wakes>>

\* The model named an actor twice: the key of post_summary_role is the post and the name.
RepeatedActor(c) ==
    /\ call[c].pc = "writing"
    /\ call' = [call EXCEPT ![c] = Fallback(c, "storage")]
    /\ UNCHANGED <<present, source, summary, told, jobs, wakes>>

\* The transactions that store the same summary meanwhile wait for this one and then find
\* its key taken.  Whether the content job it ensures is to be published is the matter of
\* PostContentQueue.
Store(c) == \E pending \in BOOLEAN :
    LET post == call[c].post
        body == call[c].captured.body
    IN  /\ call[c].pc = "writing"
        /\ summary' = [summary EXCEPT ![post] = [contract |-> "current", body |-> body]]
        /\ jobs' = jobs \cup {<<post, body>>}
        /\ call' = [other \in Callers |->
               IF other = c
               THEN [call[c] EXCEPT !.pc = IF pending THEN "publishing" ELSE "replying",
                                    !.reply = Reply("current", body, TRUE, "none")]
               ELSE IF call[other].pc = "writing" /\ call[other].post = post
               THEN Fallback(other, "storage")
               ELSE call[other]]
        /\ UNCHANGED <<present, source, told, wakes>>

\* After the commit; a stream that refuses the entry is ignored.
Publish(c) == \E accepted \in BOOLEAN :
    /\ call[c].pc = "publishing"
    /\ wakes' = IF accepted THEN wakes \cup {<<call[c].post, call[c].captured.body>>} ELSE wakes
    /\ call' = [call EXCEPT ![c].pc = "replying"]
    /\ UNCHANGED <<present, source, summary, told, jobs>>

\* authorized_response: 409 if the row has changed since it was captured.
Respond(c) ==
    /\ call[c].pc = "replying"
    /\ IF Unchanged(c)
       THEN /\ told' = [told EXCEPT ![c] = call[c].reply]
            /\ call' = [call EXCEPT ![c].pc = "done"]
       ELSE Finish(c)
    /\ UNCHANGED <<present, source, summary, jobs, wakes>>

Done(c) ==
    /\ call[c].pc = "done"
    /\ Finish(c)
    /\ UNCHANGED <<present, source, summary, jobs, wakes>>

-----------------------------------------------------------------------------
\* Everyone else.

\* Bug: a key-share lock, which lets other columns change.
KeyShareLocked(post) == FALSE

ShareLocked(post) == \E c \in Callers : call[c].pc = "writing" /\ call[c].post = post

\* An import leaves the summary of a rewritten post alone.
ImportSource == \E post \in Summarized, new \in RowVariants :
    /\ ~ShareLocked(post)
    /\ present' = present \cup {post}
    /\ source' = [source EXCEPT ![post] = new]
    /\ UNCHANGED <<summary, call, told, jobs, wakes>>

DeleteSource == \E post \in present :
    /\ ~ShareLocked(post)
    /\ present' = present \ {post}
    /\ summary' = [summary EXCEPT ![post] = NoSummary]
    /\ UNCHANGED <<source, call, told, jobs, wakes>>

SummaryStep(c) ==
    \/ Capture(c) \/ ProviderFails(c) \/ Generate(c) \/ RepeatedActor(c) \/ Store(c)
    \/ Publish(c) \/ Respond(c) \/ Done(c)

SummaryNext == (\E c \in Callers : SummaryStep(c)) \/ ImportSource \/ DeleteSource

SummarySpec == SummaryInit /\ [][SummaryNext]_summaryVars

-----------------------------------------------------------------------------

\* Every variable holds what its columns and its request may hold.
SummaryTypeOK ==
    /\ present \subseteq Summarized
    /\ source \in [Summarized -> RowVariants]
    /\ summary \in [Summarized -> Summaries]
    /\ call \in [Callers -> Calls]
    /\ told \in [Callers -> Replies]
    /\ jobs \subseteq Summarized \X Bodies
    /\ wakes \subseteq Summarized \X Bodies

\* A summary reaches its reader, stored, stale or new, only while the request may read the
\* post and the post is as the request captured it, however long the model took.
ToldIsAuthorized ==
    [][\A c \in Callers :
          told'[c] # told[c] /\ told'[c].label # "none" =>
              /\ Readable(call[c].scope, present, source, call[c].post)
              /\ source[call[c].post] = call[c].captured
              /\ told'[c].fresh => told'[c].body = source[call[c].post].body]_summaryVars

\* However late the model answers, and whoever rewrites the post meanwhile: a stored summary
\* gives way only to one of the body the post has then, labelled current, or goes with its
\* post.  A failed refresh leaves what was stored (ADR 0114).
LastGoodKept ==
    [][\A p \in Summarized :
          summary'[p] # summary[p] =>
              \/ p \notin present'
              \/ summary'[p].contract = "current" /\ summary'[p].body = source[p].body]_summaryVars
=============================================================================
