---------------------------- MODULE SourceScope ----------------------------
(***************************************************************************)
(* Source posts and who may read them: backend/app/post_eligibility.py and *)
(* the replay policy of backend/app/post_chat_replay_policy.py.            *)
(*                                                                         *)
(* A reader's scope is its corporate entities and its process units; no    *)
(* process units means every unit of those entities.  A post is public or  *)
(* belongs to one entity and one unit.  A post that is a draft or deleted  *)
(* at its source is ineligible, and every post without source context is   *)
(* ineligible as soon as one post has some.                                *)
(***************************************************************************)
EXTENDS Naturals, FiniteSets

CONSTANTS
    Posts,      \* post ids
    Entities,   \* corporate entities
    Units,      \* process units
    Bodies      \* titles and bodies a post may have

\* public: visibility_code.  real: some source_* column is not blank.
Rows == [public : BOOLEAN, entity : Entities, unit : Units,
         withdrawn : BOOLEAN, real : BOOLEAN, body : Bodies]

Scopes == [entities : SUBSET Entities, units : SUBSET Units]

Sees(scope, row) ==
    \/ row.public
    \/ row.entity \in scope.entities /\ (scope.units = {} \/ row.unit \in scope.units)

\* live: the posts that exist.  The clause about real posts reads every one of them.
Eligible(live, rows, post) ==
    /\ post \in live
    /\ ~rows[post].withdrawn
    /\ rows[post].real \/ \A other \in live : ~rows[other].real

Readable(scope, live, rows, post) == Eligible(live, rows, post) /\ Sees(scope, rows[post])

\* Bug: subsumed without the process units.
SubsumedByEntities(captured, current) == captured.entities \subseteq current.entities

\* What a reader of the current scope is shown may have been made under the captured one.
Subsumed(captured, current) ==
    /\ captured.entities \subseteq current.entities
    /\ IF captured.units = {} THEN current.units = {}
                              ELSE current.units = {} \/ captured.units \subseteq current.units
=============================================================================
