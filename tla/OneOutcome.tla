---------------------------- MODULE OneOutcome ----------------------------
(***************************************************************************)
(* What ADR 0023 promises of an analysis run, without outbox, lock, stream *)
(* or worker: a run is started once, ends at most once, and what it ended  *)
(* with is never replaced.                                                 *)
(***************************************************************************)
CONSTANTS
    Runs,       \* analysis runs
    Outputs,    \* what a run may end with
    NoOutput    \* the output of a run that has not succeeded

VARIABLES phase, output

OutcomeInit ==
    /\ phase = [r \in Runs |-> "requested"]
    /\ output = [r \in Runs |-> NoOutput]

\* Running and the outbox row are committed.
StartRun(r) ==
    /\ phase[r] = "requested"
    /\ phase' = [phase EXCEPT ![r] = "started"]
    /\ UNCHANGED output

\* The result, the terminal status and the delivered event are committed.
Succeed(r, out) ==
    /\ phase[r] = "started"
    /\ phase' = [phase EXCEPT ![r] = "succeeded"]
    /\ output' = [output EXCEPT ![r] = out]

Fail(r) ==
    /\ phase[r] = "started"
    /\ phase' = [phase EXCEPT ![r] = "failed"]
    /\ UNCHANGED output

OutcomeNext ==
    \E r \in Runs :
        \/ StartRun(r)
        \/ \E out \in Outputs : Succeed(r, out)
        \/ Fail(r)

OutcomeSpec == OutcomeInit /\ [][OutcomeNext]_<<phase, output>>
=============================================================================
