--------------------------- MODULE ReleaseLifecycle ---------------------------
(***************************************************************************)
(* What the release workflow promises a reader of its transition table: a  *)
(* release is inserted as DISCOVERED, moves along VALID_TRANSITIONS, may   *)
(* be overridden into APPROVED from any state, and once deleted is gone.   *)
(***************************************************************************)
EXTENDS ReleaseStates

CONSTANT Releases

\* phase[r] is the workflow state of r, or "unborn" before its row is
\* inserted, or "deleted" after the row is gone.
VARIABLE phase

Init == phase = [r \in Releases |-> "unborn"]

Insert(r) ==
    /\ phase[r] = "unborn"
    /\ phase' = [phase EXCEPT ![r] = "discovered"]

Transition(r) ==
    /\ phase[r] \in WorkflowState
    /\ \E s \in ValidTransitions[phase[r]] : phase' = [phase EXCEPT ![r] = s]

Override(r) ==
    /\ phase[r] \in WorkflowState
    /\ phase' = [phase EXCEPT ![r] = "approved"]

\* One commit may delete several rows (retention).
Delete(S) ==
    /\ S # {}
    /\ \A r \in S : phase[r] \in WorkflowState
    /\ phase' = [r \in Releases |-> IF r \in S THEN "deleted" ELSE phase[r]]

Next ==
    \/ \E r \in Releases : Insert(r) \/ Transition(r) \/ Override(r)
    \/ \E S \in SUBSET Releases : Delete(S)

Spec == Init /\ [][Next]_phase

=============================================================================
