-------------------------- MODULE MCReviewWorkflow --------------------------
(* Instances of ReviewWorkflow for TLC. *)
EXTENDS ReviewWorkflow, TLC

\* POST /staging/transition takes any of the eight states.
AnyState == WorkflowState

\* One flag that overrides need a reason for, and none.
TwoFlags == {"none", "blocked"}

Symmetry == Permutations(Releases) \cup Permutations(Handlers)

=============================================================================
