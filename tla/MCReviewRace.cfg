\* Deadlock is not checked: once every one of the finitely many ids is deleted,
\* there is nothing left to do.
CHECK_DEADLOCK FALSE
SPECIFICATION ReviewSpec
CONSTANTS
    Releases = {r1}
    Handlers = {h1, h2}
    Pollers = {}
    NoRelease = NoRelease
    ManualTargets <- AnyState
    AnalysisFlags <- TwoFlags
    AutoApprove = TRUE
INVARIANTS ExplicitReview AdminTrustIsEarned StoreInv
PROPERTIES StepsFollowTable DeletedIsFinal FreshStepsFollowLifecycle
SYMMETRY Symmetry
