SPECIFICATION AssessSpec
CONSTANT Cases <- Findings
INVARIANTS IntegrityFailuresBlock StricterIsNoLaxer FailedAnalysisEarnsNothing AssessInv
PROPERTY ImplementsWorkflow
