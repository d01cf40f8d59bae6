SPECIFICATION AssessSpec
CONSTANT Cases <- Plain
INVARIANT ConfidentIsApproved
