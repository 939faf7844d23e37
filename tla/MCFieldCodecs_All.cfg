SPECIFICATION Spec
CONSTANTS
    Byte = 4
    MaxRegister = 7
    Jobs <- MCJobs
    Profiles <- MCProfiles
INVARIANTS
    ValuesSurvive
    AnswersAreJudged
    AcceptedServes
CHECK_DEADLOCK FALSE
