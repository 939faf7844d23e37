\* Free interleaving and a repository that may fail: what holds regardless.
CONSTANTS
    Workers = {w1, w2}
    Loop = loop
    Overlap = TRUE
    RepoMayFail = TRUE
SPECIFICATION FairSpec
INVARIANTS AtMostOneLateTick
PROPERTIES SealedStopIsFinal SealedStopEndsTask
