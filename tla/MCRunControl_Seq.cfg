\* One call at a time and a repository that answers: the environment of ADR 0039.
CONSTANTS
    Workers = {w1, w2}
    Loop = loop
    Overlap = FALSE
    RepoMayFail = FALSE
SPECIFICATION Spec
INVARIANTS MirrorAtRest EndIsHonest
PROPERTIES BothFollowMatrix
