CONSTANTS
    Workers = {w1, w2}
    Loop = loop
    Overlap = TRUE
    RepoMayFail = FALSE
SPECIFICATION FairSpec
PROPERTY TerminalIsFinal
