CONSTANTS
    Alphabet <- MCAlphabet
    Documents <- MCDocuments
    Later <- MCLater
    MaxPosts = 2
    MaxStarts = 2
    MaxTicks = 3
SPECIFICATION Spec
INVARIANTS
    NumbersArrive
    PostedIsWhatRuns
\* The clients may stop: posts, starts and ticks are bounded.
CHECK_DEADLOCK FALSE
