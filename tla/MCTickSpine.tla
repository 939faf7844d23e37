------------------------------- MODULE MCTickSpine ------------------------------
EXTENDS TickSpine

CONSTANTS a, b, ghost

\* Two time units per tick, so that windows and commands may lie between ticks.
MCCommands ==
    {<<>>,
     <<[at |-> 1, target |-> a, value |-> 1], [at |-> 4, target |-> b, value |-> 2],
       [at |-> 4, target |-> a, value |-> 2], [at |-> 5, target |-> a, value |-> -3]>>}

MCFaults ==
    {<<>>,
     <<[target |-> a, start |-> 3, end |-> 7], [target |-> b, start |-> 3, end |-> 4]>>,
     <<[target |-> a, start |-> 2, end |-> 6], [target |-> a, start |-> 4, end |-> 10]>>,
     <<[target |-> a, start |-> 4, end |-> 8], [target |-> a, start |-> 2, end |-> 3]>>}

MCNan == <<[target |-> a, start |-> 3, end |-> 7]>>
MCStale == <<[target |-> a, start |-> 4, end |-> 9, maxAge |-> 3]>>

MCAgents ==
    {<<>>,
     <<[target |-> a, rules |-> <<[metric |-> "tick", when |-> {1}, value |-> -2],
                                  [metric |-> "time", when |-> 4..20, value |-> 0]>>]>>}

MCScenarios ==
    {[commands |-> c, faults |-> f, nans |-> IF q THEN MCNan ELSE <<>>,
      stales |-> IF q THEN MCStale ELSE <<>>, agents |-> g] :
        c \in MCCommands, f \in MCFaults, q \in BOOLEAN, g \in MCAgents}

MCWrites == {<<a, -3>>, <<a, 1>>, <<ghost, 1>>}

\* The scenario in which only its commands tell a resumed run from the live one.
MCScheduled ==
    {[commands |-> <<[at |-> 4, target |-> a, value |-> 2]>>, faults |-> <<>>,
      nans |-> <<>>, stales |-> <<>>, agents |-> <<>>]}
===============================================================================
