------------------------------ MODULE MCControl ------------------------------
\* A few commands of a terminal, while its questions are answered and
\* koshell.toml is edited.
EXTENDS Control, TLC

CONSTANT s1   \* the terminal the commands are typed in

MCCatalog == <<"m1", "m2">>
Of(kind, model, session, only) ==
    [kind |-> kind, model |-> model, session |-> session, only |-> only]
Model == {Of("set", "m2", s1, only) : only \in BOOLEAN}
Picked == {Of("set", NoOne, s1, FALSE)}
Default == {Of("set", "m2", NoOne, only) : only \in BOOLEAN}
Others(kinds) == {Of(kind, NoOne, NoOne, FALSE) : kind \in kinds}

\* Reconnecting terminals; edits and crashes; logins, which share nothing with those.
MCBounds ==
    {[requests |-> Model \cup Others({"reload"}),
      conns |-> 2, asks |-> 1, edits |-> {}, crashes |-> 0],
     [requests |-> {Of("set", "m2", s, FALSE) : s \in {s1, NoOne}} \cup Others({"reload"}),
      conns |-> 1, asks |-> 1, edits |-> {[model |-> "m1", rest |-> 1]}, crashes |-> 1],
     [requests |-> Default \cup Picked \cup Others({"login", "logout", "status", "reload"}),
      conns |-> 0, asks |-> 0, edits |-> {[model |-> "invalid", rest |-> 0]}, crashes |-> 1]}
Symmetry == Permutations(Commands)
=============================================================================
