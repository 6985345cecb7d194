--------------------------- MODULE MCNestingGuard ---------------------------
\* The start of koshells on a few ttys, with every process interleaved.
EXTENDS NestingGuard, TLC

Symmetry == Permutations(Ttys)

\* Either any step of a start may fail, or an id is given out again.
OneOf == {[reused |-> 0, failing |-> TRUE], [reused |-> 1, failing |-> FALSE]}
\* Both, for the configurations beside the run.
Both == {[reused |-> 1, failing |-> TRUE]}
=============================================================================
