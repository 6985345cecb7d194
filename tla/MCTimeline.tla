----------------------------- MODULE MCTimeline -----------------------------
(* Instance of Timeline for TLC: two age bands, budgets that an entry      *)
(* straddles, compaction every third entry and an idle pass in between.    *)
EXTENDS Timeline

MCTiers == <<[maxAge |-> 0, spacing |-> 1], [maxAge |-> 1, spacing |-> 2]>>
MCScreens == {[lines |-> <<"a", "b">>, alt |-> FALSE], [lines |-> <<"c", "b", "d">>, alt |-> TRUE]}
MCSizes == {1, 2}
AllCallers == {"output", "presentation", "input", "event", "clear"}

\* For the history over many bands' lengths: one screen repainted every tick.
LongTiers == <<[maxAge |-> 2, spacing |-> 1], [maxAge |-> 20, spacing |-> 4]>>
OnlyPresentation == {"presentation"}
OneScreen == {[lines |-> <<"a">>, alt |-> FALSE]}
=============================================================================
