----------------------------- MODULE ScreenDiff -----------------------------
(***************************************************************************)
(* The line diff between two screens (crates/koshell-rs/src/               *)
(* screen_diff.rs): what changed between one snapshot of the terminal and  *)
(* the next.  A screen is a sequence of lines.  The edit script comes from *)
(* a library (similar, Myers' algorithm); the module starts from any       *)
(* shortest one and models what the code makes of it.                      *)
(***************************************************************************)
EXTENDS Integers, Sequences, SequencesExt, FiniteSetsExt

\* Alignments of two screens: pairs of equal lines, increasing in both.
Alignments(old, new) ==
  {pairs \in SUBSET {p \in (1..Len(old)) \X (1..Len(new)) : old[p[1]] = new[p[2]]} :
     \A p, q \in pairs : p # q => (p[1] < q[1] /\ p[2] < q[2]) \/ (q[1] < p[1] /\ q[2] < p[2])}

\* capture_diff_slices: the steps of a shortest edit script, removed lines
\* before added ones between two lines kept.
EditScript(old, new) ==
  LET all  == Alignments(old, new)
      kept == CHOOSE a \in all : \A b \in all : Cardinality(b) <= Cardinality(a)
      ends == SetToSortSeq(kept \union {<<Len(old) + 1, Len(new) + 1>>}, LAMBDA p, q : p[1] < q[1])
      From(k, i) == IF k = 1 THEN 1 ELSE ends[k - 1][i] + 1
      Between(k) == [j \in 1..(ends[k][1] - From(k, 1)) |-> "removed"]
                 \o [j \in 1..(ends[k][2] - From(k, 2)) |-> "added"]
                 \o (IF k = Len(ends) THEN << >> ELSE <<"equal">>)
  IN FlattenSeq([k \in DOMAIN ends |-> Between(k)])

\* HunkBuilder; 0 stands for None.
EmptyBuilder == [hunks |-> << >>, pending |-> << >>, oldStart |-> 0, newStart |-> 0,
                 oldLines |-> 0, newLines |-> 0, oldNumber |-> 1, newNumber |-> 1]

Flush(b) ==
  IF b.pending = << >> THEN b
  ELSE [b EXCEPT !.hunks = Append(@, [oldStart |-> b.oldStart, oldLines |-> b.oldLines,
                                      newStart |-> b.newStart, newLines |-> b.newLines,
                                      lines |-> b.pending]),
                 !.pending = << >>, !.oldStart = 0, !.newStart = 0,
                 !.oldLines = 0, !.newLines = 0]

\* The first changed line of a block fixes where the block starts.
Opened(b) ==
  [b EXCEPT !.oldStart = IF @ = 0 THEN b.oldNumber ELSE @,
            !.newStart = IF @ = 0 THEN b.newNumber ELSE @]

\* Deliberate fault: an unchanged line does not close the block before it.
Equal_KeepsBlockOpen(b) == [b EXCEPT !.oldNumber = @ + 1, !.newNumber = @ + 1]

Equal(b) == [Flush(b) EXCEPT !.oldNumber = @ + 1, !.newNumber = @ + 1]

\* removed, added and equal of HunkBuilder, for one step of the script.
Step(b, step) ==
  CASE step = "removed" ->
         [Opened(b) EXCEPT !.pending = Append(@, <<"removed", b.oldNumber>>),
                           !.oldNumber = @ + 1, !.oldLines = @ + 1]
    [] step = "added" ->
         [Opened(b) EXCEPT !.pending = Append(@, <<"added", b.newNumber>>),
                           !.newNumber = @ + 1, !.newLines = @ + 1]
    [] step = "equal" -> Equal(b)

Hunks(old, new) == Flush(FoldLeft(Step, EmptyBuilder, EditScript(old, new))).hunks

\* summarize_screen_diff.
Summary(old, new) ==
  LET script == EditScript(old, new)
  IN [added |-> Cardinality({i \in DOMAIN script : script[i] = "added"}),
      removed |-> Cardinality({i \in DOMAIN script : script[i] = "removed"})]

\* What a diff has to say of two screens: the blocks lie in order, each is
\* the lines it claims, taking the removed lines out of the old screen and
\* the added ones out of the new leaves the same text.
Describes(hunks, old, new) ==
  LET Lines(hunk, kind) == {hunk.lines[i][2] : i \in {j \in DOMAIN hunk.lines : hunk.lines[j][1] = kind}}
      All(kind) == UNION {Lines(hunks[h], kind) : h \in DOMAIN hunks}
      Without(screen, gone) == LET left == SetToSortSeq(DOMAIN screen \ gone, LAMBDA i, j : i < j)
                               IN [i \in DOMAIN left |-> screen[left[i]]]
  IN /\ \A h \in DOMAIN hunks :
          /\ Lines(hunks[h], "removed") = hunks[h].oldStart..(hunks[h].oldStart + hunks[h].oldLines - 1)
          /\ Lines(hunks[h], "added") = hunks[h].newStart..(hunks[h].newStart + hunks[h].newLines - 1)
          /\ h > 1 => /\ hunks[h].oldStart > hunks[h-1].oldStart + hunks[h-1].oldLines
                      /\ hunks[h].newStart > hunks[h-1].newStart + hunks[h-1].newLines
     /\ All("removed") \subseteq DOMAIN old /\ All("added") \subseteq DOMAIN new
     /\ Without(old, All("removed")) = Without(new, All("added"))
=============================================================================
