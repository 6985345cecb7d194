------------------------ MODULE CommandHistoryProofs ------------------------
(***************************************************************************)
(* Theorems about CommandHistory, for any caps, texts and number of        *)
(* commands: what is kept of an output is exactly its tail, pages are      *)
(* true, no command exceeds its cap nor all of them the session's, and the *)
(* oldest lose their output first, not a character more than they must.    *)
(*                                                                         *)
(* The inductive invariant rests on one lemma about the output buffer:     *)
(* releasing any number of bytes from its front leaves a buffer that is    *)
(* sound.  So for it, and for every read, it does not matter how much      *)
(* enforce_total_cap asks each row for.                                    *)
(*                                                                         *)
(* For the session's cap it does.  The sum of retained_bytes and the loop  *)
(* of enforce_total_cap are followed row by row (Counting, IsSum,          *)
(* IsExcess): what is over the cap after a row is what was over before it, *)
(* less what the row lost, and as long as there is any, no row visited     *)
(* keeps anything.  After the last row there is none, for what the running *)
(* command keeps alone fits; and the row where it ran out lost only as     *)
(* many characters as it had to.                                           *)
(***************************************************************************)
EXTENDS CommandHistory, FiniteSetTheorems, WellFoundedInduction,
        SequenceTheorems, TLAPS

(* The characters kept stand one after the other, from the last byte that  *)
(* was dropped to the last one written.                                    *)
Contiguous(output) ==
  LET kept == output.retained
  IN  /\ \A i \in 1..Len(kept) : kept[i].begin < kept[i].end
      /\ \A i \in 1..Len(kept) : i < Len(kept) => kept[i].end = kept[i + 1].begin
      /\ \A i, j \in 1..Len(kept) : i < j => kept[i].end <= kept[j].begin
      /\ kept # <<>> =>
           /\ kept[1].begin = output.dropped_prefix_bytes
           /\ kept[Len(kept)].end = output.total_bytes

Sound(output, serial) ==
  /\ output \in OutputBuffer
  /\ ExactTail(output, serial)
  /\ Contiguous(output)

IsText(text) ==
  /\ text \in Seq(Nat)
  /\ \A i \in DOMAIN text : text[i] > 0
  /\ \A i, j \in DOMAIN text : i < j => text[i] < text[j]

RowsSound(rows) ==
  /\ rows \in Seq(Rows)
  /\ \A i \in DOMAIN rows :
       /\ Sound(rows[i].output, rows[i].command_id)
       /\ Bytes(rows[i].output.retained) <= MaxCommandOutputBytes

SpanSound(span) ==
  /\ span \in Spans
  /\ span.serial = span.command_id
  /\ Sound(span.output, span.serial)
  /\ Bytes(span.output.retained) <= MaxCommandOutputBytes

IInv ==
  /\ RowsSound(completed)
  /\ Len(completed) <= MaxCompletedCommands
  /\ active # NoCommand => SpanSound(active)
  /\ begun \in Nat /\ next_id = begun + 1
  /\ exited \in BOOLEAN
  /\ answer \in Answers
  /\ PagesAreTrue

-----------------------------------------------------------------------------
(* Every set of naturals has a least element: strict inclusion of finite   *)
(* sets is well-founded, and n is below m when 0..n is inside 0..m.        *)
LEMMA LeastExists ==
  ASSUME NEW S \in SUBSET Nat, S # {}
  PROVE  \E x \in S : \A y \in S : x <= y
<1> DEFINE T == {0..x : x \in S}
           R == StrictSubsetOrdering(Nat)
<1>1. T # {} /\ T \subseteq FiniteSubsetsOf(Nat)
  <2>1. \A x \in S : IsFiniteSet(0..x) /\ 0..x \subseteq Nat
    BY FS_Interval
  <2> QED BY <2>1 DEF FiniteSubsetsOf
<1>2. PICK I \in T : \A J \in T : ~ (<<J, I>> \in R)
  <2>1. IsWellFoundedOn(R, FiniteSubsetsOf(Nat))
    BY FS_StrictSubsetOrderingWellFounded
  <2> HIDE DEF T, R
  <2> QED BY <1>1, <2>1, WFMin
<1>3. PICK x \in S : I = 0..x
  OBVIOUS
<1>4. ASSUME NEW y \in S, y < x PROVE FALSE
  <2>1. 0..y \in T
    OBVIOUS
  <2>2. 0..y \subseteq 0..x /\ x \in 0..x /\ x \notin 0..y
    BY <1>4
  <2>3. 0..y \in SUBSET Nat /\ 0..x \in SUBSET Nat
    OBVIOUS
  <2>4. <<0..y, I>> \in R
    BY <1>3, <2>2, <2>3 DEF StrictSubsetOrdering
  <2> QED BY <1>2, <2>1, <2>4
<1> QED BY <1>4

(* The loop of trim_to stops within the text, and not before enough has    *)
(* been dropped; whatever number it was asked for.                         *)
LEMMA DropCountRange ==
  ASSUME NEW text \in Seq(Characters), NEW bytes
  PROVE  /\ DropCount(text, bytes) \in 0..Len(text)
         /\ \/ DropCount(text, bytes) = Len(text)
            \/ Bytes(SubSeq(text, 1, DropCount(text, bytes))) >= bytes
<1> DEFINE S == {k \in 0..Len(text) :
                   k = Len(text) \/ Bytes(SubSeq(text, 1, k)) >= bytes}
<1>1. S \in SUBSET Nat /\ Len(text) \in S
  BY LenProperties
<1>2. DropCount(text, bytes) = Min(S)
  BY DEF DropCount
<1>3. \E x \in S : \A y \in S : x <= y
  <2> HIDE DEF S
  <2> QED BY <1>1, LeastExists
<1>4. Min(S) \in S
  <2> HIDE DEF S
  <2> QED BY <1>3 DEF Min
<1> QED BY <1>2, <1>4

-----------------------------------------------------------------------------
(* The output buffer.                                                      *)

(* The first k characters of a sound buffer: the bytes they occupy.        *)
LEMMA PrefixBytes ==
  ASSUME NEW output, NEW serial, Sound(output, serial),
         NEW k \in 0..Len(output.retained)
  PROVE  LET kept == output.retained
             prefix == SubSeq(kept, 1, k)
         IN  /\ k = 0 => Bytes(prefix) = 0
             /\ k > 0 => Bytes(prefix) = kept[k].end - output.dropped_prefix_bytes
<1> DEFINE kept == output.retained
           prefix == SubSeq(kept, 1, k)
<1>1. kept \in Seq(Characters) /\ Len(kept) \in Nat
  BY DEF Sound, OutputBuffer
<1>2. Len(prefix) = k /\ \A i \in 1..k : prefix[i] = kept[i]
  BY <1>1, SubSeqProperties, ElementOfSeq
<1>3. CASE k = 0
  <2>1. prefix = <<>>
    BY <1>3, SubSeqEmpty
  <2> QED BY <1>3, <2>1 DEF Bytes
<1>4. CASE k > 0
  <2>1. prefix # <<>> /\ kept # <<>> /\ 1 \in 1..k /\ k \in 1..k
    BY <1>1, <1>2, <1>4
  <2>2. kept[1].begin = output.dropped_prefix_bytes
    BY <2>1 DEF Sound, Contiguous
  <2> QED BY <1>2, <1>4, <2>1, <2>2 DEF Bytes
<1> QED BY <1>3, <1>4

(* All that is kept occupies the bytes from the last one dropped on.       *)
LEMMA KeptBytes ==
  ASSUME NEW output, NEW serial, Sound(output, serial)
  PROVE  /\ Bytes(output.retained) = output.total_bytes - output.dropped_prefix_bytes
         /\ Bytes(output.retained) \in Nat
<1>1. /\ output.retained \in Seq(Characters)
      /\ output.total_bytes \in Nat /\ output.dropped_prefix_bytes \in Nat
  BY DEF Sound, OutputBuffer
<1>2. CASE output.retained = <<>>
  BY <1>1, <1>2 DEF Sound, ExactTail, Bytes
<1>3. CASE output.retained # <<>>
  <2> DEFINE kept == output.retained
  <2>1. Len(kept) \in Nat \ {0}
    BY <1>1, <1>3, EmptySeq
  <2>2. kept[1] \in Characters /\ kept[Len(kept)] \in Characters
    BY <1>1, <2>1, ElementOfSeq
  <2>3. /\ kept[1].begin < kept[1].end
        /\ Len(kept) > 1 => kept[1].end <= kept[Len(kept)].begin
        /\ kept[Len(kept)].begin < kept[Len(kept)].end
    BY <2>1 DEF Sound, Contiguous
  <2>4. kept[1].begin <= kept[Len(kept)].end
    BY <2>1, <2>2, <2>3 DEF Characters
  <2>5. Bytes(kept) = kept[Len(kept)].end - kept[1].begin
    BY <1>3 DEF Bytes
  <2>6. /\ kept[1].begin = output.dropped_prefix_bytes
        /\ kept[Len(kept)].end = output.total_bytes
    BY <1>3 DEF Sound, Contiguous
  <2> QED BY <1>1, <2>4, <2>5, <2>6
<1> QED BY <1>2, <1>3

(* Releasing from the front leaves a sound buffer, no larger than it was;  *)
(* and it is empty or as much smaller as was asked.                        *)
LEMMA ReclaimedSound ==
  ASSUME NEW output, NEW serial, Sound(output, serial), NEW bytes
  PROVE  /\ Sound(Reclaimed(output, bytes), serial)
         /\ Bytes(Reclaimed(output, bytes).retained) <= Bytes(output.retained)
         /\ bytes \in Int =>
              \/ Bytes(Reclaimed(output, bytes).retained) = 0
              \/ Bytes(Reclaimed(output, bytes).retained)
                   <= Bytes(output.retained) - bytes
<1> DEFINE kept == output.retained
           k == DropCount(kept, bytes)
           prefix == SubSeq(kept, 1, k)
           rest == SubSeq(kept, k + 1, Len(kept))
           after == Reclaimed(output, bytes)
<1>1. /\ kept \in Seq(Characters) /\ Len(kept) \in Nat
      /\ output \in OutputBuffer
  BY DEF Sound, OutputBuffer
<1>2. k \in 0..Len(kept) /\ (k = Len(kept) \/ Bytes(prefix) >= bytes)
  BY <1>1, DropCountRange
<1>3. /\ rest \in Seq(Characters)
      /\ Len(rest) = Len(kept) - k
      /\ \A i \in 1..Len(rest) : rest[i] = kept[k + i]
  <2> HIDE DEF k
  <2>1. \A i \in (k + 1)..Len(kept) : kept[i] \in Characters
    BY <1>1, <1>2, ElementOfSeq
  <2> QED BY <1>1, <1>2, <2>1, SubSeqProperties
<1>4. /\ after.retained = rest
      /\ after.retained_start_offset = output.retained_start_offset + k
      /\ after.dropped_prefix_bytes = output.dropped_prefix_bytes + Bytes(prefix)
      /\ after.source_truncated = (output.source_truncated \/ k > 0)
      /\ after.total_bytes = output.total_bytes
      /\ after.total_characters = output.total_characters
  BY <1>1 DEF Reclaimed, OutputBuffer
<1>5. /\ k = 0 => Bytes(prefix) = 0
      /\ k > 0 => Bytes(prefix) = kept[k].end - output.dropped_prefix_bytes
  BY <1>2, PrefixBytes
<1>6. \A i \in 1..Len(kept) : kept[i] \in Characters
  BY <1>1, ElementOfSeq
<1> HIDE DEF after, rest, k
<1>7. /\ after.dropped_prefix_bytes \in Nat
      /\ k > 0 => after.dropped_prefix_bytes = kept[k].end
      /\ k = 0 => after.dropped_prefix_bytes = output.dropped_prefix_bytes
  <2>1. output.dropped_prefix_bytes \in Nat
    BY <1>1 DEF OutputBuffer
  <2>2. k > 0 => kept[k].end \in Nat
    BY <1>1, <1>2, <1>6 DEF Characters
  <2> QED BY <1>2, <1>4, <1>5, <2>1, <2>2
<1>8. Contiguous(after)
  <2>0. \A i \in 1..Len(rest) : k + i \in 1..Len(kept) /\ rest[i] = kept[k + i]
    BY <1>1, <1>2, <1>3
  <2>1. /\ \A i \in 1..Len(rest) : rest[i].begin < rest[i].end
        /\ \A i \in 1..Len(rest) : i < Len(rest) => rest[i].end = rest[i + 1].begin
        /\ \A i, j \in 1..Len(rest) : i < j => rest[i].end <= rest[j].begin
    <3>1. ASSUME NEW i \in 1..Len(rest)
          PROVE  rest[i].begin < rest[i].end
      BY <2>0 DEF Sound, Contiguous
    <3>2. ASSUME NEW i \in 1..Len(rest), i < Len(rest)
          PROVE  rest[i].end = rest[i + 1].begin
      <4>1. i + 1 \in 1..Len(rest) /\ k + i \in 1..Len(kept) /\ k + i < Len(kept)
            /\ k + (i + 1) = (k + i) + 1
        BY <1>1, <1>2, <1>3, <3>2
      <4> QED BY <2>0, <4>1 DEF Sound, Contiguous
    <3>3. ASSUME NEW i \in 1..Len(rest), NEW j \in 1..Len(rest), i < j
          PROVE  rest[i].end <= rest[j].begin
      <4>1. k + i \in 1..Len(kept) /\ k + j \in 1..Len(kept) /\ k + i < k + j
        BY <1>1, <1>2, <2>0, <3>3
      <4> QED BY <2>0, <4>1 DEF Sound, Contiguous
    <3> QED BY <3>1, <3>2, <3>3
  <2>2. ASSUME rest # <<>>
        PROVE  /\ rest[1].begin = after.dropped_prefix_bytes
               /\ rest[Len(rest)].end = after.total_bytes
    <3>1. Len(rest) \in Nat \ {0} /\ kept # <<>> /\ k < Len(kept)
      BY <1>1, <1>2, <1>3, <2>2, EmptySeq
    <3>2. rest[Len(rest)] = kept[Len(kept)] /\ rest[1] = kept[k + 1]
      BY <1>1, <1>2, <1>3, <3>1
    <3>3. k > 0 => kept[k].end = kept[k + 1].begin
      BY <1>1, <1>2, <3>1 DEF Sound, Contiguous
    <3>4. kept[1].begin = output.dropped_prefix_bytes
          /\ kept[Len(kept)].end = output.total_bytes
      BY <3>1 DEF Sound, Contiguous
    <3> QED BY <1>2, <1>4, <1>7, <3>2, <3>3, <3>4
  <2> QED BY <1>4, <2>1, <2>2 DEF Contiguous
<1>9. after \in OutputBuffer
  <2>1. after = [output EXCEPT
                   !.retained = rest,
                   !.retained_start_offset = @ + k,
                   !.dropped_prefix_bytes = after.dropped_prefix_bytes,
                   !.source_truncated = @ \/ k > 0]
    BY <1>1 DEF after, Reclaimed, rest, k, OutputBuffer
  <2>2. output.retained_start_offset + k \in Nat
    BY <1>1, <1>2 DEF OutputBuffer
  <2> QED BY <1>1, <1>3, <1>7, <2>1, <2>2 DEF OutputBuffer
<1>10. ExactTail(after, serial)
  <2>1. /\ output.retained_start_offset \in Nat
        /\ output.total_characters \in Nat /\ output.total_bytes \in Nat
        /\ output.dropped_prefix_bytes \in Nat
    BY <1>1 DEF OutputBuffer
  <2>2. /\ output.retained_start_offset + Len(kept) = output.total_characters
        /\ output.source_truncated <=> output.retained_start_offset > 0
        /\ \A i \in 1..Len(kept) :
             kept[i].of = serial /\ kept[i].at = output.retained_start_offset + i
    BY DEF Sound, ExactTail
  <2>3. after.retained_start_offset + Len(rest) = after.total_characters
    BY <1>1, <1>2, <1>3, <1>4, <2>1, <2>2
  <2>4. after.source_truncated <=> after.retained_start_offset > 0
    <3>1. output.retained_start_offset + k > 0
            <=> output.retained_start_offset > 0 \/ k > 0
      BY <1>1, <1>2, <2>1
    <3> QED BY <1>4, <2>2, <3>1
  <2>5. after.dropped_prefix_bytes + Bytes(rest) = after.total_bytes
    <3>1. CASE rest = <<>>
      <4>1. k = Len(kept)
        BY <1>1, <1>2, <1>3, <3>1, EmptySeq
      <4>2. CASE k = 0
        <5>1. kept = <<>>
          BY <1>1, <4>1, <4>2, EmptySeq
        <5>2. output.dropped_prefix_bytes + Bytes(kept) = output.total_bytes
          BY DEF Sound, ExactTail
        <5> HIDE DEF kept
        <5> QED BY <1>4, <1>7, <2>1, <3>1, <4>2, <5>1, <5>2
      <4>3. CASE k > 0
        <5>1. kept # <<>> /\ kept[Len(kept)].end = output.total_bytes
          BY <1>1, <4>1, <4>3, EmptySeq DEF Sound, Contiguous
        <5>2. Bytes(rest) = 0
          BY <3>1 DEF Bytes
        <5>3. after.dropped_prefix_bytes = output.total_bytes
          BY <1>7, <4>1, <4>3, <5>1
        <5> QED BY <1>4, <2>1, <5>2, <5>3
      <4> QED BY <1>2, <4>2, <4>3
    <3>2. CASE rest # <<>>
      <4>1. /\ rest[1].begin = after.dropped_prefix_bytes
            /\ rest[Len(rest)].end = after.total_bytes
        BY <1>4, <1>8, <3>2 DEF Contiguous
      <4>2. Bytes(rest) = after.total_bytes - after.dropped_prefix_bytes
        BY <3>2, <4>1 DEF Bytes
      <4>3. after.total_bytes \in Nat /\ after.dropped_prefix_bytes \in Nat
        BY <1>4, <1>7, <2>1
      <4> QED BY <4>2, <4>3
    <3> QED BY <3>1, <3>2
  <2>6. \A i \in 1..Len(rest) :
          rest[i].of = serial /\ rest[i].at = after.retained_start_offset + i
    <3>1. \A i \in 1..Len(rest) :
            /\ k + i \in 1..Len(kept) /\ rest[i] = kept[k + i]
            /\ output.retained_start_offset + (k + i)
                 = (output.retained_start_offset + k) + i
      BY <1>1, <1>2, <1>3, <2>1
    <3> QED BY <1>4, <2>2, <3>1
  <2> QED BY <1>4, <2>3, <2>4, <2>5, <2>6 DEF ExactTail
<1>11. Sound(after, serial)
  BY <1>8, <1>9, <1>10 DEF Sound
<1>12. /\ Bytes(kept) = output.total_bytes - output.dropped_prefix_bytes
       /\ Bytes(after.retained) = output.total_bytes - after.dropped_prefix_bytes
       /\ Bytes(kept) \in Nat /\ Bytes(after.retained) \in Nat
  <2> HIDE DEF kept
  <2>1. Bytes(kept) = output.total_bytes - output.dropped_prefix_bytes
        /\ Bytes(kept) \in Nat
    BY KeptBytes DEF kept
  <2> QED BY <1>4, <1>11, <2>1, KeptBytes
<1>13. /\ Bytes(prefix) \in Nat
       /\ Bytes(after.retained) = Bytes(kept) - Bytes(prefix)
  <2>1. output.dropped_prefix_bytes \in Nat /\ output.total_bytes \in Nat
    BY <1>1 DEF OutputBuffer
  <2>2. k = 0 => Bytes(prefix) \in Nat
    BY <1>5
  <2>3. k > 0 => Bytes(prefix) \in Nat
    <3>1. ASSUME k > 0 PROVE Bytes(prefix) \in Nat
      <4>1. k \in 1..Len(kept) /\ kept # <<>> /\ 1 \in 1..Len(kept)
        BY <1>1, <1>2, <3>1, EmptySeq
      <4>2. /\ kept[1].begin = output.dropped_prefix_bytes
            /\ kept[1].begin < kept[1].end
            /\ kept[k].begin < kept[k].end
            /\ 1 < k => kept[1].end <= kept[k].begin
        BY <4>1 DEF Sound, Contiguous
      <4>3. kept[1] \in Characters /\ kept[k] \in Characters
        BY <1>6, <4>1
      <4>4. kept[k].end - output.dropped_prefix_bytes \in Nat
        BY <4>1, <4>2, <4>3 DEF Characters
      <4> QED BY <1>5, <3>1, <4>4
    <3> QED BY <3>1
  <2>4. Bytes(prefix) \in Nat
    BY <1>2, <2>2, <2>3
  <2> QED BY <1>4, <1>12, <2>1, <2>4
<1>14. bytes \in Int =>
         Bytes(after.retained) = 0 \/ Bytes(after.retained) <= Bytes(kept) - bytes
  <2>1. CASE k = Len(kept)
    <3>1. rest = <<>>
      BY <1>1, <1>3, <2>1, EmptySeq
    <3> QED BY <1>4, <3>1 DEF Bytes
  <2>2. CASE Bytes(prefix) >= bytes
    BY <1>12, <1>13, <2>2
  <2> QED BY <1>2, <2>1, <2>2
<1> QED BY <1>11, <1>12, <1>13, <1>14 DEF after

(* A text appended to a sound buffer continues it.                         *)
LEMMA PushedSound ==
  ASSUME NEW output, NEW serial \in Nat, Sound(output, serial),
         NEW text, IsText(text), text # <<>>
  PROVE  Sound(Pushed(output, text, serial), serial)
<1> DEFINE kept == output.retained
           new == Decoded(output, text, serial)
           all == kept \o new
           after == Pushed(output, text, serial)
           n == Len(kept)
           m == Len(text)
<1>1. /\ kept \in Seq(Characters) /\ n \in Nat
      /\ output \in OutputBuffer
      /\ output.total_bytes \in Nat /\ output.total_characters \in Nat
      /\ output.dropped_prefix_bytes \in Nat
      /\ output.retained_start_offset \in Nat
  BY DEF Sound, OutputBuffer
<1>2. /\ text \in Seq(Nat) /\ m \in Nat /\ m > 0
      /\ \A i \in 1..m : text[i] \in Nat /\ text[i] > 0
      /\ \A i, j \in 1..m : i < j => text[i] < text[j]
  <2>1. text \in Seq(Nat) /\ DOMAIN text = 1..m /\ m \in Nat
    BY DEF IsText
  <2>2. m > 0
    BY <2>1, EmptySeq
  <2>3. \A i \in 1..m : text[i] \in Nat
    BY <2>1, ElementOfSeq
  <2> QED BY <2>1, <2>2, <2>3 DEF IsText
<1>3. /\ DOMAIN new = 1..m
      /\ \A i \in 1..m :
           /\ new[i].of = serial
           /\ new[i].at = output.total_characters + i
           /\ new[i].begin = output.total_bytes + IF i = 1 THEN 0 ELSE text[i - 1]
           /\ new[i].end = output.total_bytes + text[i]
  BY DEF Decoded
<1>4. new \in Seq(Characters) /\ Len(new) = m
  <2>1. ASSUME NEW i \in 1..m PROVE new[i] \in Characters
    <3> DEFINE b == IF i = 1 THEN 0 ELSE text[i - 1]
    <3>1. b \in Nat /\ text[i] \in Nat
      <4>1. i # 1 => i - 1 \in 1..m
        BY <1>2
      <4> QED BY <1>2, <4>1
    <3>2. new[i] = [of |-> serial, at |-> output.total_characters + i,
                    begin |-> output.total_bytes + b,
                    end |-> output.total_bytes + text[i]]
      BY DEF Decoded
    <3> HIDE DEF b, new
    <3>3. /\ output.total_characters + i \in Nat
          /\ output.total_bytes + b \in Nat
          /\ output.total_bytes + text[i] \in Nat
      <4>1. i \in Nat /\ output.total_bytes \in Nat /\ output.total_characters \in Nat
        BY <1>1, <1>2
      <4> QED BY <3>1, <4>1
    <3> QED BY <3>2, <3>3 DEF Characters
  <2>2. new = [i \in 1..m |-> new[i]]
    BY DEF Decoded
  <2> HIDE DEF new
  <2>3. new \in [1..m -> Characters]
    BY <2>1, <2>2
  <2> QED BY <1>2, <2>3, SeqDef
<1>5. /\ all \in Seq(Characters) /\ Len(all) = n + m
      /\ \A i \in 1..n : all[i] = kept[i]
      /\ \A i \in 1..m : all[n + i] = new[i]
  <2> HIDE DEF new, kept
  <2>1. /\ all \in Seq(Characters) /\ Len(all) = Len(kept) + Len(new)
        /\ \A i \in 1..(Len(kept) + Len(new)) :
             all[i] = IF i <= Len(kept) THEN kept[i] ELSE new[i - Len(kept)]
    BY <1>1, <1>4, ConcatProperties
  <2> HIDE DEF all
  <2>2. \A i \in 1..n : i \in 1..(n + m) /\ i <= n
    BY <1>1, <1>2
  <2>3. \A i \in 1..m : n + i \in 1..(n + m) /\ ~ (n + i <= n) /\ (n + i) - n = i
    BY <1>1, <1>2
  <2> QED BY <1>4, <2>1, <2>2, <2>3
<1>6. \A i \in 1..(n + m) : i \in 1..n \/ (i - n \in 1..m /\ i = n + (i - n))
  BY <1>1, <1>2
<1>7. /\ after.retained = all
      /\ after.total_bytes = output.total_bytes + text[m]
      /\ after.total_characters = output.total_characters + m
      /\ after.retained_start_offset = output.retained_start_offset
      /\ after.dropped_prefix_bytes = output.dropped_prefix_bytes
      /\ after.source_truncated = output.source_truncated
  BY <1>1 DEF Pushed, Length, OutputBuffer
<1> HIDE DEF new, all, after
<1>8. after \in OutputBuffer
  <2>1. after = [output EXCEPT !.retained = all,
                               !.total_bytes = @ + text[m],
                               !.total_characters = @ + m]
    BY <1>1 DEF after, all, new, Pushed, Length, OutputBuffer
  <2>2. output.total_bytes + text[m] \in Nat /\ output.total_characters + m \in Nat
    BY <1>1, <1>2
  <2> QED BY <1>1, <1>5, <2>1, <2>2 DEF OutputBuffer
<1>9. \A i \in 1..n : kept[i] \in Characters
  BY <1>1, ElementOfSeq
<1>10. ExactTail(output, serial) /\ Contiguous(output)
  BY DEF Sound
<1>11. /\ \A i \in 1..n : kept[i].end <= output.total_bytes
       /\ n > 0 => kept[n].end = output.total_bytes
                   /\ kept[1].begin = output.dropped_prefix_bytes
       /\ n = 0 => output.dropped_prefix_bytes = output.total_bytes
  <2>1. ASSUME n > 0
        PROVE  kept[n].end = output.total_bytes
               /\ kept[1].begin = output.dropped_prefix_bytes
    BY <1>1, <1>10, <2>1, EmptySeq DEF Contiguous
  <2>2. ASSUME NEW i \in 1..n PROVE kept[i].end <= output.total_bytes
    <3>1. n > 0 /\ n \in 1..n /\ (i = n \/ i < n)
      BY <1>1
    <3>2. i < n => kept[i].end <= kept[n].begin
      BY <1>10, <3>1 DEF Contiguous
    <3>3. kept[n].begin < kept[n].end
      BY <1>10, <3>1 DEF Contiguous
    <3> QED BY <1>9, <2>1, <3>1, <3>2, <3>3 DEF Characters
  <2>3. ASSUME n = 0 PROVE output.dropped_prefix_bytes = output.total_bytes
    <3>1. kept = <<>>
      BY <1>1, <2>3, EmptySeq
    <3>2. Bytes(kept) = 0
      BY <3>1 DEF Bytes
    <3>3. output.dropped_prefix_bytes + Bytes(kept) = output.total_bytes
      BY <1>10 DEF ExactTail
    <3> QED BY <1>1, <3>2, <3>3
  <2> QED BY <2>1, <2>2, <2>3
<1>12. \A i \in 1..m :
         /\ new[i].begin < new[i].end
         /\ new[i].begin >= output.total_bytes
         /\ i < m => new[i].end = new[i + 1].begin
         /\ \A j \in 1..m : i < j => new[i].end <= new[j].begin
  <2>1. ASSUME NEW i \in 1..m
        PROVE  new[i].begin < new[i].end /\ new[i].begin >= output.total_bytes
    <3> DEFINE before == IF i = 1 THEN 0 ELSE text[i - 1]
    <3>1. i # 1 => i - 1 \in 1..m /\ i - 1 < i
      BY <1>2
    <3>2. i # 1 => text[i - 1] < text[i] /\ text[i - 1] \in Nat
      BY <1>2, <3>1
    <3>3. text[i] \in Nat /\ text[i] > 0
      BY <1>2
    <3>4. before \in Nat /\ before < text[i]
      BY <3>2, <3>3
    <3>5. /\ new[i].begin = output.total_bytes + before
          /\ new[i].end = output.total_bytes + text[i]
      BY <1>3
    <3>6. output.total_bytes \in Nat
      BY <1>1
    <3> HIDE DEF before
    <3> QED BY <3>3, <3>4, <3>5, <3>6
  <2>2. ASSUME NEW i \in 1..m, i < m PROVE new[i].end = new[i + 1].begin
    <3>1. i + 1 \in 1..m /\ i + 1 # 1 /\ (i + 1) - 1 = i
      BY <1>2, <2>2
    <3>2. new[i].end = output.total_bytes + text[i]
      BY <1>3
    <3>3. new[i + 1].begin = output.total_bytes + IF i + 1 = 1 THEN 0 ELSE text[(i + 1) - 1]
      BY <1>3, <3>1
    <3>4. (IF i + 1 = 1 THEN 0 ELSE text[(i + 1) - 1]) = text[i]
      BY <3>1
    <3> QED BY <3>2, <3>3, <3>4
  <2>3. ASSUME NEW i \in 1..m, NEW j \in 1..m, i < j
        PROVE  new[i].end <= new[j].begin
    <3>1. j # 1 /\ j - 1 \in 1..m /\ (i = j - 1 \/ i < j - 1)
      BY <1>2, <2>3
    <3>2. text[i] <= text[j - 1] /\ text[i] \in Nat /\ text[j - 1] \in Nat
      BY <1>2, <3>1
    <3>3. new[j].begin = output.total_bytes + text[j - 1]
      BY <1>3, <3>1
    <3>4. new[i].end = output.total_bytes + text[i] /\ output.total_bytes \in Nat
      BY <1>1, <1>3
    <3> QED BY <3>2, <3>3, <3>4
  <2> QED BY <2>1, <2>2, <2>3
<1>13. Contiguous(after)
  <2>1. ASSUME NEW i \in 1..(n + m) PROVE all[i].begin < all[i].end
    <3>1. CASE i \in 1..n
      <4>1. kept[i].begin < kept[i].end
        BY <1>10, <3>1 DEF Contiguous
      <4> QED BY <1>5, <3>1, <4>1
    <3>2. CASE i - n \in 1..m /\ i = n + (i - n)
      <4>1. all[n + (i - n)] = new[i - n]
        BY <1>5, <3>2
      <4> QED BY <1>12, <3>2, <4>1
    <3> QED BY <1>6, <3>1, <3>2
  <2>2. ASSUME NEW i \in 1..(n + m), i < n + m
        PROVE  all[i].end = all[i + 1].begin
    <3>1. CASE i \in 1..n /\ i < n
      <4>1. i + 1 \in 1..n
        BY <1>1, <3>1
      <4> QED BY <1>5, <1>10, <3>1, <4>1 DEF Contiguous
    <3>2. CASE i \in 1..n /\ i = n
      <4>1. n > 0 /\ 1 \in 1..m
        BY <1>1, <1>2, <3>2
      <4>2. new[1].begin = output.total_bytes
        BY <1>1, <1>3, <4>1
      <4>3. all[i] = kept[n] /\ all[i + 1] = new[1]
        BY <1>5, <3>2, <4>1
      <4> QED BY <1>11, <4>1, <4>2, <4>3
    <3>3. CASE i - n \in 1..m /\ i = n + (i - n)
      <4>1. i - n < m /\ (i - n) + 1 \in 1..m /\ i + 1 = n + ((i - n) + 1)
        BY <1>1, <1>2, <2>2, <3>3
      <4>2. all[i] = new[i - n] /\ all[i + 1] = new[(i - n) + 1]
        <5>1. /\ all[n + (i - n)] = new[i - n]
              /\ all[n + ((i - n) + 1)] = new[(i - n) + 1]
          BY <1>5, <3>3, <4>1
        <5> QED BY <3>3, <4>1, <5>1
      <4> QED BY <1>12, <3>3, <4>1, <4>2
    <3>4. i \in 1..n => i < n \/ i = n
      BY <1>1
    <3> QED BY <1>6, <3>1, <3>2, <3>3, <3>4
  <2>3. ASSUME NEW i \in 1..(n + m), NEW j \in 1..(n + m), i < j
        PROVE  all[i].end <= all[j].begin
    <3>1. CASE i \in 1..n /\ j \in 1..n
      <4>1. kept[i].end <= kept[j].begin
        BY <1>10, <2>3, <3>1 DEF Contiguous
      <4> QED BY <1>5, <3>1, <4>1
    <3>2. CASE i \in 1..n /\ j - n \in 1..m /\ j = n + (j - n)
      <4>1. all[i] = kept[i] /\ all[j] = new[j - n]
        BY <1>5, <3>2
      <4>2. kept[i].end <= output.total_bytes /\ kept[i].end \in Nat
        BY <1>9, <1>11, <3>2 DEF Characters
      <4>3. new[j - n].begin >= output.total_bytes /\ new[j - n].begin \in Nat
        <5>1. new[j - n] \in Characters
          BY <1>4, <3>2, ElementOfSeq
        <5> QED BY <1>12, <3>2, <5>1 DEF Characters
      <4> QED BY <1>1, <4>1, <4>2, <4>3
    <3>3. CASE i - n \in 1..m /\ i = n + (i - n) /\ j - n \in 1..m /\ j = n + (j - n)
      <4>1. i - n < j - n
        BY <1>1, <2>3, <3>3
      <4>2. new[i - n].end <= new[j - n].begin
        BY <1>12, <3>3, <4>1
      <4>3. all[n + (i - n)] = new[i - n] /\ all[n + (j - n)] = new[j - n]
        BY <1>5, <3>3
      <4> QED BY <3>3, <4>2, <4>3
    <3>4. CASE i - n \in 1..m /\ i = n + (i - n) /\ j \in 1..n
      BY <1>1, <1>2, <2>3, <3>4
    <3> QED BY <1>6, <3>1, <3>2, <3>3, <3>4
  <2>4. /\ all[1].begin = after.dropped_prefix_bytes
        /\ all[Len(all)].end = after.total_bytes
    <3>1. all[n + m].end = output.total_bytes + text[m]
      <4>1. m \in 1..m
        BY <1>2
      <4> QED BY <1>3, <1>5, <4>1
    <3>2. CASE n = 0
      <4>1. 1 \in 1..m /\ n + 1 = 1
        BY <1>2, <3>2
      <4>2. all[1] = new[1] /\ new[1].begin = output.total_bytes + 0
        BY <1>3, <1>5, <4>1
      <4> QED BY <1>1, <1>5, <1>7, <1>11, <3>1, <3>2, <4>2
    <3>3. CASE n > 0
      <4>1. 1 \in 1..n
        BY <1>1, <3>3
      <4> QED BY <1>5, <1>7, <1>11, <3>1, <3>3, <4>1
    <3> QED BY <1>1, <3>2, <3>3
  <2> QED BY <1>5, <1>7, <2>1, <2>2, <2>3, <2>4 DEF Contiguous
<1>14. ExactTail(after, serial)
  <2>1. /\ output.retained_start_offset + n = output.total_characters
        /\ output.source_truncated <=> output.retained_start_offset > 0
        /\ \A i \in 1..n :
             kept[i].of = serial /\ kept[i].at = output.retained_start_offset + i
    BY <1>10 DEF ExactTail
  <2>2. after.retained_start_offset + Len(all) = after.total_characters
    BY <1>1, <1>2, <1>5, <1>7, <2>1, SMTT(30)
  <2>3. after.dropped_prefix_bytes + Bytes(all) = after.total_bytes
    <3>1. all # <<>>
      BY <1>1, <1>2, <1>5, EmptySeq
    <3>2. Bytes(all) = after.total_bytes - after.dropped_prefix_bytes
      BY <1>7, <1>13, <3>1 DEF Contiguous, Bytes
    <3>3. after.total_bytes \in Nat /\ after.dropped_prefix_bytes \in Nat
      BY <1>8 DEF OutputBuffer
    <3> QED BY <3>2, <3>3
  <2>4. ASSUME NEW i \in 1..(n + m)
        PROVE  all[i].of = serial /\ all[i].at = after.retained_start_offset + i
    <3>1. CASE i \in 1..n
      BY <1>5, <1>7, <2>1, <3>1
    <3>2. CASE i - n \in 1..m /\ i = n + (i - n)
      <4>1. output.total_characters + (i - n) = output.retained_start_offset + i
        BY <1>1, <1>2, <2>1
      <4>2. all[n + (i - n)] = new[i - n]
        BY <1>5, <3>2
      <4>3. new[i - n].of = serial /\ new[i - n].at = output.total_characters + (i - n)
        BY <1>3, <3>2
      <4> QED BY <1>7, <3>2, <4>1, <4>2, <4>3
    <3> QED BY <1>6, <3>1, <3>2
  <2> QED BY <1>5, <1>7, <2>1, <2>2, <2>3, <2>4 DEF ExactTail
<1> QED BY <1>8, <1>13, <1>14 DEF Sound, after

(* Whatever is appended, the buffer stays sound and within its cap.        *)
LEMMA AppendedSound ==
  ASSUME NEW output, NEW serial \in Nat, Sound(output, serial),
         Bytes(output.retained) <= MaxCommandOutputBytes,
         NEW text, text = <<>> \/ IsText(text)
  PROVE  /\ Sound(Appended(output, text, serial), serial)
         /\ Bytes(Appended(output, text, serial).retained) <= MaxCommandOutputBytes
<1>1. CASE text = <<>>
  BY <1>1 DEF Appended
<1>2. CASE text # <<>>
  <2> DEFINE pushed == Pushed(output, text, serial)
             excess == Bytes(pushed.retained) - MaxCommandOutputBytes
             after == Reclaimed(pushed, excess)
  <2>1. Appended(output, text, serial) = after
    BY <1>2 DEF Appended
  <2>2. Sound(pushed, serial)
    BY <1>2, PushedSound
  <2> HIDE DEF pushed
  <2>3. Bytes(pushed.retained) \in Nat /\ MaxCommandOutputBytes \in Nat
    BY <2>2, KeptBytes, CapsAssumption
  <2>4. excess \in Int
    BY <2>3
  <2> HIDE DEF excess
  <2>5. /\ Sound(after, serial)
        /\ \/ Bytes(after.retained) = 0
           \/ Bytes(after.retained) <= Bytes(pushed.retained) - excess
    BY <2>2, <2>4, ReclaimedSound
  <2> HIDE DEF after
  <2>6. Bytes(pushed.retained) - excess = MaxCommandOutputBytes
    BY <2>3 DEF excess
  <2> QED BY <2>1, <2>3, <2>5, <2>6
<1> QED BY <1>1, <1>2

(* Enforcing the session's cap releases from the front of some rows, and   *)
(* changes nothing else: how much is decided by a sum, and does not matter *)
(* for what is stated here.                                                *)
LEMMA CappedRows ==
  ASSUME NEW rows, RowsSound(rows), NEW span
  PROVE  /\ RowsSound(Capped(rows, span))
         /\ Len(Capped(rows, span)) = Len(rows)
<1> DEFINE after == Capped(rows, span)
<1>1. rows \in Seq(Rows) /\ Len(rows) \in Nat /\ DOMAIN rows = 1..Len(rows)
  BY DEF RowsSound
<1>2. /\ after = [i \in 1..Len(rows) |-> after[i]]
      /\ \A i \in 1..Len(rows) :
           \/ after[i] = rows[i]
           \/ \E bytes :
                after[i] = [rows[i] EXCEPT !.output = Reclaimed(@, bytes)]
  <2>1. PICK e :
          after = [i \in 1..Len(rows) |->
                     IF e[i - 1] > 0
                     THEN [rows[i] EXCEPT !.output = Reclaimed(@, e[i - 1])]
                     ELSE rows[i]]
    BY Zenon DEF Capped
  <2> HIDE DEF after
  <2>2. \A i \in 1..Len(rows) :
          after[i] = IF e[i - 1] > 0
                     THEN [rows[i] EXCEPT !.output = Reclaimed(@, e[i - 1])]
                     ELSE rows[i]
    BY <2>1
  <2>3. after = [i \in 1..Len(rows) |-> after[i]]
    BY <2>1
  <2> QED BY <2>2, <2>3
<1> HIDE DEF after
<1>3. ASSUME NEW i \in 1..Len(rows)
      PROVE  /\ after[i] \in Rows
             /\ Sound(after[i].output, after[i].command_id)
             /\ Bytes(after[i].output.retained) <= MaxCommandOutputBytes
  <2>1. /\ rows[i] \in Rows
        /\ Sound(rows[i].output, rows[i].command_id)
        /\ Bytes(rows[i].output.retained) <= MaxCommandOutputBytes
    BY <1>1, ElementOfSeq DEF RowsSound
  <2>2. CASE after[i] = rows[i]
    BY <2>1, <2>2
  <2>3. ASSUME NEW bytes,
               after[i] = [rows[i] EXCEPT !.output = Reclaimed(@, bytes)]
        PROVE  /\ after[i] \in Rows
               /\ Sound(after[i].output, after[i].command_id)
               /\ Bytes(after[i].output.retained) <= MaxCommandOutputBytes
    <3> DEFINE less == Reclaimed(rows[i].output, bytes)
    <3>1. /\ Sound(less, rows[i].command_id)
          /\ Bytes(less.retained) <= Bytes(rows[i].output.retained)
      BY <2>1, ReclaimedSound
    <3>2. after[i] = [rows[i] EXCEPT !.output = less]
      BY <2>3
    <3> HIDE DEF less
    <3>3. /\ Bytes(less.retained) \in Nat
          /\ Bytes(rows[i].output.retained) \in Nat
          /\ MaxCommandOutputBytes \in Nat
      BY <2>1, <3>1, KeptBytes, CapsAssumption
    <3>4. Bytes(less.retained) <= MaxCommandOutputBytes
      BY <2>1, <3>1, <3>3
    <3>5. less \in OutputBuffer
      BY <3>1 DEF Sound
    <3>6. /\ after[i].output = less
          /\ after[i].command_id = rows[i].command_id
          /\ after[i] \in Rows
      BY <2>1, <3>2, <3>5 DEF Rows
    <3> QED BY <3>1, <3>4, <3>6
  <2> QED BY <1>2, <2>2, <2>3
<1>4. after \in Seq(Rows) /\ Len(after) = Len(rows) /\ DOMAIN after = 1..Len(rows)
  <2>1. after \in [1..Len(rows) -> Rows]
    BY <1>2, <1>3
  <2>2. after \in Seq(Rows)
    BY <1>1, <2>1, SeqDef
  <2> QED BY <1>1, <2>1, <2>2, LenProperties
<1>5. RowsSound(after)
  BY <1>3, <1>4 DEF RowsSound
<1> QED BY <1>4, <1>5 DEF after

(* The rows that are left when the oldest are dropped.                     *)
LEMMA TailRows ==
  ASSUME NEW rows, RowsSound(rows), NEW surplus \in 0..Len(rows)
  PROVE  /\ RowsSound(SubSeq(rows, surplus + 1, Len(rows)))
         /\ Len(SubSeq(rows, surplus + 1, Len(rows))) = Len(rows) - surplus
<1> DEFINE left == SubSeq(rows, surplus + 1, Len(rows))
<1>1. rows \in Seq(Rows) /\ Len(rows) \in Nat /\ DOMAIN rows = 1..Len(rows)
  BY DEF RowsSound
<1>2. \A i \in (surplus + 1)..Len(rows) : rows[i] \in Rows
  BY <1>1, ElementOfSeq
<1>3. /\ left \in Seq(Rows)
      /\ Len(left) = Len(rows) - surplus
      /\ \A i \in 1..Len(left) :
           surplus + i \in 1..Len(rows) /\ left[i] = rows[surplus + i]
  <2>1. /\ left \in Seq(Rows)
        /\ Len(left) = IF surplus + 1 <= Len(rows)
                       THEN Len(rows) - (surplus + 1) + 1 ELSE 0
        /\ \A i \in 1..(Len(rows) - (surplus + 1) + 1) :
             left[i] = rows[(surplus + 1) + i - 1]
    BY <1>1, <1>2, SubSeqProperties
  <2> HIDE DEF left
  <2>2. Len(left) = Len(rows) - surplus
    <3>1. surplus \in Nat /\ Len(rows) \in Nat /\ surplus <= Len(rows)
      BY <1>1
    <3>2. CASE surplus + 1 <= Len(rows)
      <4>1. Len(left) = Len(rows) - (surplus + 1) + 1
        BY <2>1, <3>2
      <4> QED BY <3>1, <4>1
    <3>3. CASE ~(surplus + 1 <= Len(rows))
      BY <2>1, <3>1, <3>3
    <3> QED BY <3>2, <3>3
  <2>3. ASSUME NEW i \in 1..Len(left)
        PROVE  surplus + i \in 1..Len(rows) /\ left[i] = rows[surplus + i]
    <3>1. i \in 1..(Len(rows) - (surplus + 1) + 1) /\ (surplus + 1) + i - 1 = surplus + i
      BY <1>1, <2>2
    <3> QED BY <1>1, <2>1, <2>2, <3>1
  <2> QED BY <2>1, <2>2, <2>3
<1> HIDE DEF left
<1>4. DOMAIN left = 1..Len(left)
  BY <1>3
<1>5. RowsSound(left)
  BY <1>1, <1>3, <1>4 DEF RowsSound
<1> QED BY <1>3, <1>5 DEF left

(* Texts that are appended are texts.                                      *)
LEMMA ChunksAreTexts ==
  /\ \A text \in Chunks : IsText(text)
  /\ IsText(<<ReplacementBytes>>)
BY TextsAssumption DEF IsText

(* The row a command leaves. *)
LEMMA FinishedSound ==
  ASSUME NEW span, SpanSound(span)
  PROVE  /\ Finished(span) \in Rows
         /\ Finished(span).command_id = span.command_id
         /\ Sound(Finished(span).output, Finished(span).command_id)
         /\ Bytes(Finished(span).output.retained) <= MaxCommandOutputBytes
<1> DEFINE row == Finished(span)
           replaced == Appended(span.output, <<ReplacementBytes>>, span.serial)
<1>1. /\ Sound(replaced, span.serial)
      /\ Bytes(replaced.retained) <= MaxCommandOutputBytes
  BY AppendedSound, ChunksAreTexts DEF SpanSound, Spans
<1>2. /\ row.command_id = span.command_id
      /\ row.output = IF span.partial THEN replaced ELSE span.output
      /\ row = [command_id |-> row.command_id, output |-> row.output]
  BY DEF Finished
<1> HIDE DEF replaced, row
<1>3. span.command_id \in Nat /\ span.serial = span.command_id
  BY DEF SpanSound, Spans
<1>4. /\ Sound(row.output, span.serial)
      /\ Bytes(row.output.retained) <= MaxCommandOutputBytes
  BY <1>1, <1>2 DEF SpanSound
<1>5. row.output \in OutputBuffer
  BY <1>4 DEF Sound
<1>6. row \in Rows
  BY <1>2, <1>3, <1>5 DEF Rows
<1> QED BY <1>2, <1>3, <1>4, <1>6 DEF row

(* The rows before the cap is enforced at a command's end, and where each  *)
(* comes from.                                                             *)
Left(rows, row) ==
  LET all == Append(rows, row)
      surplus == IF Len(all) > MaxCompletedCommands
                 THEN Len(all) - MaxCompletedCommands ELSE 0
  IN  SubSeq(all, surplus + 1, Len(all))

(* They are the newest of those there were, and the new one last. *)
LEMMA LeftRows ==
  ASSUME NEW rows, RowsSound(rows), NEW row \in Rows,
         Sound(row.output, row.command_id),
         Bytes(row.output.retained) <= MaxCommandOutputBytes
  PROVE  /\ RowsSound(Left(rows, row))
         /\ Len(Left(rows, row)) <= MaxCompletedCommands
         /\ \E surplus \in 0..(Len(rows) + 1) :
              /\ Len(Left(rows, row)) = Len(rows) + 1 - surplus
              /\ \A j \in 1..Len(Left(rows, row)) :
                   \/ /\ surplus + j \in 1..Len(rows)
                      /\ Left(rows, row)[j] = rows[surplus + j]
                   \/ /\ j = Len(Left(rows, row))
                      /\ Left(rows, row)[j] = row
<1> DEFINE all == Append(rows, row)
           surplus == IF Len(all) > MaxCompletedCommands
                      THEN Len(all) - MaxCompletedCommands ELSE 0
           left == SubSeq(all, surplus + 1, Len(all))
<1>1. Left(rows, row) = left
  BY DEF Left
<1>2. rows \in Seq(Rows) /\ Len(rows) \in Nat /\ DOMAIN rows = 1..Len(rows)
  BY DEF RowsSound
<1>3. MaxCompletedCommands \in Nat
  BY CapsAssumption
<1>4. /\ all \in Seq(Rows)
      /\ Len(all) = Len(rows) + 1
      /\ \A i \in 1..Len(rows) : all[i] = rows[i]
      /\ all[Len(rows) + 1] = row
  BY <1>2, AppendProperties
<1> HIDE DEF all
<1>5. \A i \in 1..Len(all) : i \in 1..Len(rows) \/ i = Len(rows) + 1
  BY <1>2, <1>4
<1>6. RowsSound(all)
  <2>1. DOMAIN all = 1..Len(all)
    BY <1>4
  <2> QED BY <1>2, <1>4, <1>5, <2>1 DEF RowsSound
<1>7. surplus \in 0..Len(all) /\ Len(all) - surplus <= MaxCompletedCommands
  BY <1>2, <1>3, <1>4
<1> HIDE DEF surplus
<1>8. /\ RowsSound(left) /\ Len(left) = Len(all) - surplus
  BY <1>6, <1>7, TailRows
<1>9. \A j \in 1..Len(left) : surplus + j \in 1..Len(all) /\ left[j] = all[surplus + j]
  <2>1. \A i \in (surplus + 1)..Len(all) : all[i] \in Rows
    BY <1>2, <1>4, <1>7, ElementOfSeq
  <2>2. \A i \in 1..(Len(all) - (surplus + 1) + 1) :
          left[i] = all[(surplus + 1) + i - 1]
    BY <1>2, <1>4, <1>7, <2>1, SubSeqProperties
  <2> HIDE DEF left
  <2>3. ASSUME NEW j \in 1..Len(left)
        PROVE  surplus + j \in 1..Len(all) /\ left[j] = all[surplus + j]
    <3>1. /\ surplus + j \in 1..Len(all)
          /\ j \in 1..(Len(all) - (surplus + 1) + 1)
          /\ (surplus + 1) + j - 1 = surplus + j
      BY <1>2, <1>4, <1>7, <1>8
    <3> QED BY <2>2, <3>1
  <2> QED BY <2>3
<1> HIDE DEF left
<1>10. ASSUME NEW j \in 1..Len(left)
       PROVE  \/ surplus + j \in 1..Len(rows) /\ left[j] = rows[surplus + j]
              \/ j = Len(left) /\ left[j] = row
  <2>1. CASE surplus + j \in 1..Len(rows)
    BY <1>4, <1>9, <2>1
  <2>2. CASE surplus + j = Len(rows) + 1
    <3>1. j = Len(left)
      BY <1>2, <1>4, <1>7, <1>8, <2>2
    <3> QED BY <1>4, <1>9, <2>2, <3>1
  <2> QED BY <1>5, <1>9, <2>1, <2>2
<1>11. surplus \in 0..(Len(rows) + 1) /\ Len(left) = Len(rows) + 1 - surplus
  BY <1>4, <1>7, <1>8
<1>12. Len(left) <= MaxCompletedCommands
  BY <1>7, <1>8
<1>13. \E new \in 0..(Len(rows) + 1) :
         /\ Len(left) = Len(rows) + 1 - new
         /\ \A j \in 1..Len(left) :
              \/ new + j \in 1..Len(rows) /\ left[j] = rows[new + j]
              \/ j = Len(left) /\ left[j] = row
  BY <1>10, <1>11
<1> QED BY <1>1, <1>8, <1>12, <1>13

(* What an answer to a read holds, when the row it is taken from is sound. *)
LEMMA PageTrue ==
  ASSUME NEW row \in Rows, Sound(row.output, row.command_id),
         NEW offset \in Nat \cup {NoOffset}, NEW limit \in Nat \ {0}
  PROVE  LET page == Page(row, offset, limit)
         IN  /\ page \in Answers
             /\ page.kind = "page" =>
                  /\ page.command_id = row.command_id
                  /\ page.next_offset = page.offset + Len(page.content)
                  /\ \A i \in 1..Len(page.content) :
                       /\ page.content[i].of = page.command_id
                       /\ page.content[i].at = page.offset + i
                  /\ ~page.has_more =>
                       page.next_offset >= row.output.total_characters
<1> DEFINE output == row.output
           kept == output.retained
           first == output.retained_start_offset
           start == IF offset = NoOffset THEN first ELSE offset
           skip == start - first
           last == Lesser(skip + Lesser(limit, MaxReadLimit), Len(kept))
           content == SubSeq(kept, skip + 1, last)
           page == Page(row, offset, limit)
<1>1. /\ output \in OutputBuffer /\ row.command_id \in Nat
      /\ kept \in Seq(Characters) /\ Len(kept) \in Nat
      /\ first \in Nat /\ start \in Nat
      /\ MaxReadLimit \in Nat
  BY CapsAssumption DEF Rows, OutputBuffer
<1>2. /\ first + Len(kept) = output.total_characters
      /\ \A i \in 1..Len(kept) :
           kept[i].of = row.command_id /\ kept[i].at = first + i
  BY DEF Sound, ExactTail
<1>3. CASE start < first
  <2>1. page = Evicted(first)
    BY <1>3 DEF Page
  <2> QED BY <1>1, <2>1 DEF Evicted, Answers
<1>4. CASE ~(start < first)
  <2>1. skip \in Nat /\ start = first + skip
    BY <1>1, <1>4
  <2>2. last \in Nat /\ last <= Len(kept)
    BY <1>1, <2>1 DEF Lesser
  <2> HIDE DEF skip, last
  <2>3. /\ content \in Seq(Characters) /\ Len(content) \in Nat
        /\ \A i \in 1..Len(content) :
             skip + i \in 1..Len(kept) /\ content[i] = kept[skip + i]
    <3>1. \A i \in (skip + 1)..last : kept[i] \in Characters
      BY <1>1, <2>1, <2>2, ElementOfSeq
    <3>2. /\ content \in Seq(Characters)
          /\ Len(content) = IF skip + 1 <= last THEN last - (skip + 1) + 1 ELSE 0
          /\ \A i \in 1..(last - (skip + 1) + 1) :
               content[i] = kept[(skip + 1) + i - 1]
      BY <2>1, <2>2, <3>1, SubSeqProperties
    <3> HIDE DEF content
    <3> QED BY <1>1, <2>1, <2>2, <3>2
  <2>4. page = [kind |-> "page", command_id |-> row.command_id, offset |-> start,
                next_offset |-> start + Len(content),
                has_more |-> start + Len(content) < first + Len(kept),
                content |-> content]
    BY <1>4 DEF Page, skip, last
  <2> HIDE DEF page, content
  <2>5. page \in Answers
    BY <1>1, <2>3, <2>4 DEF Answers
  <2>6. ASSUME NEW i \in 1..Len(content)
        PROVE  content[i].of = row.command_id /\ content[i].at = start + i
    <3>1. /\ content[i] = kept[skip + i] /\ skip + i \in 1..Len(kept)
          /\ start + i = first + (skip + i)
      BY <1>1, <2>1, <2>3
    <3> QED BY <1>2, <3>1
  <2>7. ~page.has_more => page.next_offset >= output.total_characters
    <3>1. /\ page.next_offset = start + Len(content)
          /\ page.has_more <=> start + Len(content) < first + Len(kept)
      BY <2>4
    <3>2. start + Len(content) \in Nat /\ first + Len(kept) \in Nat
      BY <1>1, <2>3
    <3>3. ~(start + Len(content) < first + Len(kept))
            => start + Len(content) >= first + Len(kept)
      BY <3>2
    <3> QED BY <1>2, <3>1, <3>3
  <2> QED BY <2>4, <2>5, <2>6, <2>7 DEF page
<1> QED BY <1>3, <1>4

-----------------------------------------------------------------------------
(* The inductive invariant.  An empty store satisfies it.                  *)
LEMMA InitInvariant == Init => IInv
<1> SUFFICES ASSUME Init PROVE IInv
  OBVIOUS
<1>1. completed = <<>> /\ active = NoCommand /\ next_id = 1 /\ exited = FALSE
      /\ begun = 0 /\ answer = NoAnswer
  BY DEF Init
<1>2. RowsSound(completed) /\ Len(completed) <= MaxCompletedCommands
  BY <1>1, CapsAssumption DEF RowsSound
<1>3. answer \in Answers /\ PagesAreTrue
  BY <1>1 DEF NoAnswer, Answers, PagesAreTrue
<1>4. begun \in Nat /\ next_id = begun + 1
  BY <1>1
<1>5. exited \in BOOLEAN
  BY <1>1, Zenon
<1> QED BY <1>1, <1>2, <1>3, <1>4, <1>5 DEF IInv

(* The buffer a span starts with.                                          *)
LEMMA EmptySound ==
  ASSUME NEW serial
  PROVE  Sound(EmptyBuffer, serial) /\ Bytes(EmptyBuffer.retained) = 0
BY DEF EmptyBuffer, Sound, OutputBuffer, ExactTail, Contiguous, Bytes

(* Every action preserves it; the reads establish that their page is true. *)
LEMMA NextPreserves == IInv /\ [Next]_vars => IInv'
<1> SUFFICES ASSUME IInv, [Next]_vars PROVE IInv'
  OBVIOUS
<1>1. /\ RowsSound(completed) /\ Len(completed) <= MaxCompletedCommands
      /\ active # NoCommand => SpanSound(active)
      /\ begun \in Nat /\ next_id = begun + 1
      /\ exited \in BOOLEAN
      /\ answer \in Answers
  BY DEF IInv
<1>2. MaxCompletedCommands \in Nat /\ MaxCommandOutputBytes \in Nat
  BY CapsAssumption
<1>3. answer' = NoAnswer => (answer \in Answers /\ PagesAreTrue)'
  BY DEF NoAnswer, Answers, PagesAreTrue
<1>4. Len(completed) \in Nat
  BY <1>1 DEF RowsSound
<1>5. CASE Begin
  <2>1. active' = [command_id |-> next_id, serial |-> begun + 1,
                   output |-> EmptyBuffer, partial |-> FALSE]
    BY <1>5 DEF Begin
  <2>2. SpanSound(active')
    <3>1. Sound(EmptyBuffer, begun + 1) /\ Bytes(EmptyBuffer.retained) = 0
      BY EmptySound
    <3>2. EmptyBuffer \in OutputBuffer
      BY <3>1 DEF Sound
    <3> HIDE DEF EmptyBuffer
    <3> QED BY <1>1, <1>2, <2>1, <3>1, <3>2 DEF SpanSound, Spans
  <2> QED BY <1>1, <1>3, <1>5, <2>2 DEF Begin, IInv
<1>6. ASSUME NEW text \in Chunks \cup {<<>>}, NEW partial \in BOOLEAN,
             RecordOutput(text, partial)
      PROVE  IInv'
  <2> DEFINE new == Appended(active.output, text, active.serial)
  <2>1. /\ active # NoCommand
        /\ active' = [active EXCEPT !.output = new, !.partial = partial]
        /\ completed' = Capped(completed, active')
        /\ answer' = NoAnswer
        /\ UNCHANGED <<next_id, exited, begun>>
    BY <1>6 DEF RecordOutput
  <2>2. SpanSound(active)
    BY <1>1, <2>1
  <2>3. Sound(new, active.serial) /\ Bytes(new.retained) <= MaxCommandOutputBytes
    BY <2>2, AppendedSound, ChunksAreTexts DEF SpanSound, Spans
  <2> HIDE DEF new
  <2>4. SpanSound(active')
    <3>1. new \in OutputBuffer
      BY <2>3 DEF Sound
    <3> QED BY <2>1, <2>2, <2>3, <3>1 DEF SpanSound, Spans
  <2>5. RowsSound(completed') /\ Len(completed') = Len(completed)
    BY <1>1, <2>1, CappedRows
  <2> QED BY <1>1, <1>3, <2>1, <2>4, <2>5 DEF IInv
<1>7. CASE End
  <2> DEFINE left == Left(completed, Finished(active))
  <2>1. /\ active # NoCommand /\ active' = NoCommand
        /\ completed' = Capped(left, NoCommand)
        /\ answer' = NoAnswer
        /\ UNCHANGED <<next_id, exited, begun>>
    BY <1>7 DEF End, Left
  <2>2. SpanSound(active)
    BY <1>1, <2>1
  <2>3. RowsSound(left) /\ Len(left) <= MaxCompletedCommands
    BY <1>1, <2>2, FinishedSound, LeftRows
  <2> HIDE DEF left
  <2>4. RowsSound(completed') /\ Len(completed') <= MaxCompletedCommands
    BY <2>1, <2>3, CappedRows
  <2> QED BY <1>1, <1>3, <2>1, <2>4 DEF IInv
<1>8. CASE ClearCompleted
  <2>1. completed' = <<>> /\ answer' = NoAnswer
        /\ UNCHANGED <<active, next_id, exited, begun>>
    BY <1>8 DEF ClearCompleted
  <2>2. RowsSound(completed') /\ Len(completed') <= MaxCompletedCommands
    BY <1>2, <2>1 DEF RowsSound
  <2> QED BY <1>1, <1>3, <2>1, <2>2 DEF IInv
<1>9. CASE AbandonActive
  BY <1>1, <1>3, <1>9 DEF AbandonActive, IInv
<1>10. ASSUME NEW command_id \in 1..MaxCommands,
              NEW offset \in 0..(MaxBytes + 1) \cup {NoOffset},
              NEW limit \in Limits, Read(command_id, offset, limit)
       PROVE  IInv'
  <2>1. UNCHANGED <<completed, active, next_id, exited, begun>>
    BY <1>10 DEF Read
  <2>2. CASE answer' = NotFound
    BY <1>1, <2>1, <2>2 DEF NotFound, Answers, PagesAreTrue, IInv
  <2>3. ASSUME NEW i \in DOMAIN completed, answer' = Page(completed[i], offset, limit)
        PROVE  IInv'
    <3> DEFINE row == completed[i]
    <3>1. row \in Rows /\ Sound(row.output, row.command_id)
      BY <1>1, ElementOfSeq DEF RowsSound
    <3>2. offset \in Nat \cup {NoOffset} /\ limit \in Nat \ {0}
      BY CapsAssumption
    <3> HIDE DEF row
    <3>3. /\ answer' \in Answers
          /\ answer'.kind = "page" =>
               /\ answer'.command_id = row.command_id
               /\ answer'.next_offset = answer'.offset + Len(answer'.content)
               /\ \A n \in 1..Len(answer'.content) :
                    /\ answer'.content[n].of = answer'.command_id
                    /\ answer'.content[n].at = answer'.offset + n
               /\ ~answer'.has_more =>
                    answer'.next_offset >= row.output.total_characters
      <4>1. answer' = Page(row, offset, limit)
        BY <2>3 DEF row
      <4> QED BY <3>1, <3>2, <4>1, PageTrue
    <3>4. PagesAreTrue'
      BY <2>1, <3>3 DEF PagesAreTrue, row
    <3> QED BY <1>1, <2>1, <3>3, <3>4 DEF IInv
  <2> QED BY <1>10, <2>2, <2>3 DEF Read
<1>11. CASE UNCHANGED vars
  BY <1>1, <1>11 DEF vars, IInv, PagesAreTrue
<1> QED BY <1>5, <1>6, <1>7, <1>8, <1>9, <1>10, <1>11 DEF Next

(* In every reachable state all buffers are sound, within their cap, and   *)
(* numbered by the commands they belong to.                                *)
THEOREM InvariantAlways == Spec => []IInv
BY InitInvariant, NextPreserves, PTL DEF Spec

-----------------------------------------------------------------------------
(* The store's state is what its types say, at every depth.                *)
THEOREM TypeAlways == Spec => []TypeOK
<1>1. IInv => TypeOK
  BY DEF IInv, TypeOK, RowsSound, SpanSound
<1> QED BY <1>1, InvariantAlways, PTL

(* For any caps and texts: what is kept of every command's output is its   *)
(* exact tail, its offsets and byte counts say where the gap is, and a     *)
(* truncation is never concealed.                                          *)
THEOREM AccountingAlwaysExact == Spec => []Accounted
<1>1. IInv => Accounted
  BY DEF IInv, Accounted, RowsSound, SpanSound, Sound
<1> QED BY <1>1, InvariantAlways, PTL

(* Every page the agent is ever given is the part of that command's output *)
(* its offsets name, and "no more" is never said before the last character. *)
THEOREM PagesAlwaysTrue == Spec => []PagesAreTrue
<1>1. IInv => PagesAreTrue
  BY DEF IInv
<1> QED BY <1>1, InvariantAlways, PTL

(* No command, running or completed, ever keeps more than its cap.         *)
THEOREM CommandCapAlwaysHolds == Spec => []WithinCommandCap
<1>1. IInv => WithinCommandCap
  BY DEF IInv, WithinCommandCap, RowsSound, SpanSound
<1> QED BY <1>1, InvariantAlways, PTL

-----------------------------------------------------------------------------
(* Loops over the rows.                                                    *)

(* What holds at 0 and carries over to the next holds up to n.             *)
LEMMA Counting ==
  ASSUME NEW n \in Nat, NEW S, 0 \in S, \A i \in 1..n : i - 1 \in S => i \in S
  PROVE  0..n \subseteq S
<1> DEFINE Missing == (0..n) \ S
<1>1. SUFFICES ASSUME Missing # {} PROVE FALSE
  OBVIOUS
<1>2. Missing \in SUBSET Nat
  OBVIOUS
<1>3. PICK x \in Missing : \A y \in Missing : x <= y
  <2> HIDE DEF Missing
  <2> QED BY <1>1, <1>2, LeastExists
<1>4. x \in 1..n /\ x - 1 \in 0..n /\ x - 1 \notin Missing
  BY <1>3
<1> QED BY <1>4

(* Values computed one from the other exist.                               *)
LEMMA LoopExists ==
  ASSUME NEW n \in Nat, NEW a \in Int, NEW step \in [(1..n) \X Int -> Int]
  PROVE  \E h \in [0..n -> Int] :
           h[0] = a /\ \A i \in 1..n : h[i] = step[<<i, h[i - 1]>>]
<1> DEFINE Good(m, h) ==
             /\ h \in [0..m -> Int]
             /\ h[0] = a /\ \A i \in 1..m : h[i] = step[<<i, h[i - 1]>>]
           S == {m \in 0..n : \E h : Good(m, h)}
<1>1. 0 \in S
  <2> DEFINE g == [i \in 0..0 |-> a]
  <2>1. g \in [0..0 -> Int] /\ g[0] = a
    OBVIOUS
  <2>2. \A i \in 1..0 : FALSE
    OBVIOUS
  <2> HIDE DEF g
  <2>3. Good(0, g)
    BY <2>1, <2>2
  <2>4. 0 \in 0..n
    OBVIOUS
  <2> QED BY <2>3, <2>4
<1>2. ASSUME NEW i \in 1..n, i - 1 \in S PROVE i \in S
  <2>1. PICK h : Good(i - 1, h)
    BY <1>2
  <2> DEFINE g == [k \in 0..i |-> IF k = i THEN step[<<i, h[i - 1]>>] ELSE h[k]]
  <2>2. step[<<i, h[i - 1]>>] \in Int
    BY <2>1
  <2>3. \A k \in 0..i : k = i \/ k \in 0..(i - 1)
    OBVIOUS
  <2>4. g \in [0..i -> Int] /\ g[0] = a
    BY <2>1, <2>2, <2>3
  <2>5. g[i] = step[<<i, h[i - 1]>>] /\ \A k \in 0..(i - 1) : g[k] = h[k]
    OBVIOUS
  <2> HIDE DEF g
  <2>6. ASSUME NEW k \in 1..i PROVE g[k] = step[<<k, g[k - 1]>>]
    <3>1. CASE k = i
      <4>1. i - 1 \in 0..(i - 1)
        OBVIOUS
      <4> QED BY <2>5, <3>1, <4>1
    <3>2. CASE k # i
      <4>1. k \in 1..(i - 1) /\ k - 1 \in 0..(i - 1) /\ k \in 0..(i - 1)
        BY <3>2
      <4>2. h[k] = step[<<k, h[k - 1]>>]
        BY <2>1, <4>1
      <4> QED BY <2>5, <4>1, <4>2
    <3> QED BY <3>1, <3>2
  <2>7. Good(i, g)
    BY <2>4, <2>6
  <2>8. i \in 0..n
    OBVIOUS
  <2> QED BY <2>7, <2>8
<1>3. n \in S
  <2> HIDE DEF S
  <2>1. 0..n \subseteq S
    BY <1>1, <1>2, Counting
  <2> QED BY <2>1
<1> QED BY <1>3

(* The sum of retained_bytes.                                              *)
IsSum(s, rows) ==
  /\ s \in [0..Len(rows) -> Int]
  /\ s[0] = 0
  /\ \A i \in 1..Len(rows) : s[i] = s[i - 1] + Bytes(rows[i].output.retained)

SpanBytes(span) == IF span = NoCommand THEN 0 ELSE Bytes(span.output.retained)

(* What a row keeps is a number of bytes. *)
LEMMA RowBytes ==
  ASSUME NEW rows, RowsSound(rows), NEW i \in 1..Len(rows)
  PROVE  Bytes(rows[i].output.retained) \in Nat
<1>1. i \in DOMAIN rows
  BY DEF RowsSound
<1>2. Sound(rows[i].output, rows[i].command_id)
  BY <1>1 DEF RowsSound
<1> QED BY <1>2, KeptBytes

(* retained_bytes is what the span keeps and what the rows keep, one after *)
(* the other.                                                              *)
LEMMA RetainedIsSum ==
  ASSUME NEW rows, RowsSound(rows), NEW span
  PROVE  \E s : IsSum(s, rows)
                /\ RetainedBytes(rows, span) = SpanBytes(span) + s[Len(rows)]
<1> DEFINE n == Len(rows)
           B(i) == Bytes(rows[i].output.retained)
           P(s) == s = [i \in 0..n |-> IF i = 0 THEN 0 ELSE s[i - 1] + B(i)]
           step == [p \in (1..n) \X Int |-> p[2] + B(p[1])]
<1>1. n \in Nat
  BY DEF RowsSound
<1>2. \A i \in 1..n : B(i) \in Nat
  BY RowBytes
<1>3. RetainedBytes(rows, span) = SpanBytes(span) + (CHOOSE s : P(s))[n]
  BY DEF RetainedBytes, SpanBytes
<1> HIDE DEF B, n
<1>4. step \in [(1..n) \X Int -> Int]
  BY <1>1, <1>2
<1>5. \A i \in 1..n, x \in Int : step[<<i, x>>] = x + B(i)
  OBVIOUS
<1> HIDE DEF step
<1>6. PICK h \in [0..n -> Int] :
        h[0] = 0 /\ \A i \in 1..n : h[i] = step[<<i, h[i - 1]>>]
  <2>1. 0 \in Int
    OBVIOUS
  <2>2. \E h \in [0..n -> Int] :
          h[0] = 0 /\ \A i \in 1..n : h[i] = step[<<i, h[i - 1]>>]
    BY <1>1, <1>4, <2>1, LoopExists, Zenon
  <2> QED BY <2>2
<1>7. P(h)
  <2>1. \A i \in 0..n : i # 0 => i \in 1..n /\ i - 1 \in 0..n
    BY <1>1
  <2>2. \A i \in 0..n : h[i] = IF i = 0 THEN 0 ELSE h[i - 1] + B(i)
    BY <1>5, <1>6, <2>1
  <2> QED BY <1>6, <2>2
<1> DEFINE s == CHOOSE s : P(s)
<1>8. P(s)
  BY <1>7
<1> HIDE DEF s
<1>9. s[0] = 0 /\ \A i \in 1..n : s[i] = s[i - 1] + B(i)
  <2>1. \A i \in 0..n : s[i] = IF i = 0 THEN 0 ELSE s[i - 1] + B(i)
    BY <1>8
  <2> QED BY <1>1, <2>1
<1>10. s \in [0..n -> Int]
  <2> DEFINE S == {i \in 0..n : s[i] \in Int}
  <2>1. 0 \in S /\ \A i \in 1..n : i - 1 \in S => i \in S
    BY <1>1, <1>2, <1>9
  <2>2. 0..n \subseteq S
    <3> HIDE DEF S
    <3> QED BY <1>1, <2>1, Counting
  <2> QED BY <1>8, <2>2
<1>11. IsSum(s, rows)
  BY <1>9, <1>10 DEF IsSum, B, n
<1> QED BY <1>3, <1>11 DEF s, n

(* Two ways to sum the same rows give the same. *)
LEMMA SumUnique ==
  ASSUME NEW rows, RowsSound(rows), NEW s, IsSum(s, rows), NEW t, IsSum(t, rows)
  PROVE  s[Len(rows)] = t[Len(rows)]
<1> DEFINE n == Len(rows)
           S == {i \in 0..n : s[i] = t[i]}
<1>1. n \in Nat
  BY DEF RowsSound
<1>2. 0 \in S /\ \A i \in 1..n : i - 1 \in S => i \in S
  BY <1>1 DEF IsSum
<1>3. 0..n \subseteq S
  <2> HIDE DEF S, n
  <2> QED BY <1>1, <1>2, Counting
<1> QED BY <1>1, <1>3

(* A span that may be open. *)
MaybeSpan(span) == span = NoCommand \/ SpanSound(span)

(* What the running command keeps is within its own cap. *)
LEMMA SpanWithin ==
  ASSUME NEW span, MaybeSpan(span)
  PROVE  SpanBytes(span) \in 0..MaxCommandOutputBytes
<1>1. MaxCommandOutputBytes \in Nat
  BY CapsAssumption
<1>2. CASE span = NoCommand
  BY <1>1, <1>2 DEF SpanBytes
<1>3. CASE span # NoCommand
  <2>1. /\ Sound(span.output, span.serial)
        /\ Bytes(span.output.retained) <= MaxCommandOutputBytes
    BY <1>3 DEF MaybeSpan, SpanSound
  <2>2. Bytes(span.output.retained) \in Nat
    BY <2>1, KeptBytes
  <2> QED BY <1>1, <1>3, <2>1, <2>2 DEF SpanBytes
<1> QED BY <1>2, <1>3

(* The sum is a number. *)
LEMMA RetainedIsInt ==
  ASSUME NEW rows, RowsSound(rows), NEW span, MaybeSpan(span)
  PROVE  RetainedBytes(rows, span) \in Int
<1>1. PICK s : /\ IsSum(s, rows)
               /\ RetainedBytes(rows, span) = SpanBytes(span) + s[Len(rows)]
  BY RetainedIsSum
<1>2. Len(rows) \in Nat
  BY DEF RowsSound
<1>3. s[Len(rows)] \in Int
  BY <1>1, <1>2 DEF IsSum
<1>4. SpanBytes(span) \in Int
  <2>1. SpanBytes(span) \in 0..MaxCommandOutputBytes /\ MaxCommandOutputBytes \in Nat
    BY SpanWithin, CapsAssumption
  <2> QED BY <2>1
<1> QED BY <1>1, <1>3, <1>4

(* What reclaim_prefix returns is what the buffer has become smaller by. *)
LEMMA FreedBytes ==
  ASSUME NEW output, NEW serial, Sound(output, serial), NEW bytes \in Int
  PROVE  /\ Freed(output, bytes) \in Nat
         /\ Bytes(Reclaimed(output, bytes).retained)
              = Bytes(output.retained) - Freed(output, bytes)
<1> DEFINE less == Reclaimed(output, bytes)
<1>1. Sound(less, serial) /\ Bytes(less.retained) <= Bytes(output.retained)
  BY ReclaimedSound
<1>2. Freed(output, bytes) = Bytes(output.retained) - Bytes(less.retained)
  BY DEF Freed
<1> HIDE DEF less
<1>3. Bytes(output.retained) \in Nat /\ Bytes(less.retained) \in Nat
  <2>1. Bytes(less.retained) \in Nat
    BY <1>1, KeptBytes
  <2> QED BY <2>1, KeptBytes
<1>4. /\ Freed(output, bytes) \in Nat
      /\ Bytes(less.retained) = Bytes(output.retained) - Freed(output, bytes)
  BY <1>1, <1>2, <1>3
<1> QED BY <1>4 DEF less

(* The excess before the first row, and after each. *)
IsExcess(e, rows, span) ==
  /\ e \in [0..Len(rows) -> Int]
  /\ e[0] = RetainedBytes(rows, span) - MaxTotalOutputBytes
  /\ \A i \in 1..Len(rows) :
       e[i] = e[i - 1] - IF e[i - 1] > 0 THEN Freed(rows[i].output, e[i - 1]) ELSE 0

CappedBy(e, rows) ==
  [i \in 1..Len(rows) |->
     IF e[i - 1] > 0
     THEN [rows[i] EXCEPT !.output = Reclaimed(@, e[i - 1])]
     ELSE rows[i]]

(* enforce_total_cap is that loop. *)
LEMMA CappedIsLoop ==
  ASSUME NEW rows, RowsSound(rows), NEW span, MaybeSpan(span)
  PROVE  \E e : IsExcess(e, rows, span) /\ Capped(rows, span) = CappedBy(e, rows)
<1> DEFINE n == Len(rows)
           first == RetainedBytes(rows, span) - MaxTotalOutputBytes
           F(i, x) == IF x > 0 THEN Freed(rows[i].output, x) ELSE 0
           P(e) == e = [i \in 0..n |-> IF i = 0 THEN first ELSE e[i - 1] - F(i, e[i - 1])]
           step == [p \in (1..n) \X Int |-> p[2] - F(p[1], p[2])]
<1>1. n \in Nat
  BY DEF RowsSound
<1>2. first \in Int
  <2>1. RetainedBytes(rows, span) \in Int /\ MaxTotalOutputBytes \in Nat
    BY RetainedIsInt, CapsAssumption
  <2> QED BY <2>1
<1>3. ASSUME NEW i \in 1..n, NEW x \in Int PROVE F(i, x) \in Int
  <2>1. i \in DOMAIN rows
    BY DEF RowsSound
  <2>2. Sound(rows[i].output, rows[i].command_id)
    BY <2>1 DEF RowsSound
  <2>3. Freed(rows[i].output, x) \in Nat
    BY <2>2, FreedBytes
  <2> QED BY <2>3
<1>4. Capped(rows, span) = CappedBy(CHOOSE e : P(e), rows)
  BY DEF Capped, CappedBy
<1> HIDE DEF F, n, first
<1>5. step \in [(1..n) \X Int -> Int]
  BY <1>1, <1>3
<1>6. \A i \in 1..n, x \in Int : step[<<i, x>>] = x - F(i, x)
  OBVIOUS
<1> HIDE DEF step
<1>7. PICK h \in [0..n -> Int] :
        h[0] = first /\ \A i \in 1..n : h[i] = step[<<i, h[i - 1]>>]
  <2>1. \E h \in [0..n -> Int] :
          h[0] = first /\ \A i \in 1..n : h[i] = step[<<i, h[i - 1]>>]
    BY <1>1, <1>2, <1>5, LoopExists, Zenon
  <2> QED BY <2>1
<1>8. P(h)
  <2>1. \A i \in 0..n : i # 0 => i \in 1..n /\ i - 1 \in 0..n
    BY <1>1
  <2>2. \A i \in 1..n : h[i] = h[i - 1] - F(i, h[i - 1])
    <3>1. \A i \in 1..n : h[i - 1] \in Int
      BY <1>1, <1>7
    <3> QED BY <1>6, <1>7, <3>1
  <2>3. \A i \in 0..n : h[i] = IF i = 0 THEN first ELSE h[i - 1] - F(i, h[i - 1])
    BY <1>7, <2>1, <2>2
  <2>4. h = [i \in 0..n |-> h[i]]
    BY <1>7
  <2> QED BY <2>3, <2>4
<1> DEFINE e == CHOOSE e : P(e)
<1>9. P(e)
  BY <1>8
<1> HIDE DEF e
<1>10. e[0] = first /\ \A i \in 1..n : e[i] = e[i - 1] - F(i, e[i - 1])
  <2>1. \A i \in 0..n : e[i] = IF i = 0 THEN first ELSE e[i - 1] - F(i, e[i - 1])
    BY <1>9
  <2>2. \A i \in 1..n : i \in 0..n /\ i # 0
    BY <1>1
  <2>3. 0 \in 0..n
    BY <1>1
  <2> QED BY <2>1, <2>2, <2>3
<1>11. e \in [0..n -> Int]
  <2> DEFINE S == {i \in 0..n : e[i] \in Int}
  <2>1. 0 \in S
    BY <1>1, <1>2, <1>10
  <2>2. ASSUME NEW i \in 1..n, i - 1 \in S PROVE i \in S
    <3>1. e[i - 1] \in Int
      BY <2>2
    <3>2. F(i, e[i - 1]) \in Int
      BY <1>3, <3>1
    <3>3. e[i] = e[i - 1] - F(i, e[i - 1])
      BY <1>10
    <3> QED BY <3>1, <3>2, <3>3
  <2>3. 0..n \subseteq S
    <3> HIDE DEF S
    <3> QED BY <1>1, <2>1, <2>2, Counting
  <2>4. DOMAIN e = 0..n /\ e = [i \in 0..n |-> e[i]]
    BY <1>9
  <2> QED BY <2>3, <2>4
<1>12. IsExcess(e, rows, span)
  BY <1>10, <1>11 DEF IsExcess, F, n, first
<1> QED BY <1>4, <1>12 DEF e, n

(* Row by row the excess falls by what the row loses; and while there is   *)
(* still excess, the rows visited keep nothing.                            *)
LEMMA ExcessStep ==
  ASSUME NEW rows, RowsSound(rows), NEW span, NEW e, IsExcess(e, rows, span),
         NEW i \in 1..Len(rows)
  PROVE  LET before == Bytes(rows[i].output.retained)
             after == Bytes(CappedBy(e, rows)[i].output.retained)
         IN  /\ e[i - 1] \in Int
             /\ after \in Nat /\ after <= before
             /\ e[i] = e[i - 1] - before + after
             /\ e[i] > 0 => after = 0
<1> DEFINE row == CappedBy(e, rows)[i]
           B == Bytes(rows[i].output.retained)
           A == Bytes(row.output.retained)
           F == Freed(rows[i].output, e[i - 1])
<1>1. i - 1 \in 0..Len(rows) /\ i \in DOMAIN rows /\ rows[i] \in Rows
  BY ElementOfSeq DEF RowsSound
<1>2. e[i - 1] \in Int
  BY <1>1 DEF IsExcess
<1>3. e[i] = e[i - 1] - IF e[i - 1] > 0 THEN F ELSE 0
  BY DEF IsExcess
<1>4. row = IF e[i - 1] > 0
            THEN [rows[i] EXCEPT !.output = Reclaimed(@, e[i - 1])]
            ELSE rows[i]
  BY DEF CappedBy
<1>5. B \in Nat
  BY RowBytes
<1>6. Sound(rows[i].output, rows[i].command_id)
  BY <1>1 DEF RowsSound
<1>7. CASE e[i - 1] > 0
  <2> DEFINE less == Reclaimed(rows[i].output, e[i - 1])
  <2>1. /\ F \in Nat /\ Bytes(less.retained) = B - F
        /\ Sound(less, rows[i].command_id)
        /\ Bytes(less.retained) <= B
        /\ Bytes(less.retained) = 0 \/ Bytes(less.retained) <= B - e[i - 1]
    BY <1>2, <1>6, FreedBytes, ReclaimedSound
  <2>2. row.output = less
    <3> HIDE DEF less, row
    <3>1. row = [rows[i] EXCEPT !.output = less]
      BY <1>4, <1>7 DEF less
    <3> QED BY <1>1, <3>1 DEF Rows
  <2> HIDE DEF less, F, B, row
  <2>3. Bytes(less.retained) \in Nat
    BY <2>1, KeptBytes
  <2>4. A = Bytes(less.retained)
    BY <2>2
  <2>5. e[i] = e[i - 1] - F
    BY <1>3, <1>7
  <2> HIDE DEF A
  <2>6. A \in Nat /\ A <= B /\ A = B - F /\ (A = 0 \/ A <= B - e[i - 1])
    BY <2>1, <2>3, <2>4
  <2>7. e[i] = e[i - 1] - B + A /\ (e[i] > 0 => A = 0)
    BY <1>2, <1>5, <2>1, <2>5, <2>6
  <2> QED BY <1>2, <2>6, <2>7 DEF A, B, row
<1>8. CASE ~(e[i - 1] > 0)
  <2>1. row = rows[i] /\ e[i] = e[i - 1] - 0
    BY <1>3, <1>4, <1>8
  <2>2. A = B
    BY <2>1
  <2> HIDE DEF A, B, row
  <2> QED BY <1>2, <1>5, <1>8, <2>1, <2>2 DEF A, B, row
<1> QED BY <1>7, <1>8

(* It never grows. *)
LEMMA ExcessFalls ==
  ASSUME NEW rows, RowsSound(rows), NEW span, NEW e, IsExcess(e, rows, span),
         NEW k \in 0..Len(rows), NEW i \in k..Len(rows)
  PROVE  e[i] <= e[k]
<1> DEFINE n == Len(rows)
           S == {j \in 0..n : k <= j => e[j] <= e[k]}
<1>1. n \in Nat
  BY DEF RowsSound
<1>2. \A j \in 0..n : e[j] \in Int
  BY DEF IsExcess
<1>3. 0 \in S
  BY <1>1, <1>2
<1>4. ASSUME NEW j \in 1..n, j - 1 \in S PROVE j \in S
  <2>1. e[j] <= e[j - 1]
    <3> DEFINE B == Bytes(rows[j].output.retained)
               A == Bytes(CappedBy(e, rows)[j].output.retained)
    <3>1. e[j - 1] \in Int /\ A \in Nat /\ A <= B /\ e[j] = e[j - 1] - B + A
      BY ExcessStep
    <3>2. B \in Nat
      BY RowBytes
    <3> HIDE DEF A, B
    <3> QED BY <3>1, <3>2
  <2>2. j \in 0..n /\ j - 1 \in 0..n
    BY <1>1
  <2>3. k <= j => k = j \/ k <= j - 1
    BY <2>2
  <2>4. e[j] \in Int /\ e[j - 1] \in Int /\ e[k] \in Int
    BY <1>2, <2>2
  <2> QED BY <1>4, <2>1, <2>2, <2>3, <2>4
<1>5. 0..n \subseteq S
  <2> HIDE DEF S, n
  <2> QED BY <1>1, <1>3, <1>4, Counting
<1>6. i \in 0..n /\ k <= i
  BY <1>1
<1> QED BY <1>5, <1>6

(* While there is excess after row i, no row up to it keeps anything. *)
LEMMA NothingKept ==
  ASSUME NEW rows, RowsSound(rows), NEW span, NEW e, IsExcess(e, rows, span),
         NEW i \in 0..Len(rows), e[i] > 0, NEW k \in 1..i
  PROVE  Bytes(CappedBy(e, rows)[k].output.retained) = 0
<1>1. Len(rows) \in Nat
  BY DEF RowsSound
<1>2. k \in 1..Len(rows) /\ k \in 0..Len(rows) /\ i \in k..Len(rows)
  BY <1>1
<1>3. e[i] <= e[k]
  BY <1>2, ExcessFalls
<1>4. e[i] \in Int /\ e[k] \in Int
  BY <1>2 DEF IsExcess
<1>5. e[k] > 0
  BY <1>3, <1>4
<1> QED BY <1>2, <1>5, ExcessStep

(* What is over the cap after i rows, by the sums of what they kept before *)
(* and keep now.                                                           *)
LEMMA ExcessIsSum ==
  ASSUME NEW rows, RowsSound(rows), NEW span, MaybeSpan(span),
         NEW e, IsExcess(e, rows, span),
         NEW s, IsSum(s, rows), NEW t, IsSum(t, CappedBy(e, rows)),
         Len(CappedBy(e, rows)) = Len(rows),
         NEW i \in 0..Len(rows)
  PROVE  e[i] = e[0] - s[i] + t[i]
<1> DEFINE n == Len(rows)
           S == {j \in 0..n : e[j] = e[0] - s[j] + t[j]}
<1>1. n \in Nat
  BY DEF RowsSound
<1>2. \A j \in 0..n : e[j] \in Int /\ s[j] \in Int /\ t[j] \in Int
  BY DEF IsExcess, IsSum
<1>3. 0 \in S
  <2>1. s[0] = 0 /\ t[0] = 0 /\ 0 \in 0..n
    BY <1>1 DEF IsSum
  <2> QED BY <1>2, <2>1
<1>4. ASSUME NEW j \in 1..n, j - 1 \in S PROVE j \in S
  <2> DEFINE B == Bytes(rows[j].output.retained)
             A == Bytes(CappedBy(e, rows)[j].output.retained)
  <2>1. A \in Nat /\ e[j] = e[j - 1] - B + A
    BY ExcessStep
  <2>2. B \in Nat
    BY RowBytes
  <2>3. s[j] = s[j - 1] + B /\ t[j] = t[j - 1] + A
    BY DEF IsSum
  <2> HIDE DEF A, B
  <2>4. j \in 0..n /\ j - 1 \in 0..n /\ 0 \in 0..n
    BY <1>1
  <2>5. /\ e[0] \in Int /\ s[j - 1] \in Int /\ t[j - 1] \in Int
        /\ e[j - 1] = e[0] - s[j - 1] + t[j - 1]
    BY <1>2, <1>4, <2>4
  <2>6. e[j] = e[0] - s[j] + t[j]
    BY <2>1, <2>2, <2>3, <2>5
  <2> QED BY <2>4, <2>6
<1>5. 0..n \subseteq S
  <2> HIDE DEF S, n
  <2> QED BY <1>1, <1>3, <1>4, Counting
<1> QED BY <1>5

(* A sum over rows that keep nothing is 0. *)
LEMMA NothingSums ==
  ASSUME NEW rows, RowsSound(rows), NEW t, IsSum(t, rows), NEW i \in 0..Len(rows),
         \A k \in 1..i : Bytes(rows[k].output.retained) = 0
  PROVE  t[i] = 0
<1> DEFINE S == {j \in 0..i : t[j] = 0}
<1>1. Len(rows) \in Nat /\ i \in Nat
  BY DEF RowsSound
<1>2. 0 \in S /\ \A j \in 1..i : j - 1 \in S => j \in S
  <2>1. \A j \in 1..i : j \in 1..Len(rows)
    BY <1>1
  <2>2. t[0] = 0 /\ \A j \in 1..i : t[j] = t[j - 1] + 0
    BY <2>1 DEF IsSum
  <2> QED BY <1>1, <2>2
<1>3. 0..i \subseteq S
  <2> HIDE DEF S
  <2> QED BY <1>1, <1>2, Counting
<1> QED BY <1>1, <1>3

(* When every row has been visited there is no excess, and what is kept is *)
(* within the session's cap.  With no command running the newest row is    *)
(* never visited with excess.                                              *)
LEMMA CapReached ==
  ASSUME NEW rows, RowsSound(rows), NEW span, MaybeSpan(span),
         NEW e, IsExcess(e, rows, span), Capped(rows, span) = CappedBy(e, rows)
  PROVE  /\ e[Len(rows)] = RetainedBytes(Capped(rows, span), span) - MaxTotalOutputBytes
         /\ RetainedBytes(Capped(rows, span), span) <= MaxTotalOutputBytes
         /\ span = NoCommand /\ rows # <<>> => ~(e[Len(rows) - 1] > 0)
<1> DEFINE n == Len(rows)
           after == CappedBy(e, rows)
           M == MaxTotalOutputBytes
<1>1. n \in Nat /\ RowsSound(after) /\ Len(after) = n
  BY CappedRows DEF RowsSound
<1>2. PICK s : IsSum(s, rows) /\ RetainedBytes(rows, span) = SpanBytes(span) + s[n]
  BY RetainedIsSum
<1>3. PICK t : IsSum(t, after) /\ RetainedBytes(after, span) = SpanBytes(span) + t[n]
  <2>1. \E t : /\ IsSum(t, after)
               /\ RetainedBytes(after, span) = SpanBytes(span) + t[Len(after)]
    <3> HIDE DEF after
    <3> QED BY <1>1, RetainedIsSum
  <2> QED BY <1>1, <2>1
<1>4. e[0] = RetainedBytes(rows, span) - M /\ \A i \in 0..n : e[i] \in Int
  BY DEF IsExcess
<1>5. \A i \in 0..n : e[i] = e[0] - s[i] + t[i]
  BY <1>1, <1>2, <1>3, ExcessIsSum
<1>6. \A i \in 0..n : s[i] \in Int /\ t[i] \in Int
  BY <1>1, <1>2, <1>3 DEF IsSum
<1>7. /\ M \in Nat /\ SpanBytes(span) \in Nat
      /\ SpanBytes(span) <= MaxCommandOutputBytes
      /\ MaxCommandOutputBytes \in Nat /\ MaxCommandOutputBytes <= M
  <2>1. MaxCommandOutputBytes \in Nat /\ SpanBytes(span) \in 0..MaxCommandOutputBytes
    BY SpanWithin, CapsAssumption
  <2> QED BY <2>1, CapsAssumption
<1>8. ASSUME NEW i \in 0..n, e[i] > 0 PROVE t[i] = 0
  <2>1. \A k \in 1..i : Bytes(after[k].output.retained) = 0
    BY <1>8, NothingKept
  <2> HIDE DEF after
  <2> QED BY <1>1, <1>3, <1>8, <2>1, NothingSums
<1> HIDE DEF after, n
<1>9. e[n] = RetainedBytes(after, span) - M
  <2>1. e[n] = e[0] - s[n] + t[n] /\ s[n] \in Int /\ t[n] \in Int
    BY <1>1, <1>5, <1>6
  <2> QED BY <1>2, <1>3, <1>4, <1>7, <2>1
<1>10. ~(e[n] > 0)
  <2>1. SUFFICES ASSUME e[n] > 0 PROVE FALSE
    OBVIOUS
  <2>2. t[n] = 0
    BY <1>1, <1>8, <2>1
  <2>3. e[n] = SpanBytes(span) - M
    BY <1>3, <1>7, <1>9, <2>2
  <2> QED BY <1>7, <2>1, <2>3
<1>11. RetainedBytes(after, span) <= M
  <2>1. RetainedBytes(after, span) \in Int
    BY <1>1, RetainedIsInt
  <2> QED BY <1>7, <1>9, <1>10, <2>1
<1>12. ASSUME span = NoCommand, rows # <<>>, e[n - 1] > 0 PROVE FALSE
  <2>1. n > 0
    BY <1>1, <1>12, EmptySeq DEF RowsSound, n
  <2>2. n - 1 \in 0..n /\ n \in 1..n
    BY <1>1, <2>1
  <2>3. t[n - 1] = 0
    BY <1>8, <1>12, <2>2
  <2> DEFINE B == Bytes(rows[n].output.retained)
  <2>4. s[n] = s[n - 1] + B
    BY <1>2, <2>2 DEF IsSum, n
  <2>5. B \in Nat /\ B <= MaxCommandOutputBytes
    <3>1. n \in DOMAIN rows
      BY <2>2 DEF RowsSound, n
    <3> QED BY <2>2, <3>1, RowBytes DEF RowsSound, n
  <2> HIDE DEF B
  <2>6. SpanBytes(span) = 0
    BY <1>12 DEF SpanBytes
  <2>7. e[n - 1] = e[0] - s[n - 1] + t[n - 1] /\ s[n - 1] \in Int /\ s[n] \in Int
    BY <1>1, <1>5, <1>6, <2>2
  <2>8. e[0] = s[n] - M
    BY <1>2, <1>4, <2>6, <2>7
  <2>9. e[n - 1] = B - M
    BY <1>7, <2>3, <2>4, <2>5, <2>7, <2>8
  <2> QED BY <1>7, <1>12, <2>5, <2>9
<1> QED BY <1>9, <1>11, <1>12 DEF after, n

(* What a buffer has lost when `after` is what it keeps. *)
Gone(before, after) == SubSeq(before, 1, Len(before) - Len(after))

(* With one character less, trim_to would not have released enough.        *)
LEMMA DropCountLeast ==
  ASSUME NEW text \in Seq(Characters), NEW bytes, DropCount(text, bytes) > 0
  PROVE  ~(Bytes(SubSeq(text, 1, DropCount(text, bytes) - 1)) >= bytes)
<1> DEFINE S == {k \in 0..Len(text) :
                   k = Len(text) \/ Bytes(SubSeq(text, 1, k)) >= bytes}
           d == DropCount(text, bytes)
<1>1. S \in SUBSET Nat /\ Len(text) \in S /\ Len(text) \in Nat
  BY LenProperties
<1>2. d = Min(S)
  BY DEF DropCount
<1>3. \E x \in S : \A y \in S : x <= y
  <2> HIDE DEF S
  <2> QED BY <1>1, LeastExists
<1>4. Min(S) \in S /\ \A y \in S : Min(S) <= y
  <2> HIDE DEF S
  <2> QED BY <1>3 DEF Min
<1> HIDE DEF d
<1>5. d \in 0..Len(text) /\ \A y \in S : d <= y
  BY <1>2, <1>4
<1>6. d - 1 \in 0..Len(text) /\ ~(d <= d - 1)
  BY <1>1, <1>5 DEF d
<1>7. d - 1 \notin S
  BY <1>5, <1>6
<1> QED BY <1>6, <1>7 DEF d

(* What reclaiming takes from a buffer, by the number of characters.       *)
LEMMA ReclaimedKeeps ==
  ASSUME NEW output, NEW serial, Sound(output, serial), NEW bytes
  PROVE  LET kept == output.retained
             d == DropCount(kept, bytes)
             less == Reclaimed(output, bytes).retained
         IN  /\ d \in 0..Len(kept)
             /\ Len(less) = Len(kept) - d
             /\ Gone(kept, less) = SubSeq(kept, 1, d)
             /\ d = 0 => less = kept
<1> DEFINE kept == output.retained
           d == DropCount(kept, bytes)
           less == Reclaimed(output, bytes).retained
<1>1. /\ kept \in Seq(Characters) /\ Len(kept) \in Nat
      /\ output \in OutputBuffer
  BY DEF Sound, OutputBuffer
<1>2. d \in 0..Len(kept)
  BY <1>1, DropCountRange
<1>3. less = SubSeq(kept, d + 1, Len(kept))
  BY <1>1 DEF Reclaimed, OutputBuffer
<1> HIDE DEF d, less
<1>4. Len(less) = Len(kept) - d
  <2>1. \A i \in (d + 1)..Len(kept) : kept[i] \in Characters
    BY <1>1, <1>2, ElementOfSeq
  <2>2. Len(less) = IF d + 1 <= Len(kept) THEN Len(kept) - (d + 1) + 1 ELSE 0
    BY <1>1, <1>2, <1>3, <2>1, SubSeqProperties
  <2> QED BY <1>1, <1>2, <2>2
<1>5. Len(kept) - Len(less) = d
  BY <1>1, <1>2, <1>4
<1>6. d = 0 => less = kept
  <2>1. SUFFICES ASSUME d = 0 PROVE less = kept
    OBVIOUS
  <2>2. less = SubSeq(kept, 1, Len(kept))
    BY <1>3, <2>1
  <2> HIDE DEF kept
  <2> QED BY <1>1, <2>2
<1> QED BY <1>2, <1>4, <1>5, <1>6 DEF Gone, d, less

(* Not one character more than was asked for is released: with the last    *)
(* one put back, there would be excess.                                    *)
LEMMA ReclaimedLeast ==
  ASSUME NEW output, NEW serial, Sound(output, serial),
         NEW bytes \in Int, bytes > 0
  PROVE  LET less == Reclaimed(output, bytes).retained
             gone == Gone(output.retained, less)
         IN  gone # <<>> =>
               bytes - Bytes(output.retained) + Bytes(less)
                 + gone[Len(gone)].end - gone[Len(gone)].begin > 0
<1> DEFINE kept == output.retained
           d == DropCount(kept, bytes)
           less == Reclaimed(output, bytes).retained
           gone == Gone(kept, less)
<1>1. SUFFICES ASSUME gone # <<>>
               PROVE  bytes - Bytes(kept) + Bytes(less)
                        + gone[Len(gone)].end - gone[Len(gone)].begin > 0
  OBVIOUS
<1>2. /\ kept \in Seq(Characters) /\ Len(kept) \in Nat
      /\ output \in OutputBuffer
      /\ output.dropped_prefix_bytes \in Nat /\ output.total_bytes \in Nat
  BY DEF Sound, OutputBuffer
<1>3. /\ d \in 0..Len(kept)
      /\ gone = SubSeq(kept, 1, d)
  BY ReclaimedKeeps
<1>4. d > 0
  <2>1. d = 0 => SubSeq(kept, 1, d) = <<>>
    BY SubSeqEmpty
  <2> HIDE DEF gone, kept, d
  <2> QED BY <1>1, <1>2, <1>3, <2>1
<1>5. ~(Bytes(SubSeq(kept, 1, d - 1)) >= bytes)
  BY <1>2, <1>4, DropCountLeast
<1>6. Freed(output, bytes) = Bytes(SubSeq(kept, 1, d))
  <2>1. Reclaimed(output, bytes).dropped_prefix_bytes
          = output.dropped_prefix_bytes + Bytes(SubSeq(kept, 1, d))
    BY <1>2 DEF Reclaimed, OutputBuffer
  <2>2. Reclaimed(output, bytes).total_bytes = output.total_bytes
    BY <1>2 DEF Reclaimed, OutputBuffer
  <2>3. /\ Bytes(kept) = output.total_bytes - output.dropped_prefix_bytes
        /\ Bytes(kept) \in Nat
    BY KeptBytes
  <2>4. /\ Bytes(less) = output.total_bytes
                           - (output.dropped_prefix_bytes + Bytes(SubSeq(kept, 1, d)))
        /\ Bytes(less) \in Nat
    <3>1. Sound(Reclaimed(output, bytes), serial)
      BY ReclaimedSound
    <3>2. /\ Bytes(less) = Reclaimed(output, bytes).total_bytes
                             - Reclaimed(output, bytes).dropped_prefix_bytes
          /\ Bytes(less) \in Nat
      BY <3>1, KeptBytes
    <3> QED BY <2>1, <2>2, <3>2
  <2>5. Freed(output, bytes) = Bytes(kept) - Bytes(less)
    BY DEF Freed
  <2>6. Bytes(SubSeq(kept, 1, d)) \in Int
    <3>1. Bytes(SubSeq(kept, 1, d)) = kept[d].end - output.dropped_prefix_bytes
      BY <1>3, <1>4, PrefixBytes
    <3>2. kept[d] \in Characters
      BY <1>2, <1>3, <1>4, ElementOfSeq
    <3> HIDE DEF d
    <3> QED BY <1>2, <3>1, <3>2 DEF Characters
  <2> HIDE DEF kept, less, d
  <2> QED BY <1>2, <2>3, <2>4, <2>5, <2>6
<1>7. gone[Len(gone)] = kept[d]
  <2>1. \A i \in 1..d : kept[i] \in Characters
    BY <1>2, <1>3, ElementOfSeq
  <2>2. Len(gone) = d /\ \A i \in 1..d : gone[i] = kept[i]
    <3> HIDE DEF gone, d, kept
    <3>1. /\ Len(SubSeq(kept, 1, d)) = IF 1 <= d THEN d - 1 + 1 ELSE 0
          /\ \A i \in 1..(d - 1 + 1) : SubSeq(kept, 1, d)[i] = kept[1 + i - 1]
      BY <1>2, <1>3, <1>4, <2>1, SubSeqProperties
    <3> QED BY <1>2, <1>3, <1>4, <3>1
  <2> HIDE DEF gone, d
  <2> QED BY <1>2, <1>3, <1>4, <2>2
<1>8. /\ kept[d].begin \in Nat /\ kept[d].end \in Nat
      /\ Bytes(SubSeq(kept, 1, d)) = kept[d].end - output.dropped_prefix_bytes
      /\ Bytes(SubSeq(kept, 1, d - 1)) = kept[d].begin - output.dropped_prefix_bytes
  <2>1. kept[d] \in Characters
    BY <1>2, <1>3, <1>4, ElementOfSeq
  <2>2. Bytes(SubSeq(kept, 1, d)) = kept[d].end - output.dropped_prefix_bytes
    BY <1>3, <1>4, PrefixBytes
  <2>3. CASE d = 1
    <3>1. Bytes(SubSeq(kept, 1, 0)) = 0
      BY <1>2, PrefixBytes
    <3>2. kept[1].begin = output.dropped_prefix_bytes
      <4>1. kept # <<>>
        BY <1>2, <1>3, <2>3
      <4> QED BY <4>1 DEF Sound, Contiguous
    <3> HIDE DEF d, kept
    <3> QED BY <1>2, <2>1, <2>2, <2>3, <3>1, <3>2 DEF Characters
  <2>4. CASE d > 1
    <3>1. d - 1 \in 1..Len(kept) /\ d - 1 \in 0..Len(kept) /\ d - 1 < Len(kept)
          /\ (d - 1) + 1 = d /\ d - 1 > 0
      BY <1>2, <1>3, <2>4
    <3> HIDE DEF d
    <3>2. Bytes(SubSeq(kept, 1, d - 1)) = kept[d - 1].end - output.dropped_prefix_bytes
      BY <3>1, PrefixBytes
    <3>3. kept[d - 1].end = kept[(d - 1) + 1].begin
      BY <3>1 DEF Sound, Contiguous
    <3> QED BY <2>1, <2>2, <3>1, <3>2, <3>3 DEF Characters
  <2> QED BY <1>2, <1>3, <1>4, <2>3, <2>4
<1>9. /\ Freed(output, bytes) = Bytes(kept) - Bytes(less)
      /\ Bytes(kept) \in Nat /\ Bytes(less) \in Nat
  <2>1. Sound(Reclaimed(output, bytes), serial)
    BY ReclaimedSound
  <2>2. Bytes(kept) \in Nat /\ Bytes(less) \in Nat
    BY <2>1, KeptBytes
  <2> QED BY <2>2 DEF Freed
<1> HIDE DEF kept, d, less, gone
<1> DEFINE w == kept[d].end
           b == kept[d].begin
           drop == output.dropped_prefix_bytes
           B == Bytes(kept)
           A == Bytes(less)
<1>10. w \in Nat /\ b \in Nat /\ drop \in Nat /\ B \in Nat /\ A \in Nat
  BY <1>2, <1>8, <1>9
<1>11. B - A = w - drop
  BY <1>6, <1>8, <1>9
<1>12. b - drop < bytes
  BY <1>5, <1>8, <1>10
<1> HIDE DEF w, b, drop, B, A
<1>13. bytes - B + A + w - b > 0
  BY <1>10, <1>11, <1>12
<1> QED BY <1>7, <1>13 DEF w, b, B, A

(* A buffer that is left alone has lost nothing. *)
LEMMA NothingGone ==
  ASSUME NEW kept \in Seq(Characters)
  PROVE  Gone(kept, kept) = <<>>
<1>1. Len(kept) - Len(kept) = 0
  OBVIOUS
<1> QED BY <1>1, SubSeqEmpty DEF Gone

(* What is kept takes up no bytes only when nothing is kept. *)
LEMMA NoBytes ==
  ASSUME NEW output, NEW serial, Sound(output, serial), Bytes(output.retained) = 0
  PROVE  output.retained = <<>>
<1> DEFINE kept == output.retained
<1>1. SUFFICES ASSUME kept # <<>> PROVE FALSE
  OBVIOUS
<1>2. kept \in Seq(Characters) /\ Len(kept) \in Nat
  BY DEF Sound, OutputBuffer
<1>3. 1 \in 1..Len(kept) /\ Len(kept) \in 1..Len(kept)
  BY <1>1, <1>2, EmptySeq
<1>4. kept[1] \in Characters /\ kept[Len(kept)] \in Characters
  BY <1>2, <1>3, ElementOfSeq
<1>5. /\ kept[1].begin < kept[1].end
      /\ 1 < Len(kept) => kept[1].end <= kept[Len(kept)].begin
      /\ kept[Len(kept)].begin < kept[Len(kept)].end
  BY <1>3 DEF Sound, Contiguous
<1>6. kept[Len(kept)].end - kept[1].begin = 0
  BY <1>1 DEF Bytes
<1>7. 1 < Len(kept) \/ Len(kept) = 1
  <2> DEFINE n == Len(kept)
  <2>1. n \in Nat /\ 1 \in 1..n
    BY <1>2, <1>3
  <2> HIDE DEF n
  <2>2. 1 < n \/ n = 1
    BY <2>1
  <2> QED BY <2>2 DEF n
<1>8. /\ kept[1].begin \in Nat /\ kept[1].end \in Nat
      /\ kept[Len(kept)].begin \in Nat /\ kept[Len(kept)].end \in Nat
  BY <1>4 DEF Characters
<1>9. kept[1].begin < kept[Len(kept)].end
  <2>1. CASE 1 < Len(kept)
    BY <1>5, <1>8, <2>1
  <2>2. CASE Len(kept) = 1
    BY <1>5, <2>2
  <2> QED BY <1>7, <2>1, <2>2
<1> HIDE DEF kept
<1> QED BY <1>6, <1>8, <1>9

(* What the cap does to the row at i.                                      *)
LEMMA CappedRow ==
  ASSUME NEW rows, RowsSound(rows), NEW span, NEW e, IsExcess(e, rows, span),
         NEW i \in 1..Len(rows)
  PROVE  LET row == CappedBy(e, rows)[i]
         IN  /\ row.command_id = rows[i].command_id
             /\ ~(e[i - 1] > 0) => row = rows[i]
             /\ e[i - 1] > 0 => row.output = Reclaimed(rows[i].output, e[i - 1])
<1> DEFINE row == CappedBy(e, rows)[i]
           less == Reclaimed(rows[i].output, e[i - 1])
<1>1. row = IF e[i - 1] > 0 THEN [rows[i] EXCEPT !.output = less] ELSE rows[i]
  BY DEF CappedBy
<1>2. rows[i] \in Rows
  BY ElementOfSeq DEF RowsSound
<1> HIDE DEF row, less
<1>3. /\ row.command_id = rows[i].command_id
      /\ e[i - 1] > 0 => row.output = less
  BY <1>1, <1>2 DEF Rows
<1> QED BY <1>1, <1>3 DEF row, less

(* A row that loses nothing leaves the excess as it was.                   *)
LEMMA ExcessStays ==
  ASSUME NEW rows, RowsSound(rows), NEW span, NEW e, IsExcess(e, rows, span),
         NEW i \in 1..Len(rows),
         Gone(rows[i].output.retained, CappedBy(e, rows)[i].output.retained) = <<>>
  PROVE  e[i] = e[i - 1]
<1> DEFINE kept == rows[i].output.retained
           less == CappedBy(e, rows)[i].output.retained
<1>1. i \in DOMAIN rows
  BY DEF RowsSound
<1>2. Sound(rows[i].output, rows[i].command_id)
  BY <1>1 DEF RowsSound
<1>3. less = kept
  <2>1. CASE ~(e[i - 1] > 0)
    BY <2>1, CappedRow
  <2>2. CASE e[i - 1] > 0
    <3> DEFINE d == DropCount(kept, e[i - 1])
    <3>1. CappedBy(e, rows)[i].output = Reclaimed(rows[i].output, e[i - 1])
      BY <2>2, CappedRow
    <3>2. /\ d \in 0..Len(kept)
          /\ Gone(kept, less) = SubSeq(kept, 1, d)
          /\ d = 0 => less = kept
      BY <1>2, <3>1, ReclaimedKeeps
    <3>3. kept \in Seq(Characters) /\ Len(kept) \in Nat
      BY <1>2 DEF Sound, OutputBuffer
    <3> HIDE DEF d, kept, less
    <3>4. SubSeq(kept, 1, d) = <<>>
      BY <3>2 DEF kept, less
    <3>5. \A k \in 1..d : kept[k] \in Characters
      BY <3>2, <3>3, ElementOfSeq
    <3>6. Len(SubSeq(kept, 1, d)) = IF 1 <= d THEN d - 1 + 1 ELSE 0
      BY <3>2, <3>3, <3>5, SubSeqProperties
    <3>7. d = 0
      BY <3>2, <3>3, <3>4, <3>6
    <3> QED BY <3>2, <3>7
  <2> QED BY <2>1, <2>2
<1> DEFINE B == Bytes(kept)
           A == Bytes(less)
<1>4. e[i - 1] \in Int /\ A \in Nat /\ e[i] = e[i - 1] - B + A
  BY ExcessStep
<1>5. A = B
  BY <1>3
<1> HIDE DEF A, B
<1> QED BY <1>4, <1>5

(* enforce_total_cap takes from a row only what the rows before it could   *)
(* not give, and not one character more; from the newest one it takes only *)
(* for the sake of a running command.                                      *)
LEMMA CappedOldest ==
  ASSUME NEW rows, RowsSound(rows), NEW span, MaybeSpan(span),
         NEW j \in 1..Len(rows)
  PROVE  LET after == Capped(rows, span)
             gone(k) == Gone(rows[k].output.retained, after[k].output.retained)
         IN  /\ after[j].command_id = rows[j].command_id
             /\ span = NoCommand /\ j = Len(rows) => after[j] = rows[j]
             /\ gone(j) # <<>> =>
                  /\ \A k \in 1..(j - 1) : after[k].output.retained = <<>>
                  /\ (\A k \in (j + 1)..Len(rows) : gone(k) = <<>>) =>
                       RetainedBytes(after, span)
                         + gone(j)[Len(gone(j))].end - gone(j)[Len(gone(j))].begin
                         > MaxTotalOutputBytes
<1> DEFINE n == Len(rows)
           after == Capped(rows, span)
           gone(k) == Gone(rows[k].output.retained, after[k].output.retained)
           M == MaxTotalOutputBytes
<1>1. n \in Nat /\ RowsSound(after) /\ Len(after) = n
  BY CappedRows DEF RowsSound
<1>2. PICK e : IsExcess(e, rows, span) /\ after = CappedBy(e, rows)
  BY CappedIsLoop
<1>3. \A i \in 0..n : e[i] \in Int
  BY <1>2 DEF IsExcess
<1>4. /\ e[n] = RetainedBytes(after, span) - M
      /\ span = NoCommand /\ rows # <<>> => ~(e[n - 1] > 0)
  BY <1>2, CapReached
<1>5. j \in 1..n /\ j - 1 \in 0..n /\ j \in DOMAIN rows
  BY <1>1 DEF RowsSound
<1>6. /\ after[j].command_id = rows[j].command_id
      /\ ~(e[j - 1] > 0) => after[j] = rows[j]
      /\ e[j - 1] > 0 => after[j].output = Reclaimed(rows[j].output, e[j - 1])
  <2> HIDE DEF after
  <2> QED BY <1>2, CappedRow
<1>7. ASSUME span = NoCommand, j = n PROVE after[j] = rows[j]
  <2>1. rows # <<>>
    BY <1>5
  <2> QED BY <1>4, <1>6, <1>7, <2>1
<1>8. Sound(rows[j].output, rows[j].command_id)
  BY <1>5 DEF RowsSound
<1> HIDE DEF after, n
<1>9. ASSUME gone(j) # <<>> PROVE e[j - 1] > 0
  <2>1. SUFFICES ASSUME ~(e[j - 1] > 0) PROVE FALSE
    OBVIOUS
  <2>2. rows[j].output.retained \in Seq(Characters)
    BY <1>8 DEF Sound, OutputBuffer
  <2> QED BY <1>6, <1>9, <2>1, <2>2, NothingGone
<1>10. ASSUME gone(j) # <<>>, NEW k \in 1..(j - 1)
       PROVE  after[k].output.retained = <<>>
  <2>1. Bytes(after[k].output.retained) = 0
    BY <1>2, <1>5, <1>9, <1>10, NothingKept DEF n
  <2>2. k \in DOMAIN after
    BY <1>1, <1>5 DEF RowsSound
  <2>3. Sound(after[k].output, after[k].command_id)
    BY <1>1, <2>2 DEF RowsSound
  <2> QED BY <2>1, <2>3, NoBytes
<1>11. ASSUME gone(j) # <<>>, \A k \in (j + 1)..n : gone(k) = <<>>
       PROVE  RetainedBytes(after, span)
                + gone(j)[Len(gone(j))].end - gone(j)[Len(gone(j))].begin > M
  <2>1. e[n] = e[j]
    <3> DEFINE S == {i \in 0..n : j <= i => e[i] = e[j]}
    <3>1. 0 \in S
      BY <1>1, <1>5
    <3>2. ASSUME NEW i \in 1..n, i - 1 \in S PROVE i \in S
      <4>1. i \in 0..n
        BY <1>1
      <4>2. CASE i < j
        BY <1>1, <1>5, <4>1, <4>2
      <4>3. CASE i = j
        BY <4>1, <4>3
      <4>4. CASE i > j
        <5>1. i \in (j + 1)..n /\ j <= i - 1
          BY <1>1, <1>5, <4>4
        <5>2. gone(i) = <<>>
          BY <1>11, <5>1
        <5>3. e[i] = e[i - 1]
          BY <1>2, <5>2, ExcessStays DEF n
        <5> QED BY <3>2, <4>1, <5>1, <5>3
      <4> QED BY <1>1, <1>5, <4>2, <4>3, <4>4
    <3>3. 0..n \subseteq S
      <4> HIDE DEF S
      <4> QED BY <1>1, <3>1, <3>2, Counting
    <3>4. n \in 0..n /\ j <= n
      BY <1>1, <1>5
    <3> QED BY <3>3, <3>4
  <2>2. e[j - 1] > 0 /\ e[j - 1] \in Int
    BY <1>3, <1>5, <1>9, <1>11
  <2>3. after[j].output = Reclaimed(rows[j].output, e[j - 1])
    BY <1>6, <2>2
  <2> DEFINE B == Bytes(rows[j].output.retained)
             A == Bytes(after[j].output.retained)
             w == gone(j)[Len(gone(j))].end
             b == gone(j)[Len(gone(j))].begin
  <2>4. e[j - 1] - B + A + w - b > 0
    <3> HIDE DEF A, B, w, b
    <3>1. e[j - 1] - Bytes(rows[j].output.retained)
            + Bytes(Reclaimed(rows[j].output, e[j - 1]).retained) + w - b > 0
      BY <1>8, <1>11, <2>2, <2>3, ReclaimedLeast DEF w, b
    <3> QED BY <2>3, <3>1 DEF A, B
  <2>5. e[j] = e[j - 1] - B + A
    BY <1>2, <1>5, ExcessStep DEF n
  <2>6. w \in Nat /\ b \in Nat
    <3> DEFINE kept == rows[j].output.retained
               d == Len(kept) - Len(after[j].output.retained)
    <3>1. kept \in Seq(Characters) /\ Len(kept) \in Nat
      BY <1>8 DEF Sound, OutputBuffer
    <3>2. DropCount(kept, e[j - 1]) \in 0..Len(kept)
          /\ gone(j) = SubSeq(kept, 1, DropCount(kept, e[j - 1]))
      BY <1>8, <2>3, ReclaimedKeeps
    <3> HIDE DEF kept
    <3>3. \A i \in 1..DropCount(kept, e[j - 1]) : kept[i] \in Characters
      BY <3>1, <3>2, ElementOfSeq
    <3>4. gone(j) \in Seq(Characters)
      <4> HIDE DEF gone
      <4> QED BY <3>1, <3>2, <3>3, SubSeqProperties
    <3> HIDE DEF gone
    <3>5. Len(gone(j)) \in 1..Len(gone(j))
      BY <1>11, <3>4, EmptySeq
    <3>6. gone(j)[Len(gone(j))] \in Characters
      BY <3>4, <3>5, ElementOfSeq
    <3> QED BY <3>6 DEF Characters
  <2> HIDE DEF A, B, w, b
  <2>7. RetainedBytes(after, span) \in Int /\ M \in Nat
    BY <1>1, RetainedIsInt, CapsAssumption
  <2>8. RetainedBytes(after, span) + w - b > M
    <3>1. e[n] + w - b > 0
      BY <2>1, <2>4, <2>5
    <3> HIDE DEF M
    <3> QED BY <1>4, <2>6, <2>7, <3>1
  <2> QED BY <2>8 DEF w, b
<1> QED BY <1>6, <1>7, <1>10, <1>11 DEF after, n

-----------------------------------------------------------------------------
(* The session's cap.                                                      *)

(* The sum grows and shrinks with what the running command keeps. *)
LEMMA RetainedWithSpan ==
  ASSUME NEW rows, RowsSound(rows), NEW a, MaybeSpan(a), NEW b, MaybeSpan(b),
         SpanBytes(a) <= SpanBytes(b)
  PROVE  RetainedBytes(rows, a) <= RetainedBytes(rows, b)
<1>1. PICK s : /\ IsSum(s, rows)
               /\ RetainedBytes(rows, a) = SpanBytes(a) + s[Len(rows)]
  BY RetainedIsSum
<1>2. PICK t : /\ IsSum(t, rows)
               /\ RetainedBytes(rows, b) = SpanBytes(b) + t[Len(rows)]
  BY RetainedIsSum
<1>3. s[Len(rows)] = t[Len(rows)]
  BY <1>1, <1>2, SumUnique
<1>4. Len(rows) \in Nat
  BY DEF RowsSound
<1>5. s[Len(rows)] \in Int
  BY <1>1, <1>4 DEF IsSum
<1>6. SpanBytes(a) \in Int /\ SpanBytes(b) \in Int
  <2>1. /\ SpanBytes(a) \in 0..MaxCommandOutputBytes
        /\ SpanBytes(b) \in 0..MaxCommandOutputBytes
        /\ MaxCommandOutputBytes \in Nat
    BY SpanWithin, CapsAssumption
  <2> QED BY <2>1
<1> QED BY <1>1, <1>2, <1>3, <1>5, <1>6

(* Without rows it is what the running command keeps. *)
LEMMA RetainedNoRows ==
  ASSUME NEW span, MaybeSpan(span)
  PROVE  RetainedBytes(<<>>, span) <= MaxTotalOutputBytes
<1>1. RowsSound(<<>>) /\ Len(<<>>) = 0
  BY DEF RowsSound
<1>2. PICK s : IsSum(s, <<>>) /\ RetainedBytes(<<>>, span) = SpanBytes(span) + s[0]
  <2>1. \E s : /\ IsSum(s, <<>>)
               /\ RetainedBytes(<<>>, span) = SpanBytes(span) + s[Len(<<>>)]
    BY <1>1, RetainedIsSum
  <2> QED BY <1>1, <2>1
<1>3. s[0] = 0
  BY <1>2 DEF IsSum
<1>4. /\ SpanBytes(span) \in 0..MaxCommandOutputBytes
      /\ MaxCommandOutputBytes \in Nat /\ MaxTotalOutputBytes \in Nat
      /\ MaxCommandOutputBytes <= MaxTotalOutputBytes
  BY SpanWithin, CapsAssumption
<1> QED BY <1>2, <1>3, <1>4

(* No step takes the store over the session's cap.                         *)
LEMMA CapsPreserved == IInv /\ CapsHold /\ [Next]_vars => CapsHold'
<1> SUFFICES ASSUME IInv, CapsHold, [Next]_vars PROVE CapsHold'
  OBVIOUS
<1>1. IInv'
  BY NextPreserves
<1>2. /\ RowsSound(completed) /\ MaybeSpan(active)
      /\ RowsSound(completed') /\ MaybeSpan(active')
  BY <1>1 DEF IInv, MaybeSpan
<1>3. WithinCommandCap'
  BY <1>1 DEF IInv, WithinCommandCap, RowsSound, SpanSound
<1>4. MaybeSpan(NoCommand) /\ SpanBytes(NoCommand) = 0
  BY DEF MaybeSpan, SpanBytes
<1>5. /\ SpanBytes(active) \in 0..MaxCommandOutputBytes
      /\ MaxCommandOutputBytes \in Nat /\ MaxTotalOutputBytes \in Nat
  BY <1>2, SpanWithin, CapsAssumption
<1>6. ASSUME completed' = completed, SpanBytes(active') = 0
      PROVE  CapsHold'
  <2>1. RetainedBytes(completed, active') <= RetainedBytes(completed, active)
    BY <1>2, <1>5, <1>6, RetainedWithSpan
  <2>2. /\ RetainedBytes(completed, active') \in Int
        /\ RetainedBytes(completed, active) \in Int
    BY <1>2, RetainedIsInt
  <2>3. RetainedBytes(completed, active) <= MaxTotalOutputBytes
    BY DEF CapsHold
  <2>4. RetainedBytes(completed, active') <= MaxTotalOutputBytes
    BY <1>5, <2>1, <2>2, <2>3
  <2> QED BY <1>3, <1>6, <2>4 DEF CapsHold
<1>7. ASSUME NEW rows, RowsSound(rows), completed' = Capped(rows, active')
      PROVE  CapsHold'
  <2>1. PICK e : /\ IsExcess(e, rows, active')
                 /\ Capped(rows, active') = CappedBy(e, rows)
    BY <1>2, <1>7, CappedIsLoop
  <2>2. RetainedBytes(completed', active') <= MaxTotalOutputBytes
    BY <1>2, <1>7, <2>1, CapReached
  <2> QED BY <1>3, <2>2 DEF CapsHold
<1>8. CASE Begin
  <2>1. completed' = completed /\ active'.output = EmptyBuffer
    BY <1>8 DEF Begin
  <2>2. SpanBytes(active') = 0
    BY <2>1, EmptySound DEF SpanBytes
  <2> QED BY <1>6, <2>1, <2>2
<1>9. ASSUME NEW text \in Chunks \cup {<<>>}, NEW partial \in BOOLEAN,
             RecordOutput(text, partial)
      PROVE  CapsHold'
  BY <1>2, <1>7, <1>9 DEF RecordOutput
<1>10. CASE End
  <2>1. /\ active # NoCommand /\ active' = NoCommand
        /\ completed' = Capped(Left(completed, Finished(active)), NoCommand)
    BY <1>10 DEF End, Left
  <2>2. SpanSound(active)
    BY <1>2, <2>1 DEF MaybeSpan
  <2>3. RowsSound(Left(completed, Finished(active)))
    BY <1>2, <2>2, FinishedSound, LeftRows
  <2> QED BY <1>7, <2>1, <2>3
<1>11. CASE ClearCompleted
  <2>1. completed' = <<>> /\ active' = active
    BY <1>11 DEF ClearCompleted
  <2>2. RetainedBytes(completed', active') <= MaxTotalOutputBytes
    BY <1>2, <2>1, RetainedNoRows
  <2> QED BY <1>3, <2>2 DEF CapsHold
<1>12. CASE AbandonActive
  BY <1>4, <1>6, <1>12 DEF AbandonActive
<1>13. ASSUME NEW command_id \in 1..MaxCommands,
              NEW offset \in 0..(MaxBytes + 1) \cup {NoOffset},
              NEW limit \in Limits, Read(command_id, offset, limit)
       PROVE  CapsHold'
  BY <1>3, <1>13 DEF Read, CapsHold
<1>14. CASE UNCHANGED vars
  BY <1>3, <1>14 DEF vars, CapsHold
<1> QED BY <1>8, <1>9, <1>10, <1>11, <1>12, <1>13, <1>14 DEF Next

(* The store is always well typed and within its bounds: no command keeps  *)
(* more than its cap, and all of them together no more than the session's, *)
(* whatever enforce_total_cap had to release and from how many rows.       *)
THEOREM StoreAlwaysSound == Spec => []StoreSound
<1>1. Init => CapsHold
  <2> SUFFICES ASSUME Init PROVE CapsHold
    OBVIOUS
  <2>1. completed = <<>> /\ active = NoCommand
    BY DEF Init
  <2>2. RetainedBytes(completed, active) <= MaxTotalOutputBytes
    BY <2>1, RetainedNoRows DEF MaybeSpan
  <2> QED BY <2>1, <2>2 DEF CapsHold, WithinCommandCap
<1>2. IInv => TypeOK
  BY DEF IInv, TypeOK, RowsSound, SpanSound
<1>3. IInv /\ CapsHold => StoreSound
  BY <1>2 DEF StoreSound
<1> QED BY <1>1, <1>3, InitInvariant, NextPreserves, CapsPreserved, PTL DEF Spec

-----------------------------------------------------------------------------
(* Which row is which: rows stand in the order of their numbers, below the *)
(* one being captured, below the next.                                     *)
Rising(rows) ==
  \A i, j \in 1..Len(rows) : i < j => rows[i].command_id < rows[j].command_id

Below(rows, id) == \A i \in 1..Len(rows) : rows[i].command_id < id

IdsRise ==
  /\ Rising(completed)
  /\ Below(completed, next_id)
  /\ active # NoCommand =>
       active.command_id < next_id /\ Below(completed, active.command_id)

(* Enforcing the cap renumbers nothing. *)
LEMMA CappedIds ==
  ASSUME NEW rows, RowsSound(rows), NEW span, MaybeSpan(span)
  PROVE  /\ Len(Capped(rows, span)) = Len(rows)
         /\ \A i \in 1..Len(rows) :
              Capped(rows, span)[i].command_id = rows[i].command_id
BY CappedRows, CappedOldest

(* Numbers of rows are numbers. *)
LEMMA RowIds ==
  ASSUME NEW rows, RowsSound(rows), NEW i \in 1..Len(rows)
  PROVE  rows[i].command_id \in Nat
<1>1. rows[i] \in Rows
  BY ElementOfSeq DEF RowsSound
<1> QED BY <1>1 DEF Rows

(* Every step keeps that order.                                            *)
LEMMA IdsPreserved == IInv /\ IdsRise /\ [Next]_vars => IdsRise'
<1> SUFFICES ASSUME IInv, IdsRise, [Next]_vars PROVE IdsRise'
  OBVIOUS
<1>1. IInv'
  BY NextPreserves
<1>2. /\ RowsSound(completed) /\ MaybeSpan(active)
      /\ RowsSound(completed') /\ MaybeSpan(active')
      /\ next_id \in Nat /\ Len(completed) \in Nat
  BY <1>1 DEF IInv, MaybeSpan, RowsSound
<1>3. /\ Rising(completed) /\ Below(completed, next_id)
      /\ active # NoCommand =>
           active.command_id < next_id /\ Below(completed, active.command_id)
  BY DEF IdsRise
<1>4. CASE Begin
  <2>1. /\ completed' = completed /\ next_id' = next_id + 1
        /\ active'.command_id = next_id
    BY <1>4 DEF Begin
  <2>2. ASSUME NEW i \in 1..Len(completed)
        PROVE  completed[i].command_id < next_id + 1
    <3>1. completed[i].command_id \in Nat /\ completed[i].command_id < next_id
      BY <1>2, <1>3, RowIds DEF Below
    <3> QED BY <1>2, <3>1
  <2>3. next_id < next_id + 1
    BY <1>2
  <2> QED BY <1>3, <2>1, <2>2, <2>3 DEF IdsRise, Below
<1>5. ASSUME NEW text \in Chunks \cup {<<>>}, NEW partial \in BOOLEAN,
             RecordOutput(text, partial)
      PROVE  IdsRise'
  <2>1. /\ active # NoCommand /\ next_id' = next_id
        /\ completed' = Capped(completed, active')
    BY <1>5 DEF RecordOutput
  <2>2. active'.command_id = active.command_id
    <3>1. active \in Spans
      BY <1>2, <2>1 DEF MaybeSpan, SpanSound
    <3> DEFINE new == Appended(active.output, text, active.serial)
    <3>2. active' = [active EXCEPT !.output = new, !.partial = partial]
      BY <1>5 DEF RecordOutput
    <3> HIDE DEF new
    <3> QED BY <3>1, <3>2 DEF Spans
  <2>3. /\ Len(completed') = Len(completed)
        /\ \A i \in 1..Len(completed) :
             completed'[i].command_id = completed[i].command_id
    BY <1>2, <2>1, CappedIds
  <2> QED BY <1>3, <2>1, <2>2, <2>3 DEF IdsRise, Rising, Below
<1>6. CASE End
  <2> DEFINE row == Finished(active)
             left == Left(completed, row)
  <2>1. /\ active # NoCommand /\ active' = NoCommand /\ next_id' = next_id
        /\ completed' = Capped(left, NoCommand)
    BY <1>6 DEF End, Left
  <2>2. SpanSound(active)
    BY <1>2, <2>1 DEF MaybeSpan
  <2>3. /\ row \in Rows /\ row.command_id = active.command_id
        /\ Sound(row.output, row.command_id)
        /\ Bytes(row.output.retained) <= MaxCommandOutputBytes
    BY <2>2, FinishedSound
  <2> HIDE DEF row
  <2>4. PICK surplus \in 0..(Len(completed) + 1) :
          \A j \in 1..Len(left) :
            \/ surplus + j \in 1..Len(completed) /\ left[j] = completed[surplus + j]
            \/ j = Len(left) /\ left[j] = row
    BY <1>2, <2>3, LeftRows
  <2>5. RowsSound(left) /\ Len(left) \in Nat
    BY <1>2, <2>3, LeftRows DEF RowsSound
  <2> HIDE DEF left
  <2>6. /\ Len(completed') = Len(left)
        /\ \A i \in 1..Len(left) : completed'[i].command_id = left[i].command_id
    BY <2>1, <2>5, CappedIds DEF MaybeSpan
  <2>7. ASSUME NEW i \in 1..Len(left), NEW j \in 1..Len(left), i < j
        PROVE  left[i].command_id < left[j].command_id
    <3>1. surplus + i \in 1..Len(completed) /\ left[i] = completed[surplus + i]
      BY <2>4, <2>5, <2>7
    <3>2. CASE surplus + j \in 1..Len(completed) /\ left[j] = completed[surplus + j]
      <4>1. surplus + i < surplus + j
        BY <1>2, <2>5, <2>7
      <4> QED BY <1>3, <3>1, <3>2, <4>1 DEF Rising
    <3>3. CASE left[j] = row
      BY <1>3, <2>1, <2>3, <3>1, <3>3 DEF Below
    <3> QED BY <2>4, <3>2, <3>3
  <2>8. ASSUME NEW i \in 1..Len(left) PROVE left[i].command_id < next_id
    BY <1>3, <2>1, <2>3, <2>4 DEF Below
  <2> QED BY <2>1, <2>6, <2>7, <2>8 DEF IdsRise, Rising, Below
<1>7. CASE ClearCompleted
  <2>1. completed' = <<>> /\ active' = active /\ next_id' = next_id
    BY <1>7 DEF ClearCompleted
  <2>2. \A i \in 1..Len(completed') : FALSE
    BY <2>1
  <2> QED BY <1>3, <2>1, <2>2 DEF IdsRise, Rising, Below
<1>8. CASE AbandonActive
  BY <1>3, <1>8 DEF AbandonActive, IdsRise
<1>9. ASSUME NEW command_id \in 1..MaxCommands,
             NEW offset \in 0..(MaxBytes + 1) \cup {NoOffset},
             NEW limit \in Limits, Read(command_id, offset, limit)
      PROVE  IdsRise'
  BY <1>3, <1>9 DEF Read, IdsRise
<1>10. CASE UNCHANGED vars
  BY <1>3, <1>10 DEF vars, IdsRise
<1> QED BY <1>4, <1>5, <1>6, <1>7, <1>8, <1>9, <1>10 DEF Next

-----------------------------------------------------------------------------
(* The newest evidence survives.                                           *)

(* What a row has lost, found by its number. *)
LEMMA LostOf ==
  ASSUME NEW rows, RowsSound(rows), Rising(rows), NEW i \in 1..Len(rows),
         NEW row, row.command_id = rows[i].command_id
  PROVE  Lost(rows, row) = Gone(rows[i].output.retained, row.output.retained)
<1> DEFINE same == {k \in DOMAIN rows : rows[k].command_id = row.command_id}
<1>1. DOMAIN rows = 1..Len(rows) /\ Len(rows) \in Nat
  BY DEF RowsSound
<1>2. \A k \in 1..Len(rows) : rows[k].command_id \in Nat
  BY RowIds
<1>3. same = {i}
  <2>1. ASSUME NEW k \in 1..Len(rows), rows[k].command_id = row.command_id, k # i
        PROVE  FALSE
    <3>1. k < i \/ i < k
      BY <1>1, <2>1
    <3>2. rows[k].command_id < rows[i].command_id
          \/ rows[i].command_id < rows[k].command_id
      BY <3>1 DEF Rising
    <3> QED BY <1>2, <2>1, <3>2
  <2> QED BY <1>1, <2>1
<1>4. Min({i}) = i
  <2>1. i \in {i} /\ \A y \in {i} : i <= y
    BY <1>1
  <2>2. Min({i}) \in {i}
    BY <2>1 DEF Min
  <2> QED BY <2>2
<1> QED BY <1>3, <1>4 DEF Lost, Gone

(* A row that was not there has lost nothing. *)
LEMMA LostNew ==
  ASSUME NEW rows, RowsSound(rows), NEW row, Below(rows, row.command_id)
  PROVE  Lost(rows, row) = <<>>
<1> DEFINE same == {k \in DOMAIN rows : rows[k].command_id = row.command_id}
<1>1. same = {}
  <2>1. ASSUME NEW k \in 1..Len(rows), rows[k].command_id = row.command_id
        PROVE  FALSE
    <3>1. rows[k].command_id \in Nat /\ rows[k].command_id < rows[k].command_id
      BY <2>1, RowIds DEF Below
    <3> QED BY <3>1
  <2>2. DOMAIN rows = 1..Len(rows)
    BY DEF RowsSound
  <2> QED BY <2>1, <2>2
<1> QED BY <1>1 DEF Lost

(* A command loses output only when no older one has any left, and not one *)
(* character more than the cap makes them lose together.                   *)
OldestLose(before, rows, span) ==
  \A j \in DOMAIN rows :
    LET lost == Lost(before, rows[j])
        newest == \A k \in (j + 1)..Len(rows) : Lost(before, rows[k]) = <<>>
    IN  lost # <<>> =>
          /\ \A k \in 1..(j - 1) : rows[k].output.retained = <<>>
          /\ newest =>
               RetainedBytes(rows, span)
                 + lost[Len(lost)].end - lost[Len(lost)].begin
                 > MaxTotalOutputBytes

(* So it is when the cap is enforced on rows that had lost nothing yet. *)
LEMMA CappedOldestLose ==
  ASSUME NEW before, NEW rows, RowsSound(rows), NEW span, MaybeSpan(span),
         \A k \in 1..Len(rows) :
           Lost(before, Capped(rows, span)[k])
             = Gone(rows[k].output.retained, Capped(rows, span)[k].output.retained)
  PROVE  OldestLose(before, Capped(rows, span), span)
<1> DEFINE after == Capped(rows, span)
           gone(k) == Gone(rows[k].output.retained, after[k].output.retained)
<1>1. Len(after) = Len(rows) /\ DOMAIN after = 1..Len(rows) /\ Len(rows) \in Nat
  BY CappedRows DEF RowsSound
<1>2. \A k \in 1..Len(rows) : Lost(before, after[k]) = gone(k)
  OBVIOUS
<1>3. ASSUME NEW j \in 1..Len(rows), gone(j) # <<>>
      PROVE  /\ \A k \in 1..(j - 1) : after[k].output.retained = <<>>
             /\ (\A k \in (j + 1)..Len(rows) : gone(k) = <<>>) =>
                  RetainedBytes(after, span)
                    + gone(j)[Len(gone(j))].end - gone(j)[Len(gone(j))].begin
                    > MaxTotalOutputBytes
  BY <1>3, CappedOldest
<1> HIDE DEF after, gone
<1>4. \A j \in 1..Len(rows) : \A k \in (j + 1)..Len(rows) : k \in 1..Len(rows)
  BY <1>1
<1>5. OldestLose(before, after, span)
  BY <1>1, <1>2, <1>3, <1>4 DEF OldestLose
<1> QED BY <1>5 DEF after

(* Rows that stay as they are have lost nothing. *)
LEMMA SameOldestLose ==
  ASSUME NEW rows, RowsSound(rows), Rising(rows), NEW span
  PROVE  OldestLose(rows, rows, span)
<1>1. DOMAIN rows = 1..Len(rows)
  BY DEF RowsSound
<1>2. ASSUME NEW j \in 1..Len(rows) PROVE Lost(rows, rows[j]) = <<>>
  <2>1. Lost(rows, rows[j]) = Gone(rows[j].output.retained, rows[j].output.retained)
    BY LostOf
  <2>2. Sound(rows[j].output, rows[j].command_id)
    BY <1>1 DEF RowsSound
  <2>3. rows[j].output.retained \in Seq(Characters)
    BY <2>2 DEF Sound, OutputBuffer
  <2> QED BY <2>1, <2>3, NothingGone
<1> QED BY <1>1, <1>2 DEF OldestLose

(* It is so in every step.                                                 *)
LEMMA OldestStep ==
  IInv /\ IdsRise /\ [Next]_vars => OldestLose(completed, completed', active')
<1> SUFFICES ASSUME IInv, IdsRise, [Next]_vars
             PROVE  OldestLose(completed, completed', active')
  OBVIOUS
<1>1. IInv'
  BY NextPreserves
<1>2. /\ RowsSound(completed) /\ MaybeSpan(active) /\ MaybeSpan(active')
      /\ Len(completed) \in Nat
  BY <1>1 DEF IInv, MaybeSpan, RowsSound
<1>3. /\ Rising(completed)
      /\ active # NoCommand => Below(completed, active.command_id)
  BY DEF IdsRise
<1>4. CASE completed' = completed
  BY <1>2, <1>3, <1>4, SameOldestLose
<1>5. CASE Begin \/ AbandonActive \/ UNCHANGED vars
  BY <1>4, <1>5 DEF Begin, AbandonActive, vars
<1>6. ASSUME NEW command_id \in 1..MaxCommands,
             NEW offset \in 0..(MaxBytes + 1) \cup {NoOffset},
             NEW limit \in Limits, Read(command_id, offset, limit)
      PROVE  OldestLose(completed, completed', active')
  BY <1>4, <1>6 DEF Read
<1>7. CASE ClearCompleted
  <2>1. DOMAIN completed' = {}
    BY <1>7 DEF ClearCompleted
  <2> QED BY <2>1 DEF OldestLose
<1>8. ASSUME NEW text \in Chunks \cup {<<>>}, NEW partial \in BOOLEAN,
             RecordOutput(text, partial)
      PROVE  OldestLose(completed, completed', active')
  <2>1. completed' = Capped(completed, active')
    BY <1>8 DEF RecordOutput
  <2>2. ASSUME NEW k \in 1..Len(completed)
        PROVE  Lost(completed, completed'[k])
                 = Gone(completed[k].output.retained, completed'[k].output.retained)
    <3>1. completed'[k].command_id = completed[k].command_id
      BY <1>2, <2>1, CappedIds
    <3> QED BY <1>2, <1>3, <3>1, LostOf
  <2> QED BY <1>2, <2>1, <2>2, CappedOldestLose
<1>9. CASE End
  <2> DEFINE row == Finished(active)
             left == Left(completed, row)
  <2>1. /\ active # NoCommand /\ active' = NoCommand
        /\ completed' = Capped(left, active')
    BY <1>9 DEF End, Left
  <2>2. SpanSound(active)
    BY <1>2, <2>1 DEF MaybeSpan
  <2>3. /\ row \in Rows /\ row.command_id = active.command_id
        /\ Sound(row.output, row.command_id)
        /\ Bytes(row.output.retained) <= MaxCommandOutputBytes
    BY <2>2, FinishedSound
  <2> HIDE DEF row
  <2>4. PICK surplus \in 0..(Len(completed) + 1) :
          \A j \in 1..Len(left) :
            \/ surplus + j \in 1..Len(completed) /\ left[j] = completed[surplus + j]
            \/ j = Len(left) /\ left[j] = row
    BY <1>2, <2>3, LeftRows
  <2>5. RowsSound(left)
    BY <1>2, <2>3, LeftRows
  <2> HIDE DEF left
  <2>6. ASSUME NEW k \in 1..Len(left)
        PROVE  Lost(completed, completed'[k])
                 = Gone(left[k].output.retained, completed'[k].output.retained)
    <3>1. completed'[k].command_id = left[k].command_id
      BY <1>2, <2>1, <2>5, CappedIds
    <3>2. CASE surplus + k \in 1..Len(completed) /\ left[k] = completed[surplus + k]
      BY <1>2, <1>3, <3>1, <3>2, LostOf
    <3>3. CASE k = Len(left) /\ left[k] = row
      <4>1. completed'[k] = row
        BY <1>2, <2>1, <2>5, <3>3, CappedOldest
      <4>2. Lost(completed, row) = <<>>
        BY <1>2, <1>3, <2>1, <2>3, LostNew
      <4>3. row.output.retained \in Seq(Characters)
        BY <2>3 DEF Sound, OutputBuffer
      <4>4. Gone(row.output.retained, row.output.retained) = <<>>
        BY <4>3, NothingGone
      <4> QED BY <3>3, <4>1, <4>2, <4>4
    <3> QED BY <2>4, <3>2, <3>3
  <2> QED BY <1>2, <2>1, <2>5, <2>6, CappedOldestLose
<1> QED BY <1>5, <1>6, <1>7, <1>8, <1>9 DEF Next

(* For any caps, texts and number of commands: a completed command loses   *)
(* output only when no older one has any left, and not one character more  *)
(* than the session's cap makes the rows lose together; in particular the  *)
(* newest row loses nothing to the cap when no command is running.         *)
THEOREM OldestAlwaysFirst == Spec => OldestFirst
<1>1. Init => IdsRise
  <2> SUFFICES ASSUME Init PROVE IdsRise
    OBVIOUS
  <2>1. completed = <<>> /\ active = NoCommand
    BY DEF Init
  <2>2. \A i \in 1..Len(completed) : FALSE
    BY <2>1
  <2> QED BY <2>1, <2>2 DEF IdsRise, Rising, Below
<1>2. IInv /\ IdsRise /\ [Next]_vars =>
        [\A j \in DOMAIN completed' :
           LET lost == Lost(completed, completed'[j])
               newest == \A k \in (j + 1)..Len(completed') :
                           Lost(completed, completed'[k]) = <<>>
           IN  lost # <<>> =>
                 /\ \A k \in 1..(j - 1) : completed'[k].output.retained = <<>>
                 /\ newest =>
                      RetainedBytes(completed', active')
                        + lost[Len(lost)].end - lost[Len(lost)].begin
                        > MaxTotalOutputBytes]_vars
  BY OldestStep DEF OldestLose
<1> QED
  BY <1>1, <1>2, InitInvariant, NextPreserves, IdsPreserved, PTL DEF Spec, OldestFirst
===============================================================================
