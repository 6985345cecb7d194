--------------------------- MODULE CommandHistory ---------------------------
(***************************************************************************)
(* The terminal's bounded store of completed commands and their output,    *)
(* behind the agent's tools list_recent_commands and read_command_output   *)
(* (crates/koshell-rs/src/command_history.rs and command_tools.rs, driven  *)
(* by the markers in trigger.rs).                                          *)
(*                                                                         *)
(* Bounds are counted in bytes, pages in characters.  A character is       *)
(* reduced to where it stands: its command, its place in that command's    *)
(* output, and the bytes it occupies there; so what a page holds can be    *)
(* compared with what the command wrote, however much was dropped from     *)
(* the front meanwhile.  Command text, directory, times, exit codes and    *)
(* warnings are left out.                                                  *)
(***************************************************************************)
EXTENDS Integers, Sequences, FiniteSetsExt

CONSTANTS
  MaxCompletedCommands,    \* MAX_COMPLETED_COMMANDS
  MaxCommandOutputBytes,   \* MAX_COMMAND_OUTPUT_BYTES
  MaxTotalOutputBytes,     \* MAX_TOTAL_OUTPUT_BYTES
  MaxReadLimit,            \* MAX_READ_LIMIT
  Limits,                  \* page sizes the agent asks for
  Chunks,                  \* texts the PTY delivers (see TextsAssumption)
  ReplacementBytes,        \* length of U+FFFD in UTF-8
  NoCommand,               \* None in CommandHistory.active
  NoOffset,                \* a read without an offset
  MaxCommands,             \* bound: commands of a session
  MaxBytes                 \* bound: bytes one command writes

\* A text is the sequence of the byte positions at which its characters end.
ASSUME TextsAssumption ==
  /\ Chunks \subseteq Seq(Nat)
  /\ \A text \in Chunks :
       /\ \A i \in DOMAIN text : text[i] > 0
       /\ \A i, j \in DOMAIN text : i < j => text[i] < text[j]
  /\ ReplacementBytes \in Nat \ {0}

ASSUME CapsAssumption ==
  /\ MaxCompletedCommands \in Nat
  /\ MaxCommandOutputBytes \in Nat
  /\ MaxTotalOutputBytes \in Nat
  /\ MaxCommandOutputBytes <= MaxTotalOutputBytes
  /\ MaxReadLimit \in Nat \ {0}
  /\ Limits \subseteq Nat \ {0}
  /\ MaxCommands \in Nat /\ MaxBytes \in Nat
  /\ NoOffset \notin Nat

VARIABLES
  completed,  \* rows, oldest first
  active,     \* the span being captured
  next_id,
  exited,     \* the shell is gone and the session loop has ended
  begun,      \* history: number of spans opened
  answer      \* what the last step answered to the agent, if it was a read

vars == <<completed, active, next_id, exited, begun, answer>>

Characters == [of : Nat, at : Nat, begin : Nat, end : Nat]

OutputBuffer ==
  [retained : Seq(Characters), total_bytes : Nat, total_characters : Nat,
   retained_start_offset : Nat, dropped_prefix_bytes : Nat,
   source_truncated : BOOLEAN]

Rows == [command_id : Nat, output : OutputBuffer]
Spans == [command_id : Nat, serial : Nat, output : OutputBuffer, partial : BOOLEAN]

NoAnswer == [kind |-> "none"]
NotFound == [kind |-> "command_not_found"]
Evicted(earliest) == [kind |-> "output_evicted", earliest_offset |-> earliest]

Answers ==
  [kind : {"none", "command_not_found"}]
    \cup [kind : {"output_evicted"}, earliest_offset : Nat]
    \cup [kind : {"page"}, command_id : Nat, offset : Nat, next_offset : Nat,
          has_more : BOOLEAN, content : Seq(Characters)]

TypeOK ==
  /\ completed \in Seq(Rows)
  /\ Len(completed) <= MaxCompletedCommands
  /\ active \in Spans \cup {NoCommand}
  /\ next_id \in Nat
  /\ exited \in BOOLEAN
  /\ begun \in Nat
  /\ answer \in Answers

Init ==
  /\ completed = <<>>
  /\ active = NoCommand
  /\ next_id = 1
  /\ exited = FALSE
  /\ begun = 0
  /\ answer = NoAnswer

-----------------------------------------------------------------------------
(* The output buffer of one command.                                       *)

EmptyBuffer ==
  [retained |-> <<>>, total_bytes |-> 0, total_characters |-> 0,
   retained_start_offset |-> 0, dropped_prefix_bytes |-> 0,
   source_truncated |-> FALSE]

(* retained.len(): the characters kept are contiguous (see Accounted).     *)
Bytes(text) ==
  IF text = <<>> THEN 0 ELSE text[Len(text)].end - text[1].begin

(* The least number of whole characters from the front that free `bytes`,  *)
(* or all of them.                                                         *)
DropCount(text, bytes) ==
  Min({k \in 0..Len(text) :
         k = Len(text) \/ Bytes(SubSeq(text, 1, k)) >= bytes})

(* Deliberate fault: the offset of the first retained character stays.     *)
Reclaimed_StartKept(output, bytes) ==
  LET k == DropCount(output.retained, bytes)
  IN  [output EXCEPT
         !.retained = SubSeq(@, k + 1, Len(@)),
         !.dropped_prefix_bytes = @ + Bytes(SubSeq(output.retained, 1, k)),
         !.source_truncated = @ \/ k > 0]

(* trim_to, reclaim_prefix and reclaim_all: at least `bytes` are released  *)
(* from the front if there are as many, and accounted for.                 *)
Reclaimed(output, bytes) ==
  LET k == DropCount(output.retained, bytes)
  IN  [output EXCEPT
         !.retained = SubSeq(@, k + 1, Len(@)),
         !.retained_start_offset = @ + k,
         !.dropped_prefix_bytes = @ + Bytes(SubSeq(output.retained, 1, k)),
         !.source_truncated = @ \/ k > 0]

Length(text) == IF text = <<>> THEN 0 ELSE text[Len(text)]

(* The characters of a text appended to the output of span number `serial`. *)
Decoded(output, text, serial) ==
  [i \in 1..Len(text) |->
     [of |-> serial, at |-> output.total_characters + i,
      begin |-> output.total_bytes + IF i = 1 THEN 0 ELSE text[i - 1],
      end |-> output.total_bytes + text[i]]]

Pushed(output, text, serial) ==
  [output EXCEPT
     !.retained = @ \o Decoded(output, text, serial),
     !.total_bytes = @ + Length(text),
     !.total_characters = @ + Len(text)]

(* append: the text is pushed, then trimmed to the cap of one command.     *)
Appended(output, text, serial) ==
  IF text = <<>> THEN output
  ELSE LET pushed == Pushed(output, text, serial)
       IN  Reclaimed(pushed, Bytes(pushed.retained) - MaxCommandOutputBytes)

-----------------------------------------------------------------------------
(* The session's cap.                                                      *)

RetainedBytes(rows, span) ==
  LET upTo[i \in 0..Len(rows)] ==
        IF i = 0 THEN 0 ELSE upTo[i - 1] + Bytes(rows[i].output.retained)
  IN  (IF span = NoCommand THEN 0 ELSE Bytes(span.output.retained))
        + upTo[Len(rows)]

Freed(output, bytes) ==
  Bytes(output.retained) - Bytes(Reclaimed(output, bytes).retained)

(* Deliberate fault: output is reclaimed from the newest commands first.   *)
Capped_NewestFirst(rows, span) ==
  LET excess[i \in 1..(Len(rows) + 1)] ==
        IF i = Len(rows) + 1
        THEN RetainedBytes(rows, span) - MaxTotalOutputBytes
        ELSE excess[i + 1]
               - IF excess[i + 1] > 0
                 THEN Freed(rows[i].output, excess[i + 1]) ELSE 0
  IN  [i \in 1..Len(rows) |->
         IF excess[i + 1] > 0
         THEN [rows[i] EXCEPT !.output = Reclaimed(@, excess[i + 1])]
         ELSE rows[i]]

(* enforce_total_cap: output is reclaimed from the oldest rows until the   *)
(* rest fits; the span being captured is left alone.  excess[i] is what is *)
(* still over the cap when row i has been visited.                         *)
Capped(rows, span) ==
  LET excess[i \in 0..Len(rows)] ==
        IF i = 0
        THEN RetainedBytes(rows, span) - MaxTotalOutputBytes
        ELSE excess[i - 1]
               - IF excess[i - 1] > 0
                 THEN Freed(rows[i].output, excess[i - 1]) ELSE 0
  IN  [i \in 1..Len(rows) |->
         IF excess[i - 1] > 0
         THEN [rows[i] EXCEPT !.output = Reclaimed(@, excess[i - 1])]
         ELSE rows[i]]

-----------------------------------------------------------------------------
(* A real command_start opens a span; one that is still open never got its *)
(* end and is discarded.                                                   *)
Begin ==
  /\ begun < MaxCommands
  /\ active' = [command_id |-> next_id, serial |-> begun + 1,
                output |-> EmptyBuffer, partial |-> FALSE]
  /\ next_id' = next_id + 1
  /\ begun' = begun + 1
  /\ answer' = NoAnswer
  /\ UNCHANGED <<completed, exited>>

(* Deliberate fault: the session's cap is left to the command's end.       *)
RecordOutput_CapAtEnd(text, partial) ==
  /\ active # NoCommand
  /\ text # <<>> \/ partial
  /\ active.output.total_bytes + Length(text) <= MaxBytes
  /\ active' = [active EXCEPT
                  !.output = Appended(@, text, active.serial),
                  !.partial = partial]
  /\ answer' = NoAnswer
  /\ UNCHANGED <<completed, next_id, exited, begun>>

(* Bytes of the PTY are decoded as they come: `text` is what they complete, *)
(* the bytes held back before included; `partial` whether they end in the  *)
(* middle of a character.                                                  *)
RecordOutput(text, partial) ==
  /\ active # NoCommand
  /\ text # <<>> \/ partial
  /\ active.output.total_bytes + Length(text) <= MaxBytes
  /\ active' = [active EXCEPT
                  !.output = Appended(@, text, active.serial),
                  !.partial = partial]
  /\ completed' = Capped(completed, active')
  /\ answer' = NoAnswer
  /\ UNCHANGED <<next_id, exited, begun>>

(* What is held back at the end will never complete.                       *)
Finished(span) ==
  [command_id |-> span.command_id,
   output |-> IF span.partial
              THEN Appended(span.output, <<ReplacementBytes>>, span.serial)
              ELSE span.output]

(* A command_end closes the span into a row; without one it does nothing.  *)
End ==
  /\ active # NoCommand
  /\ LET rows == Append(completed, Finished(active))
         surplus == IF Len(rows) > MaxCompletedCommands
                    THEN Len(rows) - MaxCompletedCommands ELSE 0
     IN  completed' = Capped(SubSeq(rows, surplus + 1, Len(rows)), NoCommand)
  /\ active' = NoCommand
  /\ answer' = NoAnswer
  /\ UNCHANGED <<next_id, exited, begun>>

(* Deliberate fault: numbering starts again with the emptied store.        *)
ClearCompleted_IdsRestart ==
  /\ completed' = <<>>
  /\ next_id' = 1
  /\ answer' = NoAnswer
  /\ UNCHANGED <<active, exited, begun>>

(* `koshell clear`: the rows go, the span of that very command stays, and  *)
(* ids keep advancing.                                                     *)
ClearCompleted ==
  /\ completed' = <<>>
  /\ answer' = NoAnswer
  /\ UNCHANGED <<active, next_id, exited, begun>>

(* The shell exits: the open span never becomes a row.                     *)
AbandonActive ==
  /\ exited' = TRUE
  /\ active' = NoCommand
  /\ answer' = NoAnswer
  /\ UNCHANGED <<completed, next_id, begun>>

-----------------------------------------------------------------------------
(* The agent reads: any command it was ever told of, from the start of     *)
(* what is left or from an offset it was given or made up.                 *)

Lesser(a, b) == IF a <= b THEN a ELSE b

Page(row, offset, limit) ==
  LET output == row.output
      start == IF offset = NoOffset THEN output.retained_start_offset ELSE offset
      skip == start - output.retained_start_offset
      last == Lesser(skip + Lesser(limit, MaxReadLimit), Len(output.retained))
      content == SubSeq(output.retained, skip + 1, last)
  IN  IF start < output.retained_start_offset
      THEN Evicted(output.retained_start_offset)
      ELSE [kind |-> "page", command_id |-> row.command_id, offset |-> start,
            next_offset |-> start + Len(content),
            has_more |-> start + Len(content)
                           < output.retained_start_offset + Len(output.retained),
            content |-> content]

Read(command_id, offset, limit) ==
  /\ \/ /\ \A i \in DOMAIN completed : completed[i].command_id # command_id
        /\ answer' = NotFound
     \/ \E i \in DOMAIN completed :
          /\ completed[i].command_id = command_id
          /\ \A j \in 1..(i - 1) : completed[j].command_id # command_id
          /\ answer' = Page(completed[i], offset, limit)
  /\ UNCHANGED <<completed, active, next_id, exited, begun>>

Next ==
  /\ ~exited
  /\ \/ Begin
     \/ \E text \in Chunks \cup {<<>>}, partial \in BOOLEAN :
          RecordOutput(text, partial)
     \/ End
     \/ ClearCompleted
     \/ AbandonActive
     \/ \E command_id \in 1..MaxCommands,
           offset \in 0..(MaxBytes + 1) \cup {NoOffset},
           limit \in Limits : Read(command_id, offset, limit)

Spec == Init /\ [][Next]_vars

-----------------------------------------------------------------------------
(* What is kept of an output is exactly its tail, and the numbers reported *)
(* with it say where the gap is: characters and bytes dropped and kept add *)
(* up to what the command wrote, and a truncation is never concealed.      *)
ExactTail(output, serial) ==
  LET kept == output.retained
      start == output.retained_start_offset
  IN  /\ start + Len(kept) = output.total_characters
      /\ output.dropped_prefix_bytes + Bytes(kept) = output.total_bytes
      /\ output.source_truncated <=> start > 0
      /\ \A i \in 1..Len(kept) : kept[i].of = serial /\ kept[i].at = start + i

Accounted ==
  /\ \A i \in DOMAIN completed :
       ExactTail(completed[i].output, completed[i].command_id)
  /\ active # NoCommand => ExactTail(active.output, active.command_id)

(* However commands, their ends and their output interleave, no command    *)
(* keeps more than its cap, and all of them together with the one running  *)
(* no more than the session's.                                             *)
WithinCommandCap ==
  /\ \A i \in DOMAIN completed :
       Bytes(completed[i].output.retained) <= MaxCommandOutputBytes
  /\ active # NoCommand =>
       Bytes(active.output.retained) <= MaxCommandOutputBytes

CapsHold ==
  /\ WithinCommandCap
  /\ RetainedBytes(completed, active) <= MaxTotalOutputBytes

(* The store is well typed and bounded.                                    *)
StoreSound == TypeOK /\ CapsHold

(* A page is that part of that command's output which its offsets name,    *)
(* whatever has been reclaimed, dropped, cleared or numbered since the     *)
(* agent learned id and offset; and "no more" means up to the last         *)
(* character the command wrote.                                            *)
PagesAreTrue ==
  answer.kind = "page" =>
    /\ answer.next_offset = answer.offset + Len(answer.content)
    /\ \A i \in 1..Len(answer.content) :
         /\ answer.content[i].of = answer.command_id
         /\ answer.content[i].at = answer.offset + i
    /\ ~answer.has_more =>
         \E i \in DOMAIN completed :
           /\ completed[i].command_id = answer.command_id
           /\ answer.next_offset >= completed[i].output.total_characters

(* Characters the output of the row now at j has lost in a step.            *)
Lost(before, row) ==
  LET same == {i \in DOMAIN before : before[i].command_id = row.command_id}
  IN  IF same = {} THEN <<>>
      ELSE LET was == before[Min(same)].output.retained
           IN  SubSeq(was, 1, Len(was) - Len(row.output.retained))

(* The newest evidence survives: a completed command loses output only     *)
(* when no older one has any left, and not one character more than the cap *)
(* makes them lose together.                                               *)
OldestFirst ==
  [][\A j \in DOMAIN completed' :
       LET lost == Lost(completed, completed'[j])
           newest == \A k \in (j + 1)..Len(completed') :
                       Lost(completed, completed'[k]) = <<>>
       IN  lost # <<>> =>
             /\ \A k \in 1..(j - 1) : completed'[k].output.retained = <<>>
             /\ newest =>
                  RetainedBytes(completed', active')
                    + lost[Len(lost)].end - lost[Len(lost)].begin
                    > MaxTotalOutputBytes]_vars
=============================================================================
