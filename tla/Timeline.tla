------------------------------ MODULE Timeline ------------------------------
(***************************************************************************)
(* What the terminal remembers of its own session and tells the agent      *)
(* about it: the bounded timeline (crates/koshell-rs/src/timeline.rs), fed *)
(* by SessionState (trigger.rs) with keys, output and screen snapshots,    *)
(* and the context built from it when a question fires (context.rs).       *)
(*                                                                         *)
(* A text is its length; where it stands is the entry it came in, so two   *)
(* texts are equal when they take the same characters of the same entries. *)
(* A screen is a sequence of lines.  The clock is the wall clock: it can   *)
(* be set back.  Text of blanks only counts as text.                       *)
(***************************************************************************)
EXTENDS ScreenDiff

CONSTANTS
  Tiers,               \* SNAPSHOT_TIERS: a sequence of [maxAge, spacing]
  TextBudget,          \* RAW_TEXT_RETENTION_CHARS
  SnapshotBudget,      \* SNAPSHOT_RETENTION_BYTES
  CompactEvery,        \* COMPACT_EVERY
  MaintenanceInterval, \* TIMELINE_MAINTENANCE_INTERVAL
  InputChars, OutputChars, ScreenLines, ChangesLimit, \* the context's budgets
  Sizes,               \* lengths of the texts the session records
  Screens,             \* what the terminal shows: [lines, alt], alt on the alternate screen
  Callers,             \* the operations of SessionState this instance takes
  NoSnapshot,          \* None in SessionState.previous_snapshot
  MaxRecords, MaxTime, MaxSetBack \* bounds: entries, clock, clock set back

ASSUME TimelineAssumption ==
  /\ Tiers # << >>
  /\ \A i \in DOMAIN Tiers : Tiers[i].maxAge \in Nat /\ Tiers[i].spacing \in Nat \ {0}
  /\ \A i, j \in DOMAIN Tiers : i < j => Tiers[i].maxAge < Tiers[j].maxAge
  /\ CompactEvery \in Nat \ {0} /\ SnapshotBudget \in Nat \ {0}
  /\ InputChars <= TextBudget /\ OutputChars <= TextBudget
  /\ Sizes \subseteq Nat \ {0}

VARIABLES
  entries,   \* InMemoryTimelineStore.entries
  since,     \* records_since_compaction
  now,       \* the wall clock
  setBacks,  \* how often the clock was set back
  maintained,\* last_timeline_maintenance, on the monotonic clock
  uptime,    \* the monotonic clock
  screen,    \* the mirror: its lines and whether it is the alternate screen
  previous,  \* previous_snapshot: [id, lines] or NoSnapshot
  log        \* history: every entry recorded since the last clear

vars == <<entries, since, now, setBacks, maintained, uptime, screen, previous, log>>

TextKinds == {"input", "output"}
MaxAge == Tiers[Len(Tiers)].maxAge
Snapshots(es) == SelectSeq(es, LAMBDA e : e.kind = "snapshot")
SumOf(es, kind) == FoldLeft(LAMBDA sum, e : IF e.kind = kind THEN sum + e.size ELSE sum, 0, es)
-----------------------------------------------------------------------------
(* Retention *)

\* snapshot_spacing_for_age: the first band that covers the age.
CoveringTiers(age) == {i \in DOMAIN Tiers : age <= Tiers[i].maxAge}
SpacingForAge(age) == Tiers[Min(CoveringTiers(age))].spacing

\* keep_snapshot.  kept is the timestamp of the newer snapshot kept last.
KeepSnapshot(age, ts, kept) ==
  /\ CoveringTiers(age) # {}
  /\ kept # {} => (CHOOSE k \in kept : TRUE) - ts >= SpacingForAge(age)

\* take_from_budget: the entry that straddles the budget is kept.
BudgetAfter(budget, cost) == Max({0, budget - cost})

Drawn(budgets, kind, cost) == [budgets EXCEPT ![kind] = BudgetAfter(@, cost)]

Keep(e, es) == <<e>> \o es

\* One step of compact, newest entry first.
Retain(e, acc, time) ==
  LET age  == time - e.ts
      kept == [acc EXCEPT !.entries = Keep(e, @)]
  IN CASE e.kind = "snapshot" ->
            IF ~KeepSnapshot(age, e.ts, acc.snapshot) THEN acc
            ELSE LET thinned == [acc EXCEPT !.snapshot = {e.ts}]
                 IN IF acc.bytes = 0 THEN thinned
                    ELSE [thinned EXCEPT !.entries = Keep(e, @),
                                         !.bytes = BudgetAfter(@, Len(e.lines))]
       [] e.kind \in TextKinds ->
            IF acc.text[e.kind] = 0 THEN acc
            ELSE [kept EXCEPT !.text = Drawn(@, e.kind, e.size)]
       [] e.kind = "event" -> IF age <= MaxAge THEN kept ELSE acc

Compact(es, time) ==
  FoldRight(LAMBDA e, acc : Retain(e, acc, time), es,
            [entries |-> << >>, snapshot |-> {}, bytes |-> SnapshotBudget,
             text |-> [k \in TextKinds |-> TextBudget]]).entries

\* record, for the entries of one handler in turn.
Recorded(es, new) ==
  FoldLeft(LAMBDA s, e : IF s.since + 1 >= CompactEvery
                         THEN [entries |-> Compact(Append(s.entries, e), now), since |-> 0]
                         ELSE [entries |-> Append(s.entries, e), since |-> s.since + 1],
           es, new)

Record(new) ==
  LET after == Recorded([entries |-> entries, since |-> since], new)
  IN /\ Len(log) + Len(new) <= MaxRecords
     /\ entries' = after.entries /\ since' = after.since
     /\ log' = log \o new

Text(kind, size) == [kind |-> kind, ts |-> now, id |-> Len(log) + 1, size |-> size]
Event == [kind |-> "event", ts |-> now, id |-> Len(log) + 1]
-----------------------------------------------------------------------------
(* SessionState *)

\* record_snapshot of the mirror's new state, the nth entry of its handler.
Snapshot(shown, base, n) ==
  [kind |-> "snapshot", ts |-> now, id |-> Len(log) + n, lines |-> shown.lines, alt |-> shown.alt,
   previous |-> IF base = NoSnapshot THEN 0 ELSE base.id,
   diff |-> IF base = NoSnapshot THEN << >> ELSE <<Summary(base.lines, shown.lines)>>]

\* Deliberate fault: only recording compacts, as before the idle pass existed.
MaintenanceDue_Never == FALSE

\* poll: retention re-applied when due, whatever else the step did.  Every
\* message ends in it and next_maintenance_delay wakes the loop, so no time
\* passes while it is due and something is retained.
MaintenanceDue == uptime - maintained >= MaintenanceInterval

Shows(shown) == screen' = shown /\ previous' = [id |-> Last(log').id, lines |-> shown.lines]
Clocks == UNCHANGED <<now, setBacks, maintained, uptime>>

\* record_output: output, then the snapshot of the screen it leaves.
RecordOutput(size, shown) ==
  /\ "output" \in Callers
  /\ Record(<<Text("output", size), Snapshot(shown, previous, 2)>>)
  /\ Shows(shown) /\ Clocks

\* record_presentation_output and resize: a snapshot, no output.
RecordPresentation(shown) ==
  /\ "presentation" \in Callers
  /\ shown.alt = screen.alt
  /\ Record(<<Snapshot(shown, previous, 1)>>)
  /\ Shows(shown) /\ Clocks

RecordInput(size) ==
  /\ "input" \in Callers
  /\ Record(<<Text("input", size)>>)
  /\ UNCHANGED <<screen, previous>> /\ Clocks

\* handle_marker and fire: command boundaries and questions asked.
RecordEvent ==
  /\ "event" \in Callers
  /\ Record(<<Event>>)
  /\ UNCHANGED <<screen, previous>> /\ Clocks

\* clear_context forgets the snapshot to diff against.
BaseAfterClear == NoSnapshot

\* apply_control_marker for `koshell clear`: the reset, the snapshot of the
\* screen it wiped, and the one its notice leaves.
ClearContext(shown) ==
  LET wiped == [Snapshot([lines |-> << >>, alt |-> screen.alt], BaseAfterClear, 1) EXCEPT !.id = 1]
      told  == [Snapshot(shown, wiped, 2) EXCEPT !.id = 2]
      after == Recorded([entries |-> << >>, since |-> since], <<wiped, told>>)
  IN /\ "clear" \in Callers
     /\ shown.alt = screen.alt
     /\ entries' = after.entries /\ since' = after.since
     /\ log' = <<wiped, told>>
     /\ Shows(shown) /\ Clocks

Maintain ==
  /\ MaintenanceDue
  /\ entries' = Compact(entries, now) /\ since' = 0
  /\ maintained' = uptime
  /\ UNCHANGED <<now, setBacks, uptime, screen, previous, log>>

\* Environment: time passes, the wall clock is set back.
Tick ==
  /\ MaintenanceDue => entries = << >>
  /\ uptime < MaxTime
  /\ now' = now + 1 /\ uptime' = uptime + 1
  /\ UNCHANGED <<entries, since, setBacks, maintained, screen, previous, log>>

SetBack ==
  /\ setBacks < MaxSetBack /\ now > 0
  /\ now' = now - 1 /\ setBacks' = setBacks + 1
  /\ UNCHANGED <<entries, since, maintained, uptime, screen, previous, log>>

Init ==
  /\ entries = << >> /\ since = 0 /\ log = << >>
  /\ now = 0 /\ setBacks = 0 /\ maintained = 0 /\ uptime = 0
  /\ screen = [lines |-> << >>, alt |-> FALSE]
  /\ previous = NoSnapshot

Next ==
  \/ \E size \in Sizes, shown \in Screens : RecordOutput(size, shown)
  \/ \E shown \in Screens : RecordPresentation(shown) \/ ClearContext(shown)
  \/ \E size \in Sizes : RecordInput(size)
  \/ RecordEvent \/ Maintain \/ Tick \/ SetBack

Spec == Init /\ [][Next]_vars
-----------------------------------------------------------------------------
(* The context of a question *)

Characters(es, kind) ==
  FoldLeft(LAMBDA text, e : IF e.kind = kind THEN text \o [i \in 1..e.size |-> e.id] ELSE text,
           << >>, es)

\* Deliberate fault: keeps the beginning of the text instead of its end.
TrimStart_KeepsBeginning(text, max) == SubSeq(text, 1, Min({max, Len(text)}))

\* trim_start_to_max_characters
TrimStart(text, max) ==
  IF Len(text) <= max THEN text ELSE SubSeq(text, Len(text) - max + 1, Len(text))

\* get_recent_screen_changes: the last snapshots that were diffed.
RecentChanges(es) ==
  TrimStart(SelectSeq(es, LAMBDA e : e.kind = "snapshot" /\ e.diff # << >>), ChangesLimit)

\* build_terminal_context and choose_primary_text.  No visible-output entry
\* is ever recorded, so that source is left out.
Context(es) ==
  LET shots  == Snapshots(es)
      output == TrimStart(Characters(es, "output"), OutputChars)
      shown  == IF shots = << >> THEN << >> ELSE TrimStart(Last(shots).lines, ScreenLines)
      alt    == shots # << >> /\ Last(shots).alt
      source == CASE alt /\ shown # << >> -> "screen"
                  [] ~alt /\ output # << >> -> "output"
                  [] ~alt /\ output = << >> /\ shown # << >> -> "screen"
                  [] OTHER -> "empty"
  IN [input |-> TrimStart(Characters(es, "input"), InputChars),
      output |-> output, current |-> shown, alt |-> alt, source |-> source,
      changes |-> RecentChanges(es),
      truncated |-> CASE source = "screen" -> Len(shown) < Len(Last(shots).lines)
                      [] source = "output" -> Len(output) >= OutputChars
                      [] source = "empty" -> FALSE]
-----------------------------------------------------------------------------
(* Properties *)

\* What is retained was recorded, in order; counters and clocks are in range.
TypeOK ==
  /\ \A i \in DOMAIN entries : \E j \in DOMAIN log : entries[i] = log[j]
  /\ \A i, j \in DOMAIN entries : i < j => entries[i].id < entries[j].id
  /\ since \in 0..CompactEvery
  /\ now \in 0..MaxTime /\ uptime \in 0..MaxTime /\ maintained \in 0..uptime
  /\ setBacks \in 0..MaxSetBack
  /\ screen \in Screens \union {[lines |-> << >>, alt |-> FALSE]}

\* Forgetting is invisible to a question: the keys and the output its context
\* shows are those a store that never drops anything would show, whatever
\* compaction, idle maintenance and clock steps have thrown away, and nothing
\* of before a clear.  And a part is never presented as the whole: unless the
\* context says that its primary text was cut, that text is all there was.
ContextIsHonest ==
  LET told == Context(entries)
      all  == Context(log)
  IN /\ told.input = all.input
     /\ told.output = all.output
     /\ ~told.truncated =>
          /\ told.source = "output" => told.output = Characters(log, "output")
          /\ told.source = "screen" => told.current = screen.lines

\* The screen changes a context reports are true: each is the difference to a
\* snapshot that was recorded just before it and since the last clear, also
\* when that one has been dropped, and its blocks turn the one into the other.
ChangesAreTrue ==
  LET told == Context(entries)
  IN \A i \in DOMAIN told.changes :
       LET after == told.changes[i]
           base  == {j \in DOMAIN log : log[j].id = after.previous /\ log[j].kind = "snapshot"}
       IN /\ base # {}
          /\ \A j \in base :
               /\ \A k \in DOMAIN log :
                    log[k].kind = "snapshot" => ~(log[k].id > log[j].id /\ log[k].id < after.id)
               /\ Describes(Hunks(log[j].lines, after.lines), log[j].lines, after.lines)
               /\ Len(after.lines) - Len(log[j].lines)
                    = after.diff[1].added - after.diff[1].removed

\* The store is bounded whatever the session does: entries older than the
\* last compaction fit their budgets but for the one that straddles each, the
\* snapshots among them do not crowd, and nothing outlives the horizon by
\* more than the idle pass, also when the session has gone silent.
StoreIsBounded ==
  LET settled == SubSeq(entries, 1, Len(entries) - since)
      shots   == Snapshots(settled)
      Bytes   == FoldLeft(LAMBDA sum, e : sum + Len(e.lines), 0, shots)
      Longest == Max({Len(s.lines) : s \in Screens} \union {0})
  IN /\ \A kind \in TextKinds : SumOf(settled, kind) < TextBudget + Max(Sizes)
     /\ Bytes < SnapshotBudget + Max({Longest, 1})
     /\ \A i \in 2..Len(shots) : shots[i].ts - shots[i-1].ts >= Tiers[1].spacing
     /\ \A i \in DOMAIN entries :
          entries[i].kind \notin TextKinds =>
            now - entries[i].ts <= MaxAge + MaintenanceInterval

\* The store is well typed, in order and bounded.
StoreSound == TypeOK /\ StoreIsBounded

\* "dense for the last minute, thinning out to hourly across a week" (the
\* comment of SNAPSHOT_TIERS): of a screen recorded within the horizon,
\* something within twice the spacing its age asks for is still retained.
CoarseHistoryRemains ==
  \A i \in DOMAIN log :
    (log[i].kind = "snapshot" /\ CoveringTiers(now - log[i].ts) # {}) =>
      \E j \in DOMAIN entries :
        /\ entries[j].kind = "snapshot"
        /\ entries[j].ts - log[i].ts \in (-2 * SpacingForAge(now - log[i].ts))
                                          ..(2 * SpacingForAge(now - log[i].ts))
=============================================================================
