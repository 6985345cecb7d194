--------------------------- MODULE SessionTrigger ---------------------------
(***************************************************************************)
(* Detection of `#?' questions in the terminal                             *)
(* (crates/koshell-rs/src/trigger.rs, SessionState), driven by the         *)
(* processor loop of session.rs: every message is followed by a poll.      *)
(*                                                                         *)
(* A question is submitted in one of two ways.  In a shell with the        *)
(* integration hooks, the command_start marker carries the accepted line;  *)
(* inside a command span, and in a shell without hooks, Enter reads the    *)
(* line under the cursor from the screen mirror.  A pending question fires *)
(* at the authoritative command_end marker, or when output has settled, or *)
(* after a bounded wait; Ctrl+C withdraws it.                              *)
(*                                                                         *)
(* While an answer streams at the bottom of the terminal, output is held   *)
(* back behind it (presentation.rs 601-619) and reaches neither the mirror *)
(* nor the quiet time until it is released; the markers in it are handled  *)
(* at once.  The answers themselves are in Presentation: here one begins   *)
(* and ends as it likes once its question was sent.                        *)
(*                                                                         *)
(* The shell, the programs it runs and the user are the environment: the   *)
(* markers and the output travel through the PTY in order, while a key     *)
(* press reaches the processor before the shell has seen it                *)
(* (session.rs 486-497), so keys overtake output.  Times are counted in    *)
(* ticks and saturate at Horizon, past every deadline.  What a command     *)
(* printed, the form of a question and the context package are left out.   *)
(***************************************************************************)
EXTENDS Integers, Sequences

CONSTANTS
  Questions,       \* the questions the user types, each typed once
  NoQuestion,      \* a line without `#?'
  Tier,            \* ticks of silence that settle, by origin and resting shape
  MaxWait,         \* ticks after which a question fires regardless, by origin
  ReceiptDelay,    \* ticks before the receipt notice
  MaxPty,          \* bound: the shell writes when fewer items are unread
  IgnoresRepeats,  \* bash may keep a line out of its history (HISTCONTROL)
  TypeAhead,       \* the user may type a line the running command never reads
  MidLine          \* an answer may begin to hold output, or the size limit let
                   \* some through, with a prompt's typed line under the cursor

Origins == {"PromptLine", "InProgram"}
Shapes == {"Prompt", "Other"}
Lines == Questions \cup {NoQuestion}

ASSUME QuestionsAssumption == NoQuestion \notin Questions

\* Every tier is a wait, and is over before the bounded wait is.
ASSUME TimesAssumption ==
  /\ Tier \in [Origins -> [Shapes -> Nat \ {0}]]
  /\ MaxWait \in [Origins -> Nat]
  /\ ReceiptDelay \in Nat
  /\ \A o \in Origins, s \in Shapes : Tier[o][s] <= MaxWait[o]

ASSUME EnvironmentAssumption ==
  /\ MaxPty \in Nat
  /\ IgnoresRepeats \in BOOLEAN /\ TypeAhead \in BOOLEAN /\ MidLine \in BOOLEAN

Horizon ==
  IF MaxWait["PromptLine"] >= MaxWait["InProgram"]
  THEN MaxWait["PromptLine"] ELSE MaxWait["InProgram"]

VARIABLES
  session,     \* SessionState, and what it has fired and cancelled so far
  integrated,  \* shell_integrated: fixed when the session starts
  answer,      \* whether an answer holds output back, and the last of it
  silence,     \* ghost: ticks since output was read, held back or not, or released
  pty,         \* output and markers the processor has not read yet
  typed,       \* the line being typed: its question, if any
  entered,     \* lines submitted with Enter and not yet read
  shell,       \* whether a command runs, its line, and which markers it gets
  place,       \* ghost: where each question was typed
  accepted     \* ghost: the questions on lines the shell really ran, with the hooks

vars == <<session, integrated, answer, silence, pty, typed, entered, shell,
          place, accepted>>

hold == <<answer, silence>>

PendingQuestion ==
  [question : Questions, origin : Origins, age : 0..Horizon,
   receipt_notified : BOOLEAN]

Trigger ==
  [question : Questions, still_running : BOOLEAN,
   completion : {"CommandEnd", "Stabilized", "MaxWait"}]

SessionState ==
  [command_active : BOOLEAN, span_settled : BOOLEAN,
   captured_since_output : BOOLEAN, pending : Seq(PendingQuestion),
   quiet : 0..Horizon, line : Lines, shape : Shapes, alt : BOOLEAN,
   fired : Seq(Trigger), cancelled : SUBSET Questions]

Output(line, shape, alt) ==
  [kind |-> "output", line |-> line, shape |-> shape, alt |-> alt]
Start(question) == [kind |-> "command_start", question |-> question]
End(question) == [kind |-> "command_end", question |-> question]

OutputItem ==
  [kind : {"output"}, line : Lines, shape : Shapes, alt : BOOLEAN]
PtyItem ==
  OutputItem \cup [kind : {"command_start", "command_end"}, question : Lines]

\* Of what is held only the last is kept: it is recorded in one piece.  lost: held
\* output was dropped with its answer, and nothing was recorded since.
Answer ==
  [holding : BOOLEAN, held : {<<>>} \cup {<<item>> : item \in OutputItem},
   lost : BOOLEAN]
NoAnswer == [holding |-> FALSE, held |-> <<>>, lost |-> FALSE]

\* Which markers koshell sees for a line: both; none, when the line has a
\* control character (a newline of a multi-line command) that the hooks put
\* unescaped into the JSON payload, which the parser then rejects; or only a
\* start, without the comment, when bash kept the line out of its history.
Markings ==
  IF ~integrated THEN {"none"}
  ELSE {"both", "none"} \cup (IF IgnoresRepeats THEN {"start"} ELSE {})

AtPrompt == [running |-> FALSE, question |-> NoQuestion, marks |-> "none"]

TypeOK ==
  /\ session \in SessionState
  /\ integrated \in BOOLEAN
  /\ answer \in Answer
  /\ silence \in 0..Horizon
  /\ pty \in Seq(PtyItem)
  /\ typed \in Lines
  /\ entered \in Seq(Lines)
  /\ shell \in [running : BOOLEAN, question : Lines, marks : Markings]
  /\ place \in [Questions -> {"unused", "prompt", "program"}]
  /\ accepted \subseteq Questions

Init ==
  /\ session =
       [command_active |-> FALSE, span_settled |-> FALSE,
        captured_since_output |-> FALSE, pending |-> <<>>,
        quiet |-> Horizon, line |-> NoQuestion, shape |-> "Other",
        alt |-> FALSE, fired |-> <<>>, cancelled |-> {}]
  /\ integrated \in BOOLEAN
  /\ answer = NoAnswer
  /\ silence = Horizon
  /\ pty = <<>>
  /\ typed = NoQuestion
  /\ entered = <<>>
  /\ shell = AtPrompt
  /\ place = [q \in Questions |-> "unused"]
  /\ accepted = {}

(***************************************************************************)
(* Firing and the poll that follows every message.                         *)
(***************************************************************************)
Lesser(a, b) == IF a <= b THEN a ELSE b

\* Silence counts from the later of the last output and the submission.
Stabilized(s, p) == Lesser(s.quiet, p.age) >= Tier[p.origin][s.shape]

\* Deliberate fault: the longest wait starts again with every output.
Maxed_SinceOutput(s, p) == Lesser(s.quiet, p.age) >= MaxWait[p.origin]
Maxed(s, p) == p.age >= MaxWait[p.origin]

StillRunning(s, p) == s.command_active /\ p.origin = "PromptLine"

Fire(p, completion, still_running) ==
  [question |-> p.question, completion |-> completion,
   still_running |-> still_running]

FireAll(pending) ==
  [i \in DOMAIN pending |-> Fire(pending[i], "CommandEnd", FALSE)]

Why(s, p) == IF Stabilized(s, p) THEN "Stabilized" ELSE "MaxWait"

ReceiptDue(p) == ~p.receipt_notified /\ p.age >= ReceiptDelay

\* A pass of the loop over what is pending: what is due fires, the rest waits on.
Examined(s, before, p) ==
  IF Stabilized(s, p) \/ Maxed(s, p)
  THEN [before EXCEPT
         !.fired = Append(@, Fire(p, Why(s, p), StillRunning(s, p))),
         !.span_settled = @ \/ StillRunning(s, p)]
  ELSE [before EXCEPT
         !.pending = Append(@, [p EXCEPT !.receipt_notified = @ \/ ReceiptDue(p)])]

Polled(s) ==
  LET examined[i \in 0..Len(s.pending)] ==
        IF i = 0 THEN [s EXCEPT !.pending = <<>>]
        ELSE Examined(s, examined[i - 1], s.pending[i])
  IN IF s.pending = <<>> \/ s.alt THEN s ELSE examined[Len(s.pending)]

\* The processor sleeps until the nearest deadline, if there is one.
DeadlineReached(s) ==
  /\ ~s.alt
  /\ \E i \in DOMAIN s.pending :
       LET p == s.pending[i]
       IN ReceiptDue(p) \/ Maxed(s, p) \/ Stabilized(s, p)

(***************************************************************************)
(* The handlers, each a function of the session state.                     *)
(***************************************************************************)
Submitted(question, origin) ==
  [question |-> question, origin |-> origin, age |-> 0,
   receipt_notified |-> FALSE]

\* Where Enter reads the mirror: never at the prompt of an integrated shell.
Armed(s) ==
  /\ s.command_active \/ ~integrated
  /\ ~s.alt
  /\ ~s.captured_since_output

CaptureSubmittedLine(s) ==
  IF ~Armed(s) \/ s.line = NoQuestion THEN s
  ELSE [s EXCEPT
         !.captured_since_output = TRUE,
         !.pending = Append(@, Submitted(s.line, IF s.command_active
                                                 THEN "InProgram"
                                                 ELSE "PromptLine"))]

\* Deliberate fault: Ctrl+C withdraws what is pending and leaves the span open.
Interrupted_SpanOpen(s) ==
  IF s.alt THEN s
  ELSE [s EXCEPT
         !.cancelled = @ \cup {s.pending[i].question : i \in DOMAIN s.pending},
         !.pending = <<>>]
Interrupted(s) ==
  IF s.alt THEN s
  ELSE [s EXCEPT
         !.span_settled = @ \/ s.command_active,
         !.cancelled = @ \cup {s.pending[i].question : i \in DOMAIN s.pending},
         !.pending = <<>>]

RecordOutput(s, item) ==
  [s EXCEPT !.line = item.line, !.shape = item.shape, !.alt = item.alt,
            !.quiet = 0, !.captured_since_output = FALSE]

CommandStart(s, question) ==
  LET fresh == ~s.command_active
  IN [s EXCEPT
       !.span_settled = @ /\ ~fresh,
       !.pending = IF fresh /\ question # NoQuestion
                   THEN Append(@, Submitted(question, "PromptLine"))
                   ELSE @,
       !.command_active = TRUE]

SpanEnds(s, pending, fired) ==
  [s EXCEPT !.command_active = FALSE, !.span_settled = FALSE,
            !.pending = pending, !.fired = @ \o fired]

\* The line's own question, when nothing is pending and it was not settled.
Fallback(s, question) ==
  IF s.pending = <<>> /\ ~s.span_settled /\ question # NoQuestion
  THEN FireAll(<<Submitted(question, "PromptLine")>>)
  ELSE <<>>

\* Deliberate fault: the end fires the line's own question only.
CommandEnd_InProgramStays(s, question) ==
  LET OwnLine(p) == p.origin = "PromptLine"
      Inner(p) == p.origin = "InProgram"
  IN SpanEnds(s, SelectSeq(s.pending, Inner),
              FireAll(SelectSeq(s.pending, OwnLine)) \o Fallback(s, question))
\* The authoritative completion: everything pending fires.
CommandEnd(s, question) ==
  SpanEnds(s, <<>>, FireAll(s.pending) \o Fallback(s, question))

\* The working-directory and control markers are no command boundary.
Handled(s, item) ==
  CASE item.kind = "output" -> RecordOutput(s, item)
    [] item.kind = "command_start" -> CommandStart(s, item.question)
    [] item.kind = "command_end" -> CommandEnd(s, item.question)
    [] OTHER -> s

(***************************************************************************)
(* Output behind an answer.                                                *)
(***************************************************************************)
RestingPrompt(s) == ~s.alt /\ s.shape = "Prompt"

\* No line typed at an integrated prompt is under the cursor.
Harmless(line) ==
  integrated /\ line \in Questions /\ place[line] = "prompt" => MidLine

\* Deliberate fault: what was held is shown, and the state is told nothing.
Freed_Unrecorded(s) == s
\* What is held is released: recorded in one piece, as output of this moment.
Freed(s) ==
  IF answer.held = <<>> THEN s ELSE RecordOutput(s, answer.held[1])

Releases ==
  /\ answer' = [NoAnswer EXCEPT !.lost = answer.lost /\ answer.held = <<>>]
  /\ silence' = IF answer.held = <<>> THEN silence ELSE 0

\* The answer to a question sent earlier begins: at once, after the rest of a
\* read, or with its first text when others were before it.  It holds output
\* unless its command still runs or a prompt rests on the screen.  What was held
\* behind one before it is dropped.
AnswerBegins ==
  /\ \E i \in DOMAIN session.fired :
       LET holds == ~session.fired[i].still_running /\ ~RestingPrompt(session)
       IN /\ answer.holding => i > 1
          /\ holds => Harmless(session.line)
          /\ answer' = [holding |-> holds, held |-> <<>>,
                        lost |-> answer.lost \/ answer.held # <<>>]
  /\ UNCHANGED <<session, integrated, silence, pty, typed, entered, shell, place,
                 accepted>>

\* It ends, fails, or is stopped by a Ctrl+C that koshell keeps to itself.
AnswerEnds ==
  /\ answer.holding
  /\ session' = Polled(Freed(session))
  /\ Releases
  /\ UNCHANGED <<integrated, pty, typed, entered, shell, place, accepted>>

(***************************************************************************)
(* The processor: one message, then the poll.  (A read that holds several  *)
(* items is several steps here: no deadline falls between two items        *)
(* handled at one instant, so the polls in between change nothing.)        *)
(***************************************************************************)
\* Output, read while an answer holds the terminal or not.
TakeOutput(item) ==
  \/ /\ answer.holding
     /\ answer' = [answer EXCEPT !.held = <<item>>]
     /\ session' = Polled(session)
  \/ \* Read through, or with what is held at its size limit.
     /\ answer.holding => Harmless(item.line)
     /\ answer' = [NoAnswer EXCEPT !.holding = answer.holding]
     /\ session' = Polled(RecordOutput(session, item))

TakePty ==
  /\ pty # <<>>
  /\ IF Head(pty).kind = "output"
     THEN TakeOutput(Head(pty)) /\ silence' = 0
     ELSE session' = Polled(Handled(session, Head(pty))) /\ UNCHANGED hold
  /\ pty' = Tail(pty)
  /\ UNCHANGED <<integrated, typed, entered, shell, place, accepted>>

\* A tick while something is pending (silence before a question is submitted
\* never counts).  The processor wakes when a deadline has come.
TimePasses ==
  LET Aged(p) == [p EXCEPT !.age = Lesser(@ + 1, Horizon)]
      later == [session EXCEPT
                 !.quiet = Lesser(@ + 1, Horizon),
                 !.pending = [i \in DOMAIN @ |-> Aged(@[i])]]
  IN /\ session.pending # <<>>
     /\ session' = IF DeadlineReached(later) THEN Polled(later) ELSE later
     /\ silence' = Lesser(silence + 1, Horizon)
     /\ UNCHANGED <<integrated, answer, pty, typed, entered, shell, place, accepted>>

\* koshell's own output and a resize repaint the mirror: neither is output of
\* the program, so neither counts as noise.
Repaint ==
  \E line \in {session.line, NoQuestion}, shape \in Shapes :
    /\ session.alt => shape = session.shape
    /\ session' = Polled([session EXCEPT !.line = line, !.shape = shape])
    /\ UNCHANGED <<integrated, hold, pty, typed, entered, shell, place, accepted>>

\* Enter: seen by the processor at once, by the shell or program later.
PressEnter ==
  /\ Len(entered) < 1
  /\ session' = Polled(CaptureSubmittedLine(session))
  /\ entered' = Append(entered, typed)
  /\ typed' = NoQuestion
  /\ UNCHANGED <<integrated, hold, pty, shell, place, accepted>>

\* Ctrl+C that is forwarded discards the line being typed and withdraws pending
\* questions and the answer.
PressInterrupt ==
  /\ session' = Polled(IF session.alt THEN session ELSE Freed(Interrupted(session)))
  /\ IF session.alt THEN UNCHANGED hold ELSE Releases
  /\ typed' = NoQuestion
  /\ UNCHANGED <<integrated, pty, entered, shell, place, accepted>>

(***************************************************************************)
(* The environment: the user's typing, the shell and its hooks, programs.  *)
(***************************************************************************)
CanWrite == Len(pty) < MaxPty

\* Whether the programs are on the alternate screen, as far as was read.
OnAlt == IF answer.held = <<>> THEN session.alt ELSE answer.held[1].alt

Prompt == Output(NoQuestion, "Prompt", FALSE)
NewLine == Output(NoQuestion, "Other", OnAlt)
Markers(items) == IF integrated THEN items ELSE <<>>

\* A line with a question is typed and echoed, at the prompt or to a program.
Type(q) ==
  /\ CanWrite
  /\ place[q] = "unused" /\ typed = NoQuestion /\ entered = <<>>
  /\ typed' = q
  /\ place' = [place EXCEPT ![q] = IF shell.running THEN "program" ELSE "prompt"]
  /\ pty' = Append(pty, Output(q, "Other", OnAlt))
  /\ UNCHANGED <<session, integrated, hold, entered, shell, accepted>>

\* The line editor's Enter may choose, not submit: a history finder shows a
\* line with a question the user is only looking at.  (Only with the hooks:
\* without them the screen is all koshell has, and it would be asked each time.)
EditorKeepsLine ==
  /\ integrated
  /\ CanWrite
  /\ ~shell.running /\ entered # <<>>
  /\ entered' = Tail(entered)
  /\ typed' = Head(entered)
  /\ pty' = Append(pty, Output(Head(entered), "Other", FALSE))
  /\ UNCHANGED <<session, integrated, hold, shell, place, accepted>>

\* The lines accepted with this one, which only the hooks tell.
Accepting(line) ==
  IF integrated THEN accepted \cup ({line} \ {NoQuestion}) ELSE accepted

\* The shell runs a line: the start hook reports it.
ShellRuns ==
  /\ CanWrite
  /\ ~shell.running /\ entered # <<>>
  /\ \E marks \in Markings :
       /\ shell' = [running |-> TRUE, marks |-> marks,
                   question |-> IF marks = "both" THEN Head(entered) ELSE NoQuestion]
       /\ pty' = pty \o <<NewLine>> \o
            Markers(CASE marks = "both" -> <<Start(Head(entered))>>
                      [] marks = "start" -> <<Start(NoQuestion)>>
                      [] marks = "none" -> <<>>)
  /\ entered' = Tail(entered)
  /\ accepted' = Accepting(Head(entered))
  /\ UNCHANGED <<session, integrated, hold, typed, place>>

\* A line that is only a comment runs nothing: the hooks report it at the next
\* prompt with a synthetic pair of markers.
ShellSkipsComment ==
  /\ CanWrite
  /\ ~shell.running /\ entered # <<>> /\ Head(entered) # NoQuestion
  /\ pty' = pty \o <<NewLine>>
       \o Markers(<<Start(Head(entered)), End(Head(entered))>>) \o <<Prompt>>
  /\ entered' = Tail(entered)
  /\ accepted' = Accepting(Head(entered))
  /\ UNCHANGED <<session, integrated, hold, typed, shell, place>>

ProgramWrites ==
  /\ CanWrite
  /\ shell.running
  /\ \E shape \in Shapes, alt \in BOOLEAN :
       /\ alt => shape = "Other"  \* the shape of a full screen is never asked for
       /\ pty' = Append(pty, Output(NoQuestion, shape, alt))
  /\ UNCHANGED <<session, integrated, hold, typed, entered, shell, place, accepted>>

ProgramReads ==
  /\ CanWrite
  /\ shell.running /\ entered # <<>>
  /\ entered' = Tail(entered)
  /\ pty' = Append(pty, NewLine)
  /\ UNCHANGED <<session, integrated, hold, typed, shell, place, accepted>>

\* The command ends, by itself or by a signal: the end hook, then the prompt.
CommandReturns ==
  /\ CanWrite
  /\ shell.running
  /\ TypeAhead \/ (typed = NoQuestion /\ entered = <<>>)
  /\ pty' = pty \o Markers(IF shell.marks = "both"
                           THEN <<End(shell.question)>> ELSE <<>>) \o <<Prompt>>
  /\ shell' = AtPrompt
  /\ UNCHANGED <<session, integrated, hold, typed, entered, place, accepted>>

Next ==
  \/ TakePty
  \/ AnswerBegins
  \/ AnswerEnds
  \/ TimePasses
  \/ Repaint
  \/ PressEnter
  \/ PressInterrupt
  \/ \E q \in Questions : Type(q)
  \/ EditorKeepsLine
  \/ ShellRuns
  \/ ShellSkipsComment
  \/ ProgramWrites
  \/ ProgramReads
  \/ CommandReturns

\* Time goes on whatever the terminal does: recv_timeout wakes the processor.
Fairness == WF_vars(TimePasses)

Spec == Init /\ [][Next]_vars /\ Fairness

(***************************************************************************)
(* Properties.                                                             *)
(***************************************************************************)
Pending(s) == {s.pending[i].question : i \in DOMAIN s.pending}

Fires(q) == {i \in DOMAIN session.fired : session.fired[i].question = q}

\* With the hooks, a question is settled once: it is not sent twice (once when
\* output settled, again from the text of the end marker), and after the notice
\* that it was cancelled it is never sent.  (Without them the screen is all
\* there is, and a line shown twice is read twice.)
SettledOnce ==
  integrated =>
    \A q \in Questions :
      /\ \A i, j \in Fires(q) : i = j
      /\ Fires(q) = {} \/ q \notin session.cancelled \cup Pending(session)

\* What a test of the end marker says of a question that fired when output
\* settled: command_end must not fire it again (pending_trigger_pty.rs 202).
\* Part of SettledOnce; false when bash reports a line's start and not its end.
EndNeverRefires ==
  \A i, j \in DOMAIN session.fired :
    /\ i < j
    /\ session.fired[i].question = session.fired[j].question
    => session.fired[j].completion # "CommandEnd"

\* In an integrated shell nothing is pending at the prompt: a question, of the
\* line or of a program it runs, never outlives its command span, so that
\* still_running tells the truth and no later command inherits the question.
SpanOwnsPending ==
  integrated /\ session.pending # <<>> => session.command_active

\* Text that is merely shown at an integrated prompt is no question: what fires
\* from a line typed at the prompt is on a line the shell really accepted.
PromptQuestionsAreAccepted ==
  integrated =>
    \A i \in DOMAIN session.fired :
      LET q == session.fired[i].question
      IN place[q] = "prompt" => q \in accepted

\* A question is of a line really accepted and is settled once.
QuestionsSound == TypeOK /\ SettledOnce /\ PromptQuestionsAreAccepted

\* Settled output is a fact about the program's reaction: a question fires as
\* stabilized only in a step that neither submits it nor brings output, and the
\* quiet time it is judged by is silence of the terminal.  Excused: what it says
\* of quiet time while some output is excused.
SettlesInSilence(excused) ==
  \A i \in Len(session.fired) + 1 .. Len(session'.fired) :
    session'.fired[i].completion = "Stabilized" =>
      /\ session'.fired[i].question \in Pending(session)
      /\ session'.quiet > 0
      /\ session'.quiet <= silence' \/ excused

\* Output that was held back behind an answer, and is or was kept from the state.
Unheard == answer.held # <<>> \/ answer.lost

SettlingNeedsSilence == [][SettlesInSilence(Unheard')]_vars

\* trigger.rs 427: "Output arrival resets the quiescence clock that stabilization
\* firing debounces on."  Not output behind an answer (MCSessionTrigger_HeldNoise).
SettlingNeedsRealSilence == [][SettlesInSilence(FALSE)]_vars

\* Questions asked in one place fire in the order they were asked.
AskedInOrder ==
  [][\A i, j \in DOMAIN session.pending :
       LET earlier == session.pending[i]
           later == session.pending[j]
       IN i < j /\ earlier.origin = later.origin
            /\ earlier.question # later.question
          => \A n \in DOMAIN session'.fired \ DOMAIN session.fired :
               session'.fired[n].question = later.question =>
                 \E m \in DOMAIN session'.fired :
                   m < n /\ session'.fired[m].question = earlier.question]_vars

\* Questions fire on silence that is theirs, and in their order.
FiringSound == SettlingNeedsSilence /\ AskedInOrder

\* A pending question is never silently lost: it fires or is cancelled even if
\* output never goes quiet, unless a full-screen program takes the screen.
PendingSettles ==
  \A q \in Questions :
    q \in Pending(session) ~> (q \notin Pending(session) \/ session.alt)
=============================================================================
