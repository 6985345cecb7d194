# A verification of koshell

koshell wraps a shell in a terminal of its own: a Rust process (the *terminal*,
`crates/koshell-rs`) sits between the user's terminal emulator and a PTY, finds
questions the user types as `#? ...`, and sends each with a context package over
a Unix socket to a Bun process (the *daemon*, `packages/ai-daemon`), which runs
an agent and streams the answer back, to be rendered among the output of the
user's programs. This directory holds TLA+ modules that model the parts of the
two processes in which order, concurrency and failure matter, TLC configurations
that check them, and proofs for TLAPS.

Source paths below are relative to the repository; `koshell-rs` stands for
`crates/koshell-rs/src` and `daemon` for `packages/ai-daemon/src`.

## 1. The system

### Components

| component | state | operations | what makes it correct | module |
|---|---|---|---|---|
| tool bridge, `daemon/tool-bridge.ts` | open request window, pending calls, timers, abort listeners, two budgets, call id counter | begin, end, call, settle, timeout, abort, dispose | each call settles once, from an answer to its own request; map, timers and listeners in step; budgets exact | ToolBridge |
| terminal connection, `daemon/server.ts` class `TerminalConnection` | hello gate, promise chain, memoized conversation, cancelled set, running request, cached model, closed | every message of the protocol, dispose, reload, setModel | one terminal marker per request, in order; one conversation; nothing runs after it was withdrawn | TerminalConnection, AnswerService |
| agent runtime, `daemon/agent-runtime.ts` | the conversation | build, ask, abort, setModel, dispose | turns one at a time; disposed exactly once | TerminalConnection |
| presentation, `koshell-rs/presentation.rs` | active response with held output, aborted and dispatched sets | dispatched, delta, tool activity, end, error, pty output, Ctrl+C, deadlines, notices | all output of programs shown once, in order; answers labelled and complete; an interrupt silences | Presentation |
| session loop and its threads, `koshell-rs/session.rs` | message channel, interrupt window atomic, daemon connection, sizes | one handler per message, forwarding keys, resizing, the joins at the end | no key or output lost between threads; the end is complete | SessionThreads, Presentation, SessionTrigger |
| question detection, `koshell-rs/trigger.rs` | pending questions, command span, quiet time | capture at Enter, markers, poll, interrupt | a question is sent once, and only if it was really asked; none is forgotten | SessionTrigger |
| shell hooks, marker scanner, `koshell-rs/shell_integration.rs` | partial marker | feed; the bash and zsh hooks | output passes unchanged; markers in step with commands | MarkerScanner, SessionTrigger |
| command history, `koshell-rs/command_history.rs`, `command_tools.rs` | completed commands and their output, active span | begin, record, end, clear, abandon, read | bounded memory with exact accounting; pages never shift | CommandHistory |
| timeline, context and diffs, `koshell-rs/timeline.rs`, `context.rs`, `screen_diff.rs` | bounded list of entries, base of the next diff | record, compact, maintain, clear, build the context | what a question is told does not depend on what was forgotten; diffs are true | Timeline, ScreenDiff |
| reaching the daemon, `koshell-rs/daemon_spawn.rs`, `ipc.rs`, dispatch in `session.rs` | connection, spawn cooldown | connect, spawn, send, retry once | a question reaches one daemon, once, and its user is told the truth | DaemonLifecycle |
| daemon lifecycle, `daemon/index.ts`, `lifecycle.ts` | socket file, idle timer | probe, unlink, bind, idle exit, stop | one daemon per socket; none stays for ever, none leaves a terminal behind | DaemonLifecycle |
| starting koshell, `koshell-rs/shell.rs`, `shell_init.rs`, `main.rs`, the start of `session.rs` | the brand in the environment, marker and version files | snippet, preflight, guard, the steps up to raw mode, fail open | a terminal is wrapped once and never left without a shell | NestingGuard |
| commands to the daemon, `koshell-rs/model_cli.rs`, `reload_cli.rs`, `status_cli.rs`, `auth_cli.rs` | picker, what the command waits for | request, ack, result, prompt, time limits, Ctrl+C | told the truth; never waits for nothing | Control |
| registry and model configuration, `daemon/server.ts`, `model-service.ts` | sessions, per-connection queues, `koshell.toml` and its lock | register, unregister, model_set, reload | file and sessions agree, also after a failure | Control |
| login, `daemon/auth-flow.ts` | one flow per connection | prompts, answers, abort, timeout | every prompt settles; the outcome told is what was stored | Control |

The protocol (`crates/koshell-proto`, `daemon/protocol.ts`) appears as the
messages of these modules. Web search, prompt text, logging and the frozen
prototype under `reference/` have no protocol of their own and are not modelled.

### How they interact

* stdin thread → processor: `Msg::Input` and `Msg::Interrupt` over an mpsc
  channel, *before* the byte is written to the PTY (`session.rs` 486–510); the
  processor → stdin thread: the `interrupt_window` atomic, refreshed after each
  message. This is shared state read stale.
* PTY reader → processor: `Msg::Output`. The scanner splits it into output and
  markers; both feed question detection, output then goes to presentation.
* question detection → processor: actions (fire, cancel notice, receipt), from
  messages and from deadlines that bound the channel's `recv_timeout`.
* processor → daemon: `ai_request`, `ai_cancel`, `conversation_reset`,
  `tool_response` on the socket; daemon → reader thread → processor: deltas, tool
  activity, tool calls, ends and errors. Either end may go away at any time.
* in the daemon everything is one event loop; work on the conversation is
  serialized by a promise chain, but messages are handled between any two awaits.
* koshell processes and shells of one user meet only in files and environment:
  the daemon's socket, the marker and version file of each terminal,
  `koshell.toml` under a lock file, the variable `KOSHELL`.

### What is hard

Keys overtake the output and markers they caused. An atomic is read before the
message it reflects is handled. Every `await` in the connection's `run` may
resume in another world: withdrawn, torn down, disconnected. A parked tool call
can be settled by five parties. Markers may be missing, alone, or synthetic.
Held output has five ways out. A dead daemon is noticed only on the next send.
Probe, unlink and bind are separate; a file is read while another process removes
it; a terminal's number and a process id are given out again. Retention removes
entries other entries refer to. A write under a lock is undone after a failure
that came later.
The hazards are listed with their lines in `PROJECT.json`.

## 2. The modules

### ToolBridge

Class `ToolBridge`: one action per JavaScript callback. `pending`, `timers` and
`listeners` are separate variables because the code keeps them in step by hand.
`call` is `Call` and, when it fails without a message, the guards in its budget
checks; `settle` is split into the answers it accepts and those it ignores;
`EarlierRequests` stands for answers made for an earlier connection of the same
terminal, whose call ids overlap, which the terminal may really send
(`serve_tool_call` answers on whatever connection is held). `caller`, `outcome`,
`answers`, `size`, `begun` are history. The content of an answer is its length.

### TerminalConnection (with ToolBridge) and AnswerService

Class `TerminalConnection`. `tasks` is the promise chain, whole, with `done`
tasks of it settled; `stage` says which await the task under way is suspended
at (`building`: the conversation, `asking`: the turn, `switching`: setModel).
Messages are actions enabled at every stage. `agentState` follows each
conversation ever built; `doomed` are conversations disposed of while still being
built. The connection shares its variables with an instance of `ToolBridge` and
composes its actions: a window opens and closes with `run`, a turn ends by itself
only when it waits for no tool call, `dispose` disposes of the bridge.

A turn can be aborted while no window is open, since a switch of the agent waits on
the same conversation: `AbortTurn` of ToolBridge allows for it.

`AnswerService` states the contract of that component: accepted requests are told
one end each, in the order asked, until one side hangs up. It knows what was
asked, which of two was asked earlier, and what was told. `AnswersInOrder` is its
specification under a refinement mapping (`asked` is the run tasks of the chain,
`earlier` their order in it, `told` those that have their marker), checked as a
temporal property with its liveness: a queued request is answered even if the
terminal answers no tool call. Its safety part is also proved (section 5).

### Presentation

Struct `Presentation` and the two threads that meet it. One action per message
of the processor, each ending with `EndTurn`, the end of the loop body: the stall
or receipt notice that is due, and the refresh of `window`. Output is a sequence
of effects (an echo, lines, entering the alternate screen); `screen` is whose
labelled block is last, whether a notice came since (`seam`), and whether the row
above the live region reads like the anchored answer's tail (`tail`). That text is all
`anchored_delta` compares, so a program's last row may read the same, both blank for
instance: the effect `lines` chooses. The answer then goes on under the program's
output; `NeverInterleaved` excuses exactly that (`Lookalike`), the strict
`NeverUnderOutput` is finding 9. A notice is taken not to read like it. `sent`, `text`,
`produced`, `shown`, `claimed` are history. The daemon is reduced to the queue of
requests it owes an end; what it may send is what TerminalConnection shows it
sends. `DaemonDies` loses the queue: the reader thread ends without a word.
`overtaken` is history too: a dispatch took the request in flight while an earlier
one, whose answer had not begun, waited at the daemon (`note_dispatch` looks only at
`active`). What the code promises of held output is false from there on (finding 2),
so `OutputInOrder` is stated until then; everything else also holds after it.

### SessionTrigger

`SessionState` of `trigger.rs` as a record, its handlers as functions of it, and
the processor's step: a message, then `Polled`. Around it the environment: the
shell with its hooks (with and without integration), programs that write, read
lines and use the alternate screen, and a user who types, presses Enter and
Ctrl+C. `pty` and `entered` are the two directions of the PTY, so that keys
overtake markers. Silence is counted in ticks: `quiet` for the last output and an
`age` for each question; the code's `quiet_from` is the smaller of the two.

An answer that streams at the bottom holds output back (`presentation.rs` 601-619):
what it holds reaches neither the mirror nor the quiet time until it is released, in
one piece; the markers in it are handled at once. `answer` is that much of the
presentation: whether one holds, the last item held (recording overwrites what the
earlier ones did to the line and its shape), and whether held output was dropped with
its answer (`lost`, finding 2). An answer may begin at any time after its question was
sent, and again, which stands for all that queue; it ends, or reaches the size limit, at any
time. So `silence`, history, counts from the last output *read*, and `FiringSound` says
how it relates to the quiet time the code judges by: the same, unless output behind an
answer is unheard. Without that exception it is finding 15. `MidLine` says whether an
answer may begin to hold, or let some output through, over a line typed at a prompt:
section 7.

`marks` models what koshell sees for a line: both markers; none, when the line
carries a control character that makes the payload invalid JSON; a start alone
when bash keeps the line out of its history.

### CommandHistory

Struct `CommandHistory`: one action per operation, `Read` for the agent's tool.
A character is reduced to where it stands (its command, its place, its bytes),
so that what a page holds can be compared with what the command wrote. `Reclaimed`
is `trim_to`, `reclaim_prefix` and `reclaim_all`, which do the same to the buffer;
`Capped` is the loop of `enforce_total_cap`, as a function of the row it has
reached. A chunk of the PTY is the text it completes and whether it ends within a
character. `begun` and `answer` are history.

### ScreenDiff and Timeline

`ScreenDiff` is the diff of two screens: `EditScript` is any shortest script the
library may return (it is chosen, not computed as Myers does), `Step` and `Flush`
are `HunkBuilder`. `Timeline` is `InMemoryTimelineStore` with the handlers of
`trigger.rs` that feed it, one action each; `Compact` is the backward loop over
the entries as a fold, with the budgets and the newest kept snapshot as its
accumulator. A text is its length and where its characters came from, so that
contexts can be compared. `Context` is `build_terminal_context`. The wall clock
may be set back, the monotonic one not. `log` is history: what a store that
never forgets would hold. `CoarseHistoryRemains` is the one promise the code does
not keep (section 6).

### MarkerScanner and SessionThreads

`MarkerScanner` is `feed` over single bytes: a prefix of three stands for
`ESC ] 777 ; koshell ;`, the properties of it that matter (it has proper
prefixes, and may be cut anywhere) being kept; `Whole` is the reference: the
stream taken byte by byte with no cap. `SessionThreads` runs the scanner in the
session: the reader thread takes any part of what the PTY has, the stdin thread
cuts the keys into chunks and splits them at a Ctrl+C (`todo` is the rest of its
loop body, one step each), the signals thread reads the size and sends it in two
steps, the processor has one action per message, and the main thread's reap and
joins end it. The main thread registers the signals last (`Register`): a resize before
that is lost (`unseen`, finding 11). Where a marker outgrows the cap, what is shown is
still the whole stream in place (`Restored`), though which markers in it count depends
on the reads. The answer is reduced to none, on, over: Presentation has the rest.

### DaemonLifecycle

Daemon processes by the step they are at (`probe`, `unlink`, `bind`, `raced`,
`bound`, `up`, `closing`, `dead`), each system call on the socket path an action;
terminals by where they are in `dispatch_trigger` and `send_request`, each write
an action; connections with what was written and read. `conns` keeps them all, so
that nothing is confused with what replaced it. `koshell daemon` stop, restart,
status and start are the actions `Cli*`. `robbed` is history: whose running
daemon's file was unlinked by whom.

### NestingGuard

Processes (shells and koshells) with the phase each is at, the master of every
pts, the two files per terminal. Process ids and terminals are given out again as
the kernel does: an id as soon as no process has it, one that a file names too
(`NewPid`, `GivenOut`), a terminal as soon as nobody has it open. The processes are
those of one user, since `kill(pid, 0)` reads an id of another user as dead. Every read of the guard, in the snippet,
in preflight and in the session's start, is a step of its own, and so is each
write and removal. SIGKILL and a closed terminal may come between any two.
The properties need two exceptions: `early`, terminals released before their marker, and
`leaked`, those whose marker names an id that was given out again: whoever has it
then passes for the owner. What goes wrong there are findings 12 to 14. An orphan
keeps the id of its dead parent out of use, where the code would see init's. `left` holds the
bounds.

### Control

A command is a process with an inbox and an outbox; `task` is what the daemon does
for it; `conn` are the connections of terminals with their queues, `registry`
routes a session id to one. `Update` and `Settle` are `updateDefaultModel`: under
the lock the file is read, patched and replaced, the switch queued behind the
answers of the connection, and the old bytes put back when it fails. The
retries for the lock end in `LockBusy`. An answer is an operation that takes time; what
it says is left to the other modules. The login's provider is whoever asks
`MaxPrompts` questions. `expected` and `excused` are history: `excused` marks a
replacement whose directory sync failed after the rename (the command fails, the
new file stays), a rollback that failed, and an edit by hand under the lock,
which a rollback undoes. `unsettled`, history too, is the model of a set in whose middle
the daemon died: it stays in the file, and nobody was told. A question whose
answer is withdrawn ends the login, except a selection, which may go on with none
(`AfterNull`).

### Proof modules

`ToolBridgeProofs`, `TerminalConnectionProofs` (which instantiates the former),
`PresentationProofs`, `SessionTriggerProofs`, `CommandHistoryProofs`,
`DaemonLifecycleProofs`, `NestingGuardProofs`, `ControlProofs`: section 5. The `MC*`
modules only give values to constants.

## 3. The runs

| run | shows |
|---|---|
| `tool_bridge` | registry coherent and waiting calls only in an open window (`BridgeSound`), answers genuine, both budgets exact (`BudgetsExact`), every call settles |
| `terminal_connection` | one conversation, stable under its users, the tool window the span of `run`, a consistent status snapshot (`ConversationSound`); one marker per request and none prompted once withdrawn (`RequestsAccounted`); the answer service is implemented |
| `presentation` | output in order, held output never silent (`OutputSound`); finished answers complete; each Ctrl+C accounted for and bookkeeping only about what is owed (`InterruptsSound`); answer text only in its own block (or under a row that reads like its tail), an interrupt silences (`TextKeepsItsPlace`); held output is released |
| `session_trigger` | a question is settled once and only accepted lines are asked (`QuestionsSound`); spans own what is pending; stabilization means silence after the question, but for output held behind an answer; order of asking (`FiringSound`); every pending question fires or is cancelled |
| `command_history` | kept output is the exact tail, its gap stated truly; both caps hold (`StoreSound`); pages are what their offsets name; the newest output survives, and no more is lost than the cap asks |
| `timeline` | a question's context is what a store that forgets nothing would give, and says when it was cut; reported diffs are true also when their base is gone; the store stays bounded, in silence and with the clock set back |
| `lifecycle` | starts converge on one daemon (`InstanceSound`); the idle timer runs exactly without terminals; a question reaches at most one daemon, once, and its user is told the truth (`TerminalsToldTruth`); daemons without terminals go away |
| `nesting` | a terminal is wrapped once, not again inside a live koshell and not left out because of a dead one, unless its marker's id is another's by now (`WrappedOnce`); what `version`, `new` and `clear` believe is true; a terminal keeps a shell; no loop of refusals and fallbacks |
| `session_threads` | however the stream is cut, users see the bytes and the state the markers of the whole; keys reach the child once, in order, and are known before their echo (`KeysFaithful`); sizes settle, once the signal is registered; the session ends, complete |
| `control` | commands are routed to the newest connection of their terminal (`RoutingSound`); `koshell.toml` is the last successful change, or the one a crash cut short; results are true; no command waits for nothing; an answer keeps the model it started with |
| `end_refires`, `output_overtaken` | two disagreements between a test or comment and the code (section 6): TLC finds the behaviour |

Several related invariants are checked under one name, as conjunctions
(`BridgeSound`, `ConversationSound` and so on); the parts keep their own names and
comments in the modules. Fourteen more configurations are kept beside the runs:
`*_Discarded`, `*_KeepsInterrupt`, `*_HeldSurvives`, `*_Resumption`, `*_Lookalike`,
`*_Race`, `MCTimeline_History`, `*_CrashedSet`, `*_EarlyResize`, `*_ReusedPid`,
`*_ReusedVersion`, `*_ExecRecovers`, `*_HeldNoise` and `*_MidLine`. Each checks one
statement without the exception the code needs, and TLC finds it violated (section 6;
`*_MidLine`: section 7).

Each property of a passing run has a *deliberate fault* beside the definition
it breaks: the mutated operator, named after what is wrong with it, is what a
plausible bug in that code would look like, and TLC finds the property violated
with it. So the properties are about the code and not about the model's shape.

### Bounds

* `tool_bridge`: two questions, three call ids, two calls each (so that the call
  budget can run out, a window be reused, and ids of both windows coexist);
  result sizes 1 and 3 against a budget of 4: fits, fills, exceeds. One foreign
  request id is enough, since the code only compares for equality.
* `terminal_connection`: two requests, two conversations, one of reset, switch
  and reload. Two requests give every position of a request relative to a control
  task and a failed build; the ids of the bridge's foreign answers are covered
  in its own run, so there are none here.
* `presentation`: two requests, two pieces of output against a fuse of two, two
  deltas (of one answer or one of each), one notice, one Ctrl+C and at most one
  dead daemon. A second request is needed because the defects live between an
  answer and the next; two pieces of output make order visible and fill the fuse.
  One request can overtake another only among three, which is what
  `output_overtaken` shows with one piece of output and one delta. The passing run
  stays at two (a third takes it from 0.4 to more than a million states, with half
  the deltas); its safety properties are proved for any number.
* `session_trigger`: two questions, deadlines in ticks in the order of the code's
  (in a program before at the prompt, prompt-shaped before other, every tier
  before the bounded wait). The shell writes when its queue is empty
  (`MaxPty = 1`) but up to four items at a time, which gives the orders of
  markers, output and keys; one line may be entered and unread. Ages saturate
  at the longest deadline, after which they make no difference. Both
  `integrated` values are initial. `TypeAhead = FALSE`: a line typed at a program
  is read by it or discarded, never left to the shell; with it, a question typed
  into a program and executed by the shell afterwards is two questions, by
  design. `IgnoresRepeats = FALSE` in the passing run and TRUE in `end_refires`:
  it is the cause of that finding. `MidLine = FALSE`: section 7; TRUE in
  `*_MidLine`. The bounded waits are two ticks, as long as the longest tier.

* `command_history`: three commands against two rows, so that one is dropped and
  the ids of dropped, cleared and discarded commands are asked for; five bytes of
  output per command against a cap of four and six in all, so that the command's
  cap, then the session's, then both reclaim; texts of one character of one byte
  and of two, one of them of three bytes, so that a cap falls within a character;
  page sizes one and one that is clamped to two.

* `timeline`: four entries, two age bands, budgets an entry straddles (a text of
  two against a budget of two, screens of two and three lines against four),
  compaction at every third entry and an idle pass every tick, so that each of the
  two triggers, the budgets, the bands and the horizon apply within a run; two
  screens that share a line, one of them the alternate one. `MCTimeline_History`:
  one screen repainted, two bands, the second twenty ticks long with a spacing of
  four against maintenance every two ticks: the relation of the code's 5-minute
  and longer spacings to its 60 s of maintenance.
* `lifecycle`: two daemons (one to start against the other), one terminal with two
  questions, three connections, a crash, one `koshell daemon` command. The race
  of two starting daemons needs one terminal and one command, both of which spawn.
* `nesting`: two terminals and three processes, enough for a koshell, the shell in
  it and a third that starts beside or inside; terminals, and ids no file names, are
  reused any number of times, so this instance is not bounded in length. A behaviour
  has either one reuse of an id that a file names, or starts whose steps fail (`OneOf`):
  with both (`Both`, as beside the run) the instance has 15,008,961 states and was
  checked once, without an error. Behaviours end where every id is named by a file.
* `session_threads`: five scenarios, each with the output hardest to take apart (a
  marker cut anywhere, a start of one before another, one spoilt by it, one over
  the cap), keys around a Ctrl+C, two resizes; two messages in the channel.
* `control`: two commands. Three initial bounds split what interacts: terminals
  that reconnect while models are set and reloads made; edits by hand and a crash;
  and logins with the picker, which share no state with terminals. Two models,
  one row to show them in.

Deadlock is checked for `session_trigger`, whose environment always has a step,
and for `session_threads`, where it says that no thread waits for ever: with no
program left the session ends. In the others the finite numbers of questions, notices and keys run out, which is
where a session of that size stops.

## 4. Fairness and liveness

* ToolBridge: weak fairness of each armed timer. Node timers fire.
* TerminalConnection: weak fairness of the chain's continuations (microtasks of
  a live event loop), of settling `createAgent`, the turn and `setModel`, and of
  tool timeouts. The turn's end is assumed only while no tool call is
  outstanding; that a turn with outstanding calls gets there is what the bridge
  shows. Nothing is assumed of the terminal.
* Presentation: the daemon ends what it owes unless it dies (that is
  `AnswersInOrder`), and the processor drains its channel.
* SessionTrigger: time passes while something is pending, whatever else happens.
  Nothing is assumed of the shell, the programs or the user.
* DaemonLifecycle: weak fairness of each daemon's event loop and timers and of a
  terminal's dispatch, which is a loop of two attempts. Nothing is assumed of
  users and commands; `DaemonsDrain` follows from the idle timer.
* The other modules state no liveness. That a session ends (SessionThreads) is the
  absence of deadlock together with the fact that every step uses up a finite
  script, and `NobodyWaitsForNothing` (Control) is the safety part of it: whoever
  waits has something under way for it.

## 5. What is proved

With the proof system, for all values of the constants that the named
assumptions allow:

* `ToolBridgeProofs` (assumptions `RequestsAssumption`, `BoundsAssumption`):
  `BridgeSound` (type correctness, `RegistryCoherent`, `WaitingBelongsToActive`),
  `AnswersAreGenuine`, and both budgets (`BudgetsExact`). The inductive invariant adds what makes
  these stable: a waiting call has an id below `nextCallId`, its caller is the open
  window's request, which has begun and is not aborted, and ids not yet handed out
  are untouched; the call budget needs that the calls of a closed window stay at
  the number they had when it closed, and that a request has one window. The
  characters are a sum over the answered calls, written as a recursive function of
  the number of terms. That such a function exists, and what it is when one term
  changes (`TotalChanges`) or none is there (`TotalNothing`), is shown without
  induction over the terms: `Counting` derives it from the least number not counted,
  which well-foundedness of strict inclusion gives (`LeastExists`). A call without a result returned no
  character (`CharacterInv`), so an answer is added once, to the window it belongs to.
* `PresentationProofs` (`FuseAssumption`, `NoResponseAssumption`: the value that says
  that nothing is in flight is not a response): all four safety properties of the run,
  for any number of questions, any fuse and any bounds. `Books` relates the daemon's
  queue, the response in flight and the history of each request: the queue lists
  unfinished requests, once each; one that was interrupted and is still in it is in
  `aborted`; what was received of a request is on the screen, or is what the
  response in flight accumulated for it; only the oldest request has accumulated
  anything. Its last part, `Ordered`, is why held output is not lost: everything
  queued before the request in flight has been aborted, so a delta that is not
  dropped is for the response in flight (`InTurn`). It is the part that fails when a
  dispatch overtakes a waiting request, and looking for it is how finding 2 was
  met. `Marked` (a streaming answer that has begun owns the block on top, or will be
  labelled anew) gives `TextKeepsItsPlace`, together with the fact that text only
  moves for the head of the queue, which is not interrupted (`TextMoves`), and that a
  row which reads like the tail is the answer's own unless a program left it on top
  (`OwnTail`). The
  lemmas on `Books` have no primes; `TurnInv` reduces each turn of the processor to
  the response, screen and books it ends with.
* `SessionTriggerProofs` (`QuestionsAssumption`, `TimesAssumption`): the three
  invariants of the run and its action property. Two theorems have no further
  hypothesis: an integrated shell never has a question pending outside a command span,
  also when starts come without ends (`SpanAlwaysOwnsPending`), and a question sent as
  settled was pending before a silent step, and judged by a quiet time no longer than
  the terminal's silence unless output is unheard behind an answer
  (`SettlingAlwaysNeedsSilence`, from the invariant that says the same of every state).
  The other two (`QuestionsAlwaysSound`, `FiringAlwaysSound`) suppose the instance the
  run checks: `~IgnoresRepeats`, without which the first is false (finding 1, run
  `end_refires`); `~TypeAhead`, since a line typed while a program runs and read by the
  shell after it has, for koshell, no place of its own; and `~MidLine` (section 7,
  `MCSessionTrigger_MidLine.cfg`). The invariant ties the session to the stream it has
  not read: from the span the session is in, the markers open and close spans in turn
  and end at the shell's (`Stream`, `Owes`); a start marker follows the line that
  scrolled, once, and only for an accepted question not heard of (`Marked`); a line
  read off the screen is shown once (`Shown`); the line being typed belongs to whoever
  runs (`Typing`). So an end marker finds its question pending or settled, and its own
  text is never a second question. For the order of firing what is pending stands in
  the order of its ages (`Aging`). The loop of `poll` is described by the places that
  fire and those that wait on (`Splits`, `Parted`): that the description holds of every
  pass needs induction over a number, which `Counting` derives from the least number
  not counted, as `CommandHistoryProofs` does for the loop of `trim_to`.
* `CommandHistoryProofs` (`TextsAssumption`, `CapsAssumption`): all the safety
  properties of the run: type correctness and both caps (`StoreSound`), the accounting of
  every buffer, that pages are true, and `OldestFirst`. The accounting rests on
  `ReclaimedSound`: releasing *any* number of bytes leaves a sound buffer, no larger
  than it was, so how much `enforce_total_cap` asks each row for does not matter to
  it. The invariant adds that the characters kept are contiguous, from the last byte
  dropped to the last one written: the accounting alone does not say how many bytes a
  prefix occupies. That the loop of `trim_to` stops needs the least element of a set
  of naturals (`LeastExists`).
  The session's cap needs to know how much is asked. `Counting` makes the sum of the
  retained bytes and the loop of `enforce_total_cap` followable row by row (`IsSum`,
  `IsExcess`): what is over the cap after a row is what was over before it less what
  the row lost, and while anything is over, no row visited keeps a character
  (`NothingKept`). After the last row nothing is, because the running command alone
  fits the session (`CapReached`). For `OldestFirst` the row where the excess ran out
  lost the fewest characters that cover it (`ReclaimedLeast`), and that a row of the
  new store is the row of the old one under its id needs ids that rise (`IdsRise`).

* `DaemonLifecycleProofs` (`LifecycleAssumption`): `SingleInstance` and
  `IdleTimerExact`, for any number of daemons, terminals, connections, crashes and
  commands. Both are inductive once the variables are typed. The argument for the
  first is that a file is only ever removed by an action that records whom it
  robbed, and that `bind` needs the path to be free; for the second, that every
  action either leaves the accepted connections and the timer of a running daemon
  alone (`StepSound`) or is one of the three that count them (`Listening`,
  `Accept`, `Closed`), where the count is that of a finite set.

  Its second part (whose bounds are numbers, the third part of `LifecycleAssumption`):
  type correctness with `SingleInstance` (`InstanceSound`), and
  `TerminalsToldTruth`: a question is written to one daemon at most, once, after a
  hello, and "unavailable" is true, through the retry, a write cut in two, crashes
  and restarts. `Tidy` relates what was written on connections, what terminals hold,
  where each is in its dispatch and what its user was told: a question stands in one
  place at most and its user was told so (`Delivered`); a terminal that writes holds a
  connection that said hello, on its second attempt nothing but hello (`Stands`);
  no two share a connection or a question (`Apart`); what is open has a holder
  (`Opened`). Lemmas about these, without primes, are cited by each action's.

* `TerminalConnectionProofs` (`BridgeAssumption`, `AgentAssumption`,
  `ControlAssumption`): `ConversationSound`, `RequestsAccounted`, and two
  refinements.
  The invariant has five parts: the request at work is the first unsettled task of
  the chain, and a request has one task (`Chain`); no end before a request is seen, and then
  one (`Told`); what was withdrawn in time is remembered until its task settles, which
  `cancelled` alone does not say (`Withdrawals`); the conversation being built is the one
  awaited, and an open connection has no other alive (`Conversation`); the tool window is
  the running request's or nobody's (`Window`).
  `AnswersAlwaysInOrder`: every step of the connection is classified by what it
  does to the chain (`ChainStep`), and each class maps to a step of
  `AnswerService` or to a stutter. `BridgeUsedAsExpected`: every step is, on the
  variables of the bridge, a step of module ToolBridge: never two windows, none for a request
  twice, no call outside. So the theorems of `ToolBridgeProofs`, which are about the
  bridge with an arbitrary user, hold for the bridge inside the daemon
  (`BridgeSoundInUse`).

* `NestingGuardProofs` (`NestingAssumption`): all four properties of the run. The
  guard reads a marker, a process id in it and a brand in the environment, each of
  which somebody else may have left. The invariant says who holds a pts
  (`MasterSound`), whose process id a file may name (`FilesSound`), that a process on the pts
  of a koshell was branded by it (`Branded`), and that every process on a terminal hangs
  from a shell at its prompt there or from the koshell that serves it (`Parented`), so that nobody
  is left on a terminal that is free to be reused. Ids are given out again freely: what
  the invariant says of a file holds of terminals that are not `leaked`, and a terminal
  leaves that set only when its marker is written or removed. That a terminal keeps a
  shell is not a consequence of these: `TerminalKept` is a conjunct of the invariant.

* `ControlProofs` (`ControlAssumption`, `BoundsAssumption`: `Bounds` is a set of
  any allowances at all): the four invariants and `AnswerKeepsModel`. `Good` is the agreement between
  a command, what it has still to read, what it has sent and the daemon's task for it:
  a request is sent once and worked at as sent, a login's question is on its way, put
  to the user, or has its answer on the way back, and the last thing a finished task
  leaves is its result, which is true. `Entrusted` is the agreement between a task and
  the queues of the connections: a reload counts what it waits for, a switch waits in
  one queue; `OneEach` makes the count exact. `Locked`: the holder of the lock is at
  its switch and knows the model to put back, which is the `expected` one, or the
  `unsettled` one of a daemon that died. `Registered`: a session's newest
  connection is the registered one, also when an earlier one is seen to close later.

Each of these invariants was checked by TLC on the run's instance before its proof.
The assumptions only tell constants apart and say that bounds are numbers;
`IsFiniteSet` is asked of `Ttys` and `Conns`, whose elements are counted or given out.

### Only model-checked

Liveness under fairness (`CallsSettle`, `HeldIsReleased`, `PendingSettles`,
`DaemonsDrain`, `Patience` in `AnswersInOrder`) is out of the proof system's
reach. The properties of Timeline (`StoreSound`, `ContextIsHonest`, `ChangesAreTrue`)
are about folds, here and in ScreenDiff: what they compute for every input needs
induction over their terms. MarkerScanner, on which the properties of SessionThreads
rest, is recursive, which the proof system cannot use.

## 6. Findings

Shown by a run:

1. `end_refires`: a line bash keeps out of its history gets a start marker and no
   end; the next line's question is asked twice, against
   `tests/pending_trigger_pty.rs` 202.
2. `output_overtaken`: with a question queued behind the answer in flight, a third one
   dispatched between that answer's end and the next one's first delta is taken for
   the response in flight (`presentation.rs` 568) and holds the program's output; the
   second question's first delta replaces it, and what it held, the returning prompt
   for instance, is never written. Against `presentation.rs` 808 ("a delta for a
   different request means the previous one already finished") and design 0010. No
   failure is needed.

Shown by a configuration kept beside the runs:

3. `MCTerminalConnection_Discarded.cfg`: a request queued when its terminal
   disconnects builds a conversation afterwards, prompts it, and nobody disposes
   of it (`server.ts` 694), against "the conversation is discarded when the
   terminal disconnects" (`server.ts` 174).
4. `MCPresentation_KeepsInterrupt.cfg`: a Ctrl+C swallowed on the interrupt window
   of one answer can be spent on the answer of a running command, against
   design 0006.
5. `MCPresentation_HeldSurvives.cfg`: output held behind an answer whose daemon
   died is dropped by the next request's first delta, against design 0010.
6. `MCPresentation_Resumption.cfg`: after the stall notice, or a notice of the
   session loop, an answer resumes without a label (`presentation.rs` 731).
7. `MCDaemonLifecycle_Race.cfg`: of two daemons that start over a stale socket the
   one that lost its file removes its successor's when it exits, against "degrades
   one `#?` and self-heals" of design 0008.
8. `MCTimeline_History.cfg`: thinning measures each snapshot against the newer one kept,
   at every compaction, so in a session that keeps repainting each snapshot that
   grows into a coarse band is dropped there, then the next: "dense for the last
   minute, thinning out to hourly across a week" (`timeline.rs` 94) leaves nothing
   older than the dense bands.
9. `MCPresentation_Lookalike.cfg`: an anchored answer whose last delta ended in a
   newline goes on under a program's output that left a blank row, with no header:
   only the row's text is compared (`presentation.rs` 391). Against "never line-level
   interleaving with program output" (379).
10. `MCControl_CrashedSet.cfg`: a daemon that dies between writing `koshell.toml` and
   applying it (`model-service.ts` 235, 238) leaves a model that no set succeeded with.
   Against "a failure restores the exact previous bytes" (198) and design 0018.
11. `MCSessionThreads_EarlyResize.cfg`: a resize after the size is read (`session.rs`
   168) and before SIGWINCH is registered (535) is lost until the next. Against
   "SIGWINCH -> PTY resize and -> channel" (529).
12. `MCNestingGuard_ReusedPid.cfg`: with the id of a killed koshell given out again, its
   recycled pts stays unwrapped: `kill(pid, 0)` takes any process of the user for the
   owner (`shell.rs` 248). Against the comment at 256; design 0009 accepts it.
13. `MCNestingGuard_ReusedVersion.cfg`: `koshell version` then reports a dead koshell's
   build, `new` and `clear` a terminal nobody serves (`version_cli.rs` 52, 111).
14. `MCNestingGuard_ExecRecovers.cfg`: such a pane is not "manually recoverable with
   `exec koshell`" (design 0009): the exec is refused as nested, does not fall back
   because the false owner is not its parent (`shell.rs` 313), and the pane closes.
15. `MCSessionTrigger_HeldNoise.cfg`: output held behind an answer does not restart the
   quiet time (`presentation.rs` 601), so a pending question is sent as settled while
   its command keeps writing. Against `trigger.rs` 427.

Met while reading, with their lines in `PROJECT.json`: multi-line commands lose
their markers; a late cancel lingers; Ctrl+C before the start marker withdraws
nothing; a tool answer goes to whichever connection is held; a request written to
a daemon that stops before reading it is reported as sent; when raw mode fails the
pts is released before its marker (the exception `early` of NestingGuard); a
program left in the background keeps koshell open after its shell has exited;
`koshell reload` takes an answer in progress for a daemon without reload support.

## 7. Not modelled, and the plan

Left out of the modelled components:

* command text, listing and preview of the history; escape sequences, wrapping and
  the geometry of an anchored insertion in the presentation; in SessionTrigger the
  context, which Timeline has, and an answer whose own text on the mirror reads like a
  question;
* in the passing run and two theorems of SessionTrigger, an answer that begins to hold
  while a question typed at a prompt is still under the cursor (`MidLine`), as that of
  a queued question does. The line is entered and runs with its newline held back, so
  for the mirror it stays under the cursor; an Enter typed into the running command
  takes it for a question asked there, and it is asked twice
  (`MCSessionTrigger_MidLine.cfg`). No document speaks of this case. The properties
  that do not depend on it (`SpanOwnsPending`, the silence of `FiringSound`) are
  proved with it;
* bytes: line framing, JSON, a UTF-8 character split over two reads, the window of
  the alternate screen across chunks; what the scanner holds when the session ends;
* in SessionThreads a stdin thread blocked on the PTY's writer and the failure to
  register signals; serving tool calls, which ToolBridge answers for;
* in Control the hello's version check, several requests on one connection, a
  `koshell.toml` that did not exist (its rollback unlinks it) and a lock taken over
  while its holder is alive;
* in NestingGuard processes of several users, argument parsing, the text of the rc snippet and its installation;
* in DaemonLifecycle a listener whose backlog is full, so that a probe times out;
* web search, tools and prompts of the daemon, and the terminal emulator in
  `mirror.rs`, which are calls to libraries.

Next, in order:

1. `SizesSound` and `EndIsComplete` of SessionThreads, once MarkerScanner's loop is
   written as a recursive function.
2. Timeline, with its folds counted as `Counting` does for the sums.
