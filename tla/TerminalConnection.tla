------------------------- MODULE TerminalConnection -------------------------
(***************************************************************************)
(* One terminal's connection to the AI daemon (packages/ai-daemon/src/     *)
(* server.ts, class TerminalConnection): the hello gate, the promise chain *)
(* that serializes #? requests with resets, model switches and reloads,    *)
(* the memoized agent conversation, cancellation, and teardown.  Composed  *)
(* with the tool bridge (module ToolBridge), whose window run() opens and  *)
(* closes.                                                                 *)
(*                                                                         *)
(* An action is what JavaScript runs without yielding: a message handler,  *)
(* or a stretch of a queued task between two awaits.  The promise chain is *)
(* the immutable sequence `tasks` with the number `done` of those that     *)
(* have settled; the first unsettled task is the one that may run.         *)
(*                                                                         *)
(* Left out: the texts of prompts and answers, deltas and activity lines,  *)
(* and the login, status and catalog messages, which do not touch this     *)
(* state.                                                                  *)
(***************************************************************************)
EXTENDS Integers, Sequences, FiniteSets, SequencesExt

CONSTANTS
  Requests, EarlierRequests, NoRequest,                      \* see ToolBridge
  MaxCallsPerRequest, MaxResultCharacters, ResultSizes, MaxCallId,
  Agents,        \* bound: agent conversations that may be built
  NoAgent,       \* `undefined` in this.agent
  MaxControls    \* bound: resets, switches and reloads queued

ASSUME BridgeAssumption ==
  /\ NoRequest \notin Requests \cup EarlierRequests
  /\ Requests \cap EarlierRequests = {}
  /\ {MaxCallsPerRequest, MaxResultCharacters, MaxCallId} \subseteq Nat
  /\ ResultSizes \subseteq Nat
ASSUME AgentAssumption == NoAgent \notin Agents
ASSUME ControlAssumption == MaxControls \in Nat

VARIABLES
  helloRejected,     \* helloRejection is set
  closed,
  tasks,             \* every task put on the promise chain
  done,              \* how many of them have settled
  stage,             \* which await the running task is at
  awaited,           \* the conversation that await is on
  agent,             \* this.agent, the memoized conversation
  modelKnown,        \* this.modelId is set
  agentState,
  doomed,            \* disposed of while still being built
  agentTools,        \* conversations built with the terminal tools
  cancelled,
  runningRequestId,
  bridgeExists,      \* this.bridge is set
  markers,           \* history: terminal markers sent for each request
  received,          \* history: requests seen on the wire
  withdrawn,         \* history: requests ai_cancel was received for
  prompted,          \* history: requests whose prompt was started
  spared             \* history: requests withdrawn before their prompt

connVars == <<helloRejected, closed, tasks, done, stage, awaited, agent,
              modelKnown, agentState, doomed, agentTools, cancelled,
              runningRequestId, bridgeExists, markers, received, withdrawn,
              prompted, spared>>

VARIABLES activeRequestId, callCount, resultCharacters, nextCallId, disposed,
          pending, timers, listeners, aborted, begun, caller, outcome,
          answers, size

bridgeVars == <<activeRequestId, callCount, resultCharacters, nextCallId,
                disposed, pending, timers, listeners, aborted, begun, caller,
                outcome, answers, size>>

vars == <<connVars, bridgeVars>>

Bridge == INSTANCE ToolBridge

RunTask(r) == [op |-> "run", id |-> r]
ControlTasks == [op : {"reset", "switch", "reload"}, id : {NoRequest}]
Tasks == [op : {"run"}, id : Requests] \cup ControlTasks

TypeOK ==
  /\ helloRejected \in BOOLEAN
  /\ closed \in BOOLEAN
  /\ tasks \in Seq(Tasks)
  /\ done \in 0..Len(tasks)
  /\ stage \in {"idle", "building", "asking", "switching"}
  /\ awaited \in Agents \cup {NoAgent}
  /\ agent \in Agents \cup {NoAgent}
  /\ modelKnown \in BOOLEAN
  /\ agentState \in
       [Agents -> {"unborn", "building", "live", "failed", "disposed"}]
  /\ doomed \subseteq Agents
  /\ agentTools \subseteq Agents
  /\ cancelled \subseteq Requests
  /\ runningRequestId \in Requests \cup {NoRequest}
  /\ runningRequestId # NoRequest <=> stage \in {"building", "asking"}
  /\ bridgeExists \in BOOLEAN
  /\ markers \in [Requests -> Nat]
  /\ received \subseteq Requests
  /\ withdrawn \subseteq Requests
  /\ prompted \subseteq Requests
  /\ spared \subseteq Requests

Init ==
  /\ helloRejected = TRUE
  /\ closed = FALSE
  /\ tasks = <<>>
  /\ done = 0
  /\ stage = "idle"
  /\ awaited = NoAgent
  /\ agent = NoAgent
  /\ modelKnown = FALSE
  /\ agentState = [a \in Agents |-> "unborn"]
  /\ doomed = {}
  /\ agentTools = {}
  /\ cancelled = {}
  /\ runningRequestId = NoRequest
  /\ bridgeExists = FALSE
  /\ markers = [r \in Requests |-> 0]
  /\ received = {}
  /\ withdrawn = {}
  /\ prompted = {}
  /\ spared = {}
  /\ Bridge!Init

-----------------------------------------------------------------------------
(* send() is a no-op once the connection is closed.                        *)
SendMarker(r) ==
  markers' = IF closed THEN markers ELSE [markers EXCEPT ![r] = @ + 1]

Enqueue(task) == tasks' = Append(tasks, task)

ControlsQueued == {i \in 1..Len(tasks) : tasks[i].op # "run"}

(* Messages.  The terminal sends nothing after bye, and a closed socket    *)
(* delivers nothing.                                                       *)

(* A mismatched hello forgets the old one and rejects requests from then   *)
(* on; a matching one lifts the rejection and, if it names the capability, *)
(* creates the bridge, once.                                               *)
HelloMismatch ==
  /\ ~closed
  /\ helloRejected' = TRUE
  /\ UNCHANGED <<closed, tasks, done, stage, awaited, agent, modelKnown,
                 agentState, doomed, agentTools, cancelled, runningRequestId,
                 bridgeExists, markers, received, withdrawn, prompted, spared>>
  /\ UNCHANGED bridgeVars

HelloMatch(tools) ==
  /\ ~closed
  /\ helloRejected' = FALSE
  /\ bridgeExists' = (bridgeExists \/ tools)
  /\ UNCHANGED <<closed, tasks, done, stage, awaited, agent, modelKnown,
                 agentState, doomed, agentTools, cancelled, runningRequestId,
                 markers, received, withdrawn, prompted, spared>>
  /\ UNCHANGED bridgeVars

(* ack, then either the refusal or a place in the queue.                   *)
AiRequest(r) ==
  /\ ~closed
  /\ r \notin received
  /\ received' = received \cup {r}
  /\ IF helloRejected
     THEN SendMarker(r) /\ UNCHANGED tasks
     ELSE Enqueue(RunTask(r)) /\ UNCHANGED markers
  /\ UNCHANGED <<helloRejected, closed, done, stage, awaited, agent,
                 modelKnown, agentState, doomed, agentTools, cancelled,
                 runningRequestId, bridgeExists, withdrawn, prompted, spared>>
  /\ UNCHANGED bridgeVars

(* The agent of the running request is aborted, which fires the signal its *)
(* tool calls listen on; one still being built is met by the check that    *)
(* follows its construction.                                               *)
AiCancel(r) ==
  /\ ~closed
  /\ r \in received \ withdrawn
  /\ withdrawn' = withdrawn \cup {r}
  /\ cancelled' = cancelled \cup {r}
  /\ spared' = IF r \in prompted THEN spared ELSE spared \cup {r}
  /\ IF runningRequestId = r /\ agent # NoAgent /\ stage = "asking"
     THEN Bridge!Abort(r)
     ELSE UNCHANGED bridgeVars
  /\ UNCHANGED <<helloRejected, closed, tasks, done, stage, awaited, agent,
                 modelKnown, agentState, doomed, agentTools, runningRequestId,
                 bridgeExists, markers, received, prompted>>

ConversationReset ==
  /\ ~closed
  /\ Cardinality(ControlsQueued) < MaxControls
  /\ Enqueue([op |-> "reset", id |-> NoRequest])
  /\ UNCHANGED <<helloRejected, closed, done, stage, awaited, agent,
                 modelKnown, agentState, doomed, agentTools, cancelled,
                 runningRequestId, bridgeExists, markers, received, withdrawn,
                 prompted, spared>>
  /\ UNCHANGED bridgeVars

(* model_set and reload_request arrive on other connections and are routed *)
(* here.  A model switch that waited for the config lock may find this     *)
(* connection closed.                                                      *)
Control(op) ==
  /\ op = "reload" => ~closed
  /\ Cardinality(ControlsQueued) < MaxControls
  /\ Enqueue([op |-> op, id |-> NoRequest])
  /\ UNCHANGED <<helloRejected, closed, done, stage, awaited, agent,
                 modelKnown, agentState, doomed, agentTools, cancelled,
                 runningRequestId, bridgeExists, markers, received, withdrawn,
                 prompted, spared>>
  /\ UNCHANGED bridgeVars

(* bye, or the socket closing.                                             *)
Dispose ==
  /\ ~closed
  /\ closed' = TRUE
  /\ bridgeExists' = FALSE
  /\ IF bridgeExists THEN Bridge!Dispose ELSE UNCHANGED bridgeVars
  /\ agentState' = [a \in Agents |->
       IF a = agent /\ agentState[a] = "live" THEN "disposed" ELSE agentState[a]]
  /\ doomed' = doomed \cup {a \in Agents : a = agent /\ agentState[a] = "building"}
  /\ agent' = NoAgent
  /\ modelKnown' = FALSE
  /\ UNCHANGED <<helloRejected, tasks, done, stage, awaited, agentTools,
                 cancelled, runningRequestId, markers, received, withdrawn,
                 prompted, spared>>

-----------------------------------------------------------------------------
(* The promise chain.                                                      *)

Head1 == tasks[done + 1]

MayStart(op) == stage = "idle" /\ done < Len(tasks) /\ Head1.op = op

(* The task settles and the chain moves on.                                *)
TaskSettles ==
  /\ done' = done + 1
  /\ stage' = "idle"
  /\ awaited' = NoAgent

(* Deliberate fault: a request that ends forgets every withdrawal.         *)
ForgetCancel_All(r) == cancelled' = {}

ForgetCancel(r) == cancelled' = cancelled \ {r}

(* run() is left: by its last line, its catch block or an early return,    *)
(* always through finally.                                                 *)
RunEnds ==
  /\ SendMarker(runningRequestId)
  /\ ForgetCancel(runningRequestId)
  /\ runningRequestId' = NoRequest
  /\ IF bridgeExists THEN Bridge!EndRequest ELSE UNCHANGED bridgeVars
  /\ TaskSettles

(* Deliberate fault: the skipped request is not told its end.              *)
RunSkips_Silently ==
  /\ MayStart("run")
  /\ Head1.id \in cancelled
  /\ cancelled' = cancelled \ {Head1.id}
  /\ TaskSettles
  /\ UNCHANGED <<helloRejected, closed, tasks, agent, modelKnown, agentState,
                 doomed, agentTools, runningRequestId, bridgeExists, markers,
                 received, withdrawn, prompted, spared>>
  /\ UNCHANGED bridgeVars

(* A request withdrawn while it was queued is skipped without a prompt.    *)
RunSkips ==
  /\ MayStart("run")
  /\ Head1.id \in cancelled
  /\ SendMarker(Head1.id)
  /\ cancelled' = cancelled \ {Head1.id}
  /\ TaskSettles
  /\ UNCHANGED <<helloRejected, closed, tasks, agent, modelKnown, agentState,
                 doomed, agentTools, runningRequestId, bridgeExists, received,
                 withdrawn, prompted, spared>>
  /\ UNCHANGED bridgeVars

RunOpens ==
  /\ MayStart("run")
  /\ Head1.id \notin cancelled
  /\ runningRequestId' = Head1.id
  /\ IF bridgeExists THEN Bridge!BeginRequest(Head1.id) ELSE UNCHANGED bridgeVars
  /\ UNCHANGED <<helloRejected, closed, tasks, done, modelKnown, doomed,
                 cancelled, bridgeExists, markers, received, withdrawn, spared>>

(* getAgent(): the conversation exists, and its promise is long resolved.  *)
RunPrompts ==
  /\ RunOpens
  /\ agent # NoAgent
  /\ stage' = "asking"
  /\ awaited' = agent
  /\ prompted' = prompted \cup {Head1.id}
  /\ UNCHANGED <<agent, agentState, agentTools>>

(* getAgent(): none exists, and the promise of a new one is memoized.      *)
RunBuilds(a) ==
  /\ RunOpens
  /\ agent = NoAgent
  /\ agentState[a] = "unborn"
  /\ agentState' = [agentState EXCEPT ![a] = "building"]
  /\ agentTools' = IF bridgeExists THEN agentTools \cup {a} ELSE agentTools
  /\ agent' = a
  /\ stage' = "building"
  /\ awaited' = a
  /\ UNCHANGED prompted

(* createAgent resolves: the model is cached, run() resumes and looks at   *)
(* `cancelled` again, and only then does a teardown that was waiting for   *)
(* the conversation dispose of it.                                         *)
Built ==
  /\ stage = "building"
  /\ agentState' = [agentState EXCEPT
       ![awaited] = IF awaited \in doomed THEN "disposed" ELSE "live"]
  /\ modelKnown' = TRUE
  /\ UNCHANGED <<helloRejected, closed, tasks, agent, doomed, agentTools,
                 bridgeExists, received, withdrawn, spared>>

BuiltThenPrompts ==
  /\ Built
  /\ runningRequestId \notin cancelled
  /\ stage' = "asking"
  /\ prompted' = prompted \cup {runningRequestId}
  /\ UNCHANGED <<done, awaited, cancelled, runningRequestId, markers>>
  /\ UNCHANGED bridgeVars

BuiltThenSkips ==
  /\ Built
  /\ runningRequestId \in cancelled
  /\ RunEnds
  /\ UNCHANGED prompted

(* createAgent rejects: the memo is cleared so that the next request       *)
(* retries, and this one is answered with the error.                       *)
BuildFails ==
  /\ stage = "building"
  /\ agentState' = [agentState EXCEPT ![awaited] = "failed"]
  /\ agent' = NoAgent
  /\ modelKnown' = FALSE
  /\ RunEnds
  /\ UNCHANGED <<helloRejected, closed, tasks, doomed, agentTools,
                 bridgeExists, received, withdrawn, prompted, spared>>

(* agent.ask settles.  The agent's turn does not end by itself while one   *)
(* of its tool calls is unsettled; a provider error ends it at any moment. *)
AskSettles ==
  /\ stage = "asking"
  /\ RunEnds
  /\ UNCHANGED <<helloRejected, closed, tasks, agent, modelKnown, agentState,
                 doomed, agentTools, bridgeExists, received, withdrawn,
                 prompted, spared>>

AskEnds == pending = {} /\ AskSettles

AskFails == AskSettles

(* A control task with no conversation to act on settles at once.          *)
ControlIdle ==
  /\ \E op \in {"reset", "switch", "reload"} : MayStart(op)
  /\ agent = NoAgent
  /\ modelKnown' = IF Head1.op = "reset" THEN FALSE ELSE modelKnown
  /\ TaskSettles
  /\ UNCHANGED <<helloRejected, closed, tasks, agent, agentState, doomed,
                 agentTools, cancelled, runningRequestId, bridgeExists,
                 markers, received, withdrawn, prompted, spared>>
  /\ UNCHANGED bridgeVars

(* Deliberate fault: the conversation is dropped but never disposed of.    *)
Teardown_WithoutDispose ==
  /\ MayStart("reset") \/ MayStart("reload")
  /\ agent # NoAgent
  /\ UNCHANGED agentState
  /\ agent' = NoAgent
  /\ modelKnown' = FALSE
  /\ TaskSettles
  /\ UNCHANGED <<helloRejected, closed, tasks, doomed, agentTools, cancelled,
                 runningRequestId, bridgeExists, markers, received, withdrawn,
                 prompted, spared>>
  /\ UNCHANGED bridgeVars

(* resetAgent, and reloadFromConfig when more than the model changed.      *)
Teardown ==
  /\ MayStart("reset") \/ MayStart("reload")
  /\ agent # NoAgent
  /\ agentState' = [agentState EXCEPT ![agent] = "disposed"]
  /\ agent' = NoAgent
  /\ modelKnown' = FALSE
  /\ TaskSettles
  /\ UNCHANGED <<helloRejected, closed, tasks, doomed, agentTools, cancelled,
                 runningRequestId, bridgeExists, markers, received, withdrawn,
                 prompted, spared>>
  /\ UNCHANGED bridgeVars

(* switchModel, and reloadFromConfig when only the model changed.          *)
SwitchStarts ==
  /\ MayStart("switch") \/ MayStart("reload")
  /\ agent # NoAgent
  /\ stage' = "switching"
  /\ awaited' = agent
  /\ UNCHANGED <<helloRejected, closed, tasks, done, agent, modelKnown,
                 agentState, doomed, agentTools, cancelled, runningRequestId,
                 bridgeExists, markers, received, withdrawn, prompted, spared>>
  /\ UNCHANGED bridgeVars

(* setModel resolves, and the model is cached again; or it rejects, and    *)
(* the chain swallows the error.                                           *)
SwitchSettles(ok) ==
  /\ stage = "switching"
  /\ modelKnown' = (ok \/ modelKnown)
  /\ TaskSettles
  /\ UNCHANGED <<helloRejected, closed, tasks, agent, agentState, doomed,
                 agentTools, cancelled, runningRequestId, bridgeExists,
                 markers, received, withdrawn, prompted, spared>>
  /\ UNCHANGED bridgeVars

-----------------------------------------------------------------------------
(* The bridge's own steps: only a live conversation built with the tools   *)
(* calls, and only during a turn.  The agent of a closed connection keeps  *)
(* its bridge, which refuses.                                              *)

ToolCall ==
  /\ stage = "asking"
  /\ awaited \in agentTools
  /\ Bridge!Call
  /\ UNCHANGED connVars

ToolResponse ==
  /\ ~closed
  /\ bridgeExists
  /\ Bridge!ReceiveResult \/ Bridge!ReceiveError
  /\ UNCHANGED connVars

ToolTimeout(c) ==
  /\ Bridge!TimeoutFires(c)
  /\ UNCHANGED connVars

-----------------------------------------------------------------------------
Next ==
  \/ HelloMismatch
  \/ \E tools \in BOOLEAN : HelloMatch(tools)
  \/ \E r \in Requests : AiRequest(r)
  \/ \E r \in Requests : AiCancel(r)
  \/ ConversationReset
  \/ \E op \in {"switch", "reload"} : Control(op)
  \/ Dispose
  \/ RunSkips
  \/ RunPrompts
  \/ \E a \in Agents : RunBuilds(a)
  \/ BuiltThenPrompts
  \/ BuiltThenSkips
  \/ BuildFails
  \/ AskEnds
  \/ AskFails
  \/ ControlIdle
  \/ Teardown
  \/ SwitchStarts
  \/ \E ok \in BOOLEAN : SwitchSettles(ok)
  \/ ToolCall
  \/ ToolResponse
  \/ \E c \in Bridge!CallIds : ToolTimeout(c)

(* The event loop runs what is ready; createAgent and setModel settle; the *)
(* model's turn ends once it is not waiting for a tool; timers fire.       *)
Fairness ==
  /\ WF_vars(RunSkips)
  /\ WF_vars(RunPrompts \/ \E a \in Agents : RunBuilds(a))
  /\ WF_vars(BuiltThenPrompts \/ BuiltThenSkips \/ BuildFails)
  /\ WF_vars(AskEnds)
  /\ WF_vars(ControlIdle \/ Teardown \/ SwitchStarts)
  /\ WF_vars(\E ok \in BOOLEAN : SwitchSettles(ok))
  /\ \A c \in Bridge!CallIds : WF_vars(ToolTimeout(c))

Spec == Init /\ [][Next]_vars /\ Fairness

-----------------------------------------------------------------------------
Admitted(r) == \E i \in 1..Len(tasks) : tasks[i] = RunTask(r)

Settled(r) == \E i \in 1..done : tasks[i] = RunTask(r)

AheadOf(q, r) ==
  \E i, j \in 1..Len(tasks) : i < j /\ tasks[i] = RunTask(q) /\ tasks[j] = RunTask(r)

(* Exactly one terminal marker per request: none while it is queued or     *)
(* running, one when its task has settled, one at once if the hello gate   *)
(* refused it; and never two, whatever was cancelled, failed, reset or     *)
(* disposed of meanwhile.                                                  *)
ExactlyOneMarker ==
  \A r \in Requests :
    /\ markers[r] <= 1
    /\ Admitted(r) /\ ~Settled(r) => markers[r] = 0
    /\ r \in received /\ ~closed =>
         (markers[r] = 1 <=> (Admitted(r) => Settled(r)))

(* While the connection is open, the conversations that exist are the one  *)
(* it holds: a reset, reload, failed build or retry never leaves a second  *)
(* one behind.                                                             *)
OneConversation ==
  ~closed =>
    \A a \in Agents : agentState[a] \in {"building", "live"} => a = agent

(* A task that waits on the conversation keeps it: no reset, reload or     *)
(* switch that arrives meanwhile replaces or disposes of it.               *)
ConversationStable ==
  ~closed /\ stage \in {"asking", "switching"} =>
    awaited = agent /\ agentState[agent] = "live"

(* The tool window is the span of run(): an open window is the running     *)
(* request's, and no tool call is outstanding outside one, or once the     *)
(* connection is closed.                                                   *)
ToolWindowIsRun ==
  /\ bridgeExists /\ activeRequestId # NoRequest =>
       activeRequestId = runningRequestId
  /\ runningRequestId = NoRequest \/ closed => pending = {}

(* A request withdrawn before its prompt started is never prompted,        *)
(* however many other requests run and end in between.                     *)
WithdrawnNeverPrompted == spared \cap prompted = {}

(* What `koshell status` reads without awaiting: a cached model belongs to *)
(* a conversation that has been built and not torn down.                   *)
SnapshotConsistent ==
  ~closed => (modelKnown <=> agent # NoAgent /\ agentState[agent] = "live")

(* The conversation and the tool window are sound at every await: one      *)
(* conversation, kept while it is awaited, shown as it is, with the window *)
(* of the request that runs on it.                                         *)
ConversationSound ==
  /\ TypeOK
  /\ OneConversation
  /\ ConversationStable
  /\ ToolWindowIsRun
  /\ SnapshotConsistent

(* Every request is accounted for: told its end once, and withdrawn in     *)
(* time never put to the model.                                            *)
RequestsAccounted == ExactlyOneMarker /\ WithdrawnNeverPrompted

(* The connection implements the answer service: accepted requests are     *)
(* told their end in the order they were asked, each once, and unless the  *)
(* connection closes each is told, even if the terminal never answers the  *)
(* tool calls made for it.                                                 *)
Service ==
  INSTANCE AnswerService
    WITH asked <- {r \in Requests : Admitted(r)},
         earlier <- {pair \in Requests \X Requests : AheadOf(pair[1], pair[2])},
         told <- {r \in Requests : Admitted(r) /\ markers[r] > 0},
         hungUp <- closed

AnswersInOrder == Service!Spec

-----------------------------------------------------------------------------
(* What the code's own comments say and the code does not do.              *)

(* "Requests withdrawn by ai_cancel; ... cleared when the request ends, so *)
(* a cancel that raced past its request's completion cannot linger"        *)
CancelDoesNotLinger ==
  \A r \in cancelled : Admitted(r) /\ ~Settled(r)

(* "The conversation is discarded when the terminal disconnects": once the *)
(* connection is closed and its queue has drained, none is left.           *)
DiscardedOnDisconnect ==
  closed /\ done = Len(tasks) => \A a \in Agents : agentState[a] # "live"
=============================================================================
