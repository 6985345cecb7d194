---------------------- MODULE TerminalConnectionProofs ----------------------
(***************************************************************************)
(* Theorems about TerminalConnection, for any requests, conversations,     *)
(* calls and control tasks: one conversation, one end for every request,   *)
(* answers in the order of the questions, and the tool bridge used as      *)
(* tool-bridge.ts expects.                                                 *)
(***************************************************************************)
EXTENDS TerminalConnection, TLAPS

BridgeProofs == INSTANCE ToolBridgeProofs

-----------------------------------------------------------------------------
(* Each request has one task at most, and the request run() is at is the   *)
(* first unsettled task's.                                                 *)
Chain ==
  /\ \A i, j \in 1..Len(tasks) : tasks[i].op = "run" /\ tasks[j] = tasks[i] => i = j
  /\ \A i \in 1..Len(tasks) : tasks[i].op = "run" => tasks[i].id \in received
  /\ stage # "idle" => done < Len(tasks)
  /\ stage \in {"building", "asking"} => Head1 = RunTask(runningRequestId)
  /\ stage = "switching" => Head1.op \in {"switch", "reload"}

(* No marker before the request is seen, and then exactly one.             *)
Told ==
  /\ \A r \in Requests \ received : markers[r] = 0
  /\ ExactlyOneMarker

(* What was withdrawn in time is remembered until its task settles.        *)
Withdrawals ==
  /\ spared \subseteq received
  /\ \A r \in spared : Admitted(r) /\ ~Settled(r) => r \in cancelled
  /\ WithdrawnNeverPrompted

(* The conversation of an open connection is being built exactly while     *)
(* run() waits for it, and nothing else is alive or condemned.             *)
Conversation ==
  /\ stage = "building" => awaited \in Agents /\ agentState[awaited] = "building"
  /\ ~closed =>
       /\ doomed = {}
       /\ agent # NoAgent =>
            agentState[agent] = IF stage = "building" THEN "building" ELSE "live"
       /\ stage # "idle" => awaited = agent /\ agent # NoAgent
       /\ \A a \in Agents : agentState[a] \in {"building", "live"} => a = agent
       /\ modelKnown <=> agent # NoAgent /\ agentState[agent] = "live"

(* The window of the tool bridge is the running request's or nobody's.     *)
Window ==
  /\ activeRequestId \in {NoRequest, runningRequestId}
  /\ ~bridgeExists \/ runningRequestId = NoRequest =>
       activeRequestId = NoRequest /\ pending = {}
  /\ closed => ~bridgeExists
  /\ disposed => closed
  /\ \A r \in begun : Admitted(r) /\ (Settled(r) \/ r = runningRequestId)
  /\ aborted \subseteq withdrawn

IInv == TypeOK /\ Chain /\ Told /\ Withdrawals /\ Conversation /\ Window

-----------------------------------------------------------------------------
(* Tasks *)

(* The task that runs a request names it and no other.                     *)
LEMMA RunTaskOf ==
  ASSUME NEW r \in Requests
  PROVE  /\ RunTask(r) \in Tasks /\ RunTask(r).op = "run" /\ RunTask(r).id = r
         /\ \A q : RunTask(q) = RunTask(r) => q = r
         /\ r # NoRequest
BY BridgeAssumption DEF RunTask, Tasks

(* A task that runs a request is that request's; the others are controls.  *)
LEMMA TaskIs ==
  ASSUME NEW task \in Tasks
  PROVE  /\ task.op \in {"run", "reset", "switch", "reload"}
         /\ task.op = "run" => task.id \in Requests /\ task = RunTask(task.id)
         /\ \A r : task = RunTask(r) => task.op = "run" /\ task.id = r
BY DEF Tasks, ControlTasks, RunTask

(* The chain grows by one task.                                            *)
LEMMA Enqueued ==
  ASSUME TypeOK, NEW task \in Tasks, tasks' = Append(tasks, task), UNCHANGED done
  PROVE  /\ tasks' \in Seq(Tasks) /\ done' \in 0..Len(tasks')
         /\ Len(tasks') = Len(tasks) + 1 /\ Len(tasks) \in Nat /\ done \in Nat
         /\ done <= Len(tasks)
         /\ \A i \in 1..Len(tasks) : tasks'[i] = tasks[i]
         /\ tasks'[Len(tasks) + 1] = task
         /\ \A r : Settled(r)' <=> Settled(r)
         /\ \A r : Admitted(r)' <=> Admitted(r) \/ task = RunTask(r)
<1>1. tasks \in Seq(Tasks) /\ done \in 0..Len(tasks)
  BY DEF TypeOK
<1>2. /\ tasks' \in Seq(Tasks)
      /\ Len(tasks') = Len(tasks) + 1 /\ Len(tasks) \in Nat /\ done \in Nat
      /\ done <= Len(tasks)
      /\ \A i \in 1..Len(tasks) : tasks'[i] = tasks[i]
      /\ tasks'[Len(tasks) + 1] = task
  BY <1>1
<1>3. done' \in 0..Len(tasks')
  BY <1>2
<1>4. \A r : Settled(r)' <=> Settled(r)
  BY <1>2 DEF Settled
<1>5. \A r : Admitted(r)' <=> Admitted(r) \/ task = RunTask(r)
  BY <1>2 DEF Admitted
<1> QED BY <1>2, <1>3, <1>4, <1>5

(* A task settles.                                                         *)
LEMMA Settles ==
  ASSUME TypeOK, done < Len(tasks), TaskSettles, UNCHANGED tasks
  PROVE  /\ done \in Nat /\ done' = done + 1 /\ done' \in 0..Len(tasks)
         /\ done + 1 \in 1..Len(tasks)
         /\ Head1 \in Tasks
         /\ \A r : Settled(r)' <=> Settled(r) \/ Head1 = RunTask(r)
         /\ \A r : Admitted(r)' <=> Admitted(r)
<1>0. tasks \in Seq(Tasks) /\ done \in Nat /\ Len(tasks) \in Nat
  BY DEF TypeOK
<1>1. done' = done + 1
  BY DEF TaskSettles
<1>2. done + 1 \in 1..Len(tasks) /\ done' \in 0..Len(tasks)
  BY <1>0, <1>1
<1>3. Head1 \in Tasks
  BY <1>0, <1>2 DEF Head1
<1>4. \A r : Settled(r)' <=> Settled(r) \/ Head1 = RunTask(r)
  <2>1. \A i : i \in 1..(done + 1) <=> i \in 1..done \/ i = done + 1
    BY <1>0
  <2> QED BY <1>1, <2>1 DEF Settled, Head1
<1>5. \A r : Admitted(r)' <=> Admitted(r)
  BY DEF Admitted
<1> QED BY <1>0, <1>1, <1>2, <1>3, <1>4, <1>5

(* The first unsettled task's request is in the chain and not settled.     *)
LEMMA HeadUnsettled ==
  ASSUME TypeOK, Chain, done < Len(tasks), NEW r, Head1 = RunTask(r)
  PROVE  Admitted(r) /\ ~Settled(r) /\ r \in Requests /\ r \in received
<1>1. tasks \in Seq(Tasks) /\ done \in Nat /\ Len(tasks) \in Nat /\ done + 1 \in 1..Len(tasks)
  BY DEF TypeOK
<1>2. Head1 \in Tasks /\ Head1 = tasks[done + 1]
  BY <1>1 DEF Head1
<1>3. Head1.op = "run" /\ Head1.id = r
  BY DEF RunTask
<1>4. r \in Requests
  BY <1>2, <1>3, TaskIs
<1>5. Admitted(r)
  BY <1>1, <1>2 DEF Admitted
<1>6. ~Settled(r)
  BY <1>1, <1>2, <1>3 DEF Settled, Chain
<1>7. r \in received
  BY <1>1, <1>2, <1>3 DEF Chain
<1> QED BY <1>4, <1>5, <1>6, <1>7

-----------------------------------------------------------------------------
(* Types *)

(* send() changes the marker of one request, and none once it is closed.   *)
LEMMA MarkerType ==
  ASSUME TypeOK, NEW r \in Requests, SendMarker(r)
  PROVE  /\ markers' \in [Requests -> Nat]
         /\ closed => markers' = markers
         /\ ~closed => markers'[r] = markers[r] + 1
         /\ \A q \in Requests \ {r} : markers'[q] = markers[q]
BY DEF TypeOK, SendMarker

(* run() is left.                                                          *)
LEMMA RunEndsTypes ==
  ASSUME IInv, stage \in {"building", "asking"}, RunEnds, UNCHANGED tasks
  PROVE  /\ done < Len(tasks) /\ Head1 = RunTask(runningRequestId) /\ TaskSettles
         /\ runningRequestId \in Requests /\ runningRequestId \in received
         /\ SendMarker(runningRequestId)
         /\ cancelled' = cancelled \ {runningRequestId} /\ cancelled' \subseteq Requests
         /\ markers' \in [Requests -> Nat]
         /\ done' \in 0..Len(tasks)
         /\ stage' = "idle" /\ awaited' = NoAgent /\ runningRequestId' = NoRequest
<1>1. done < Len(tasks) /\ Head1 = RunTask(runningRequestId)
  BY DEF IInv, Chain
<1>2. runningRequestId \in Requests /\ runningRequestId \in received
  BY <1>1, HeadUnsettled DEF IInv
<1>3. /\ TaskSettles /\ SendMarker(runningRequestId)
      /\ cancelled' = cancelled \ {runningRequestId} /\ runningRequestId' = NoRequest
  BY DEF RunEnds, ForgetCancel
<1>4. markers' \in [Requests -> Nat]
  BY <1>2, <1>3, MarkerType DEF IInv
<1>5. cancelled' \subseteq Requests
  BY <1>3 DEF IInv, TypeOK
<1>6. done' \in 0..Len(tasks)
  BY <1>1, <1>3, Settles DEF IInv
<1> QED BY <1>1, <1>2, <1>3, <1>4, <1>5, <1>6 DEF TaskSettles

(* The message handlers and dispose keep the state well formed.            *)
LEMMA MessageTypes ==
  ASSUME IInv,
         \/ HelloMismatch \/ (\E tools \in BOOLEAN : HelloMatch(tools))
         \/ (\E r \in Requests : AiRequest(r) \/ AiCancel(r))
         \/ ConversationReset \/ (\E op \in {"switch", "reload"} : Control(op)) \/ Dispose
  PROVE  TypeOK'
<1> USE DEF IInv
<1>1. CASE HelloMismatch
  BY <1>1 DEF HelloMismatch, TypeOK
<1>2. ASSUME NEW tools \in BOOLEAN, HelloMatch(tools)
      PROVE  TypeOK'
  BY <1>2 DEF HelloMatch, TypeOK
<1>3. ASSUME NEW r \in Requests, AiCancel(r)
      PROVE  TypeOK'
  BY <1>3 DEF AiCancel, TypeOK
<1>4. CASE Dispose
  <2>1. agentState' \in [Agents -> {"unborn", "building", "live", "failed", "disposed"}]
    BY <1>4 DEF Dispose, TypeOK
  <2>2. doomed' \subseteq Agents
    BY <1>4 DEF Dispose, TypeOK
  <2> QED BY <1>4, <2>1, <2>2 DEF Dispose, TypeOK
<1>5. ASSUME NEW task \in Tasks, tasks' = Append(tasks, task), received' \in SUBSET Requests,
             UNCHANGED <<helloRejected, closed, done, stage, awaited, agent, modelKnown,
                         agentState, doomed, agentTools, cancelled, runningRequestId,
                         bridgeExists, markers, withdrawn, prompted, spared>>
      PROVE  TypeOK'
  <2>1. tasks' \in Seq(Tasks) /\ done' \in 0..Len(tasks')
    BY <1>5, Enqueued
  <2> QED BY <1>5, <2>1 DEF TypeOK
<1>6. ASSUME NEW r \in Requests, AiRequest(r)
      PROVE  TypeOK'
  <2>1. CASE helloRejected
    <3>1. markers' \in [Requests -> Nat]
      BY <1>6, <2>1, MarkerType DEF AiRequest
    <3> QED BY <1>6, <2>1, <3>1 DEF AiRequest, TypeOK
  <2>2. CASE ~helloRejected
    <3>1. RunTask(r) \in Tasks /\ received' \in SUBSET Requests
      BY <1>6, RunTaskOf DEF AiRequest, TypeOK
    <3> QED BY <1>5, <1>6, <2>2, <3>1 DEF AiRequest, Enqueue
  <2> QED BY <2>1, <2>2
<1>7. \A op \in {"reset", "switch", "reload"} : [op |-> op, id |-> NoRequest] \in Tasks
  BY DEF Tasks, ControlTasks
<1>8. received \in SUBSET Requests
  BY DEF TypeOK
<1>9. CASE ConversationReset
  BY <1>5, <1>7, <1>8, <1>9 DEF ConversationReset, Enqueue
<1>10. ASSUME NEW op \in {"switch", "reload"}, Control(op)
      PROVE  TypeOK'
  BY <1>5, <1>7, <1>8, <1>10 DEF Control, Enqueue
<1> QED BY <1>1, <1>2, <1>3, <1>4, <1>6, <1>9, <1>10

(* So does run(), at each of its awaits.                                   *)
LEMMA RunTypes ==
  ASSUME IInv,
         \/ RunSkips \/ RunPrompts \/ (\E a \in Agents : RunBuilds(a))
         \/ BuiltThenPrompts \/ BuiltThenSkips \/ BuildFails \/ AskSettles
  PROVE  TypeOK'
<1> USE DEF IInv
<1>1. CASE MayStart("run")
  <2>1. done < Len(tasks) /\ Head1.op = "run" /\ stage = "idle"
    BY <1>1 DEF MayStart
  <2>2. Head1 \in Tasks
    BY <2>1 DEF TypeOK, Head1
  <2>3. Head1.id \in Requests /\ Head1.id # NoRequest
    BY <2>1, <2>2, TaskIs, RunTaskOf
  <2>4. CASE RunSkips
    <3>1. markers' \in [Requests -> Nat]
      BY <2>3, <2>4, MarkerType DEF RunSkips
    <3>2. done' \in 0..Len(tasks)
      BY <2>1, <2>4, Settles DEF RunSkips
    <3>3. runningRequestId = NoRequest
      BY <2>1 DEF TypeOK
    <3> QED BY <2>4, <3>1, <3>2, <3>3 DEF RunSkips, TaskSettles, TypeOK
  <2>5. CASE RunPrompts
    BY <2>3, <2>5 DEF RunPrompts, RunOpens, TypeOK
  <2>6. ASSUME NEW a \in Agents, RunBuilds(a)
        PROVE  TypeOK'
    <3>1. agentState' \in [Agents -> {"unborn", "building", "live", "failed", "disposed"}]
      BY <2>6 DEF RunBuilds, TypeOK
    <3> QED BY <2>3, <2>6, <3>1 DEF RunBuilds, RunOpens, TypeOK
  <2>7. CASE BuiltThenPrompts \/ BuiltThenSkips \/ BuildFails \/ AskSettles
    BY <2>1, <2>7 DEF BuiltThenPrompts, BuiltThenSkips, BuildFails, AskSettles, Built
  <2> QED BY <2>4, <2>5, <2>6, <2>7
<1>2. CASE BuiltThenPrompts
  <2>1. agentState' \in [Agents -> {"unborn", "building", "live", "failed", "disposed"}]
    BY <1>2 DEF BuiltThenPrompts, Built, TypeOK
  <2>2. runningRequestId \in Requests
    BY <1>2 DEF BuiltThenPrompts, Built, TypeOK
  <2> QED BY <1>2, <2>1, <2>2 DEF BuiltThenPrompts, Built, TypeOK
<1>3. CASE BuiltThenSkips
  <2>1. stage = "building" /\ RunEnds /\ UNCHANGED tasks
    BY <1>3 DEF BuiltThenSkips, Built
  <2>2. agentState' \in [Agents -> {"unborn", "building", "live", "failed", "disposed"}]
    BY <1>3 DEF BuiltThenSkips, Built, TypeOK
  <2> QED BY <1>3, <2>1, <2>2, RunEndsTypes DEF BuiltThenSkips, Built, TypeOK
<1>4. CASE BuildFails
  <2>1. stage = "building" /\ RunEnds /\ UNCHANGED tasks
    BY <1>4 DEF BuildFails
  <2>2. agentState' \in [Agents -> {"unborn", "building", "live", "failed", "disposed"}]
    BY <1>4 DEF BuildFails, TypeOK
  <2> QED BY <1>4, <2>1, <2>2, RunEndsTypes DEF BuildFails, TypeOK
<1>5. CASE AskSettles
  <2>1. stage = "asking" /\ RunEnds /\ UNCHANGED tasks
    BY <1>5 DEF AskSettles
  <2> QED BY <1>5, <2>1, RunEndsTypes DEF AskSettles, TypeOK
<1> QED BY <1>1, <1>2, <1>3, <1>4, <1>5 DEF RunSkips, RunPrompts, RunBuilds, RunOpens

(* So do the resets, switches and reloads.                                 *)
LEMMA ControlTypes ==
  ASSUME IInv,
         ControlIdle \/ Teardown \/ SwitchStarts \/ (\E ok \in BOOLEAN : SwitchSettles(ok))
  PROVE  TypeOK'
<1> USE DEF IInv
<1>1. CASE ControlIdle
  <2>1. done < Len(tasks) /\ stage = "idle"
    BY <1>1 DEF ControlIdle, MayStart
  <2>2. done' \in 0..Len(tasks)
    BY <1>1, <2>1, Settles DEF ControlIdle
  <2> QED BY <1>1, <2>1, <2>2 DEF ControlIdle, TaskSettles, TypeOK
<1>2. CASE Teardown
  <2>1. done < Len(tasks) /\ stage = "idle"
    BY <1>2 DEF Teardown, MayStart
  <2>2. done' \in 0..Len(tasks)
    BY <1>2, <2>1, Settles DEF Teardown
  <2> QED BY <1>2, <2>1, <2>2 DEF Teardown, TaskSettles, TypeOK
<1>3. CASE SwitchStarts
  BY <1>3 DEF SwitchStarts, MayStart, TypeOK
<1>4. ASSUME NEW ok \in BOOLEAN, SwitchSettles(ok)
      PROVE  TypeOK'
  <2>1. done < Len(tasks) /\ stage = "switching"
    BY <1>4 DEF SwitchSettles, Chain
  <2>2. done' \in 0..Len(tasks)
    BY <1>4, <2>1, Settles DEF SwitchSettles
  <2> QED BY <1>4, <2>1, <2>2 DEF SwitchSettles, TaskSettles, TypeOK
<1> QED BY <1>1, <1>2, <1>3, <1>4

-----------------------------------------------------------------------------
(* What a step may do to the promise chain and its requests                *)

Quiet ==
  /\ UNCHANGED <<tasks, done, stage, runningRequestId, markers, received, cancelled, spared,
                 prompted>>
  /\ closed => closed'

Grows(task) ==
  /\ Enqueue(task)
  /\ IF task.op = "run"
     THEN ~closed /\ task.id \notin received /\ received' = received \cup {task.id}
     ELSE UNCHANGED received
  /\ UNCHANGED <<done, stage, runningRequestId, markers, cancelled, spared, prompted, closed>>

Refuses(r) ==
  /\ ~closed /\ r \notin received /\ received' = received \cup {r} /\ SendMarker(r)
  /\ UNCHANGED <<tasks, done, stage, runningRequestId, cancelled, spared, prompted, closed>>

Withdraws(r) ==
  /\ r \in received /\ cancelled' = cancelled \cup {r}
  /\ spared' = IF r \in prompted THEN spared ELSE spared \cup {r}
  /\ UNCHANGED <<tasks, done, stage, runningRequestId, markers, received, prompted, closed>>

Proceeds ==
  /\ done < Len(tasks)
  /\ \/ stage' \in {"building", "asking"} /\ Head1 = RunTask(runningRequestId')
     \/ stage' = "switching" /\ Head1.op \in {"switch", "reload"}
  /\ \/ prompted' = prompted
     \/ /\ prompted' = prompted \cup {runningRequestId'}
        /\ runningRequestId' \notin cancelled /\ stage' = "asking"
  /\ UNCHANGED <<tasks, done, markers, received, cancelled, spared, closed>>

EndsRun(r) ==
  /\ done < Len(tasks) /\ Head1 = RunTask(r) /\ SendMarker(r)
  /\ cancelled' = cancelled \ {r} /\ TaskSettles
  /\ UNCHANGED <<tasks, received, spared, prompted, closed>>

EndsControl ==
  /\ done < Len(tasks) /\ Head1.op # "run" /\ TaskSettles
  /\ UNCHANGED <<tasks, markers, received, cancelled, spared, prompted, closed>>

ChainStep ==
  \/ Quiet
  \/ \E task \in Tasks : Grows(task)
  \/ \E r \in Requests : Refuses(r) \/ Withdraws(r) \/ EndsRun(r)
  \/ Proceeds
  \/ EndsControl

(* Every handler and every task is one of these.                           *)
LEMMA StepOfChain ==
  ASSUME IInv, [Next]_vars
  PROVE  ChainStep
<1>1. CASE HelloMismatch \/ (\E tools \in BOOLEAN : HelloMatch(tools)) \/ Dispose
  <2>1. Quiet
    BY <1>1 DEF HelloMismatch, HelloMatch, Dispose, Quiet
  <2> QED BY <2>1 DEF ChainStep
<1>2. CASE \/ ToolCall \/ ToolResponse \/ (\E c \in Bridge!CallIds : ToolTimeout(c))
           \/ UNCHANGED vars
  <2>1. Quiet
    BY <1>2 DEF ToolCall, ToolResponse, ToolTimeout, vars, connVars, Quiet
  <2> QED BY <2>1 DEF ChainStep
<1>3. ASSUME NEW r \in Requests, AiRequest(r)
      PROVE  ChainStep
  <2>1. CASE helloRejected
    <3>1. Refuses(r)
      BY <1>3, <2>1 DEF AiRequest, Refuses
    <3> QED BY <3>1 DEF ChainStep
  <2>2. CASE ~helloRejected
    <3>1. Grows(RunTask(r))
      BY <1>3, <2>2, RunTaskOf DEF AiRequest, Grows
    <3> QED BY <3>1, RunTaskOf DEF ChainStep
  <2> QED BY <2>1, <2>2
<1>4. ASSUME NEW r \in Requests, AiCancel(r)
      PROVE  ChainStep
  <2>1. Withdraws(r)
    BY <1>4 DEF AiCancel, Withdraws
  <2> QED BY <2>1 DEF ChainStep
<1>5. CASE ConversationReset \/ (\E op \in {"switch", "reload"} : Control(op))
  <2>1. PICK op \in {"reset", "switch", "reload"} : Grows([op |-> op, id |-> NoRequest])
    BY <1>5 DEF ConversationReset, Control, Grows
  <2>2. [op |-> op, id |-> NoRequest] \in Tasks
    BY DEF Tasks, ControlTasks
  <2> QED BY <2>1, <2>2 DEF ChainStep
<1>6. CASE RunSkips
  <2>1. done < Len(tasks) /\ Head1.op = "run"
    BY <1>6 DEF RunSkips, MayStart
  <2>2. Head1 \in Tasks
    BY <2>1 DEF IInv, TypeOK, Head1
  <2>3. Head1 = RunTask(Head1.id) /\ Head1.id \in Requests
    BY <2>1, <2>2, TaskIs
  <2>4. EndsRun(Head1.id)
    BY <1>6, <2>1, <2>3 DEF RunSkips, EndsRun
  <2> QED BY <2>3, <2>4 DEF ChainStep
<1>7. CASE RunPrompts \/ \E a \in Agents : RunBuilds(a)
  <2>1. done < Len(tasks) /\ Head1.op = "run" /\ runningRequestId' = Head1.id
    BY <1>7 DEF RunPrompts, RunBuilds, RunOpens, MayStart
  <2>2. Head1 \in Tasks
    BY <2>1 DEF IInv, TypeOK, Head1
  <2>3. Head1 = RunTask(runningRequestId')
    BY <2>1, <2>2, TaskIs
  <2>4. Proceeds
    BY <1>7, <2>1, <2>3 DEF RunPrompts, RunBuilds, RunOpens, Proceeds
  <2> QED BY <2>4 DEF ChainStep
<1>8. CASE BuiltThenPrompts
  <2>1. done < Len(tasks) /\ Head1 = RunTask(runningRequestId)
    BY <1>8 DEF IInv, Chain, BuiltThenPrompts, Built
  <2>2. Proceeds
    BY <1>8, <2>1 DEF BuiltThenPrompts, Built, Proceeds
  <2> QED BY <2>2 DEF ChainStep
<1>9. CASE BuiltThenSkips \/ BuildFails \/ AskSettles
  <2>1. /\ stage \in {"building", "asking"} /\ RunEnds
        /\ UNCHANGED <<tasks, received, spared, prompted, closed>>
    BY <1>9 DEF BuiltThenSkips, Built, BuildFails, AskSettles
  <2>2. runningRequestId \in Requests /\ EndsRun(runningRequestId)
    BY <2>1, RunEndsTypes DEF EndsRun
  <2> QED BY <2>2 DEF ChainStep
<1>10. CASE ControlIdle \/ Teardown
  <2>1. EndsControl
    BY <1>10 DEF ControlIdle, Teardown, MayStart, EndsControl
  <2> QED BY <2>1 DEF ChainStep
<1>11. CASE SwitchStarts
  <2>1. Proceeds
    BY <1>11 DEF SwitchStarts, MayStart, Proceeds
  <2> QED BY <2>1 DEF ChainStep
<1>12. ASSUME NEW ok \in BOOLEAN, SwitchSettles(ok)
      PROVE  ChainStep
  <2>1. done < Len(tasks) /\ Head1.op # "run"
    BY <1>12 DEF SwitchSettles, IInv, Chain
  <2>2. EndsControl
    BY <1>12, <2>1 DEF SwitchSettles, EndsControl
  <2> QED BY <2>2 DEF ChainStep
<1> QED BY <1>1, <1>2, <1>3, <1>4, <1>5, <1>6, <1>7, <1>8, <1>9, <1>10, <1>11, <1>12
        DEF Next, AskEnds, AskFails

(* No request gets a second task, and run() stays at the first unsettled   *)
(* one.                                                                    *)
LEMMA StepChain ==
  ASSUME IInv, [Next]_vars
  PROVE  Chain'
<1> USE DEF IInv
<1>1. ChainStep
  BY StepOfChain
<1>2. CASE Quiet \/ \E r \in Requests : Refuses(r) \/ Withdraws(r)
  <2>1. UNCHANGED <<tasks, done, stage, runningRequestId>> /\ received \subseteq received'
    BY <1>2 DEF Quiet, Refuses, Withdraws
  <2> QED BY <2>1 DEF Chain, Head1
<1>3. ASSUME NEW task \in Tasks, Grows(task)
      PROVE  Chain'
  <2>1. /\ Len(tasks') = Len(tasks) + 1 /\ Len(tasks) \in Nat /\ done \in Nat
        /\ done <= Len(tasks)
        /\ \A i \in 1..Len(tasks) : tasks'[i] = tasks[i]
        /\ tasks'[Len(tasks) + 1] = task
        /\ tasks \in Seq(Tasks)
    BY <1>3, Enqueued DEF Grows, Enqueue, TypeOK
  <2>2. /\ task.op = "run" => task.id \notin received /\ task.id \in received'
        /\ received \subseteq received'
        /\ UNCHANGED <<done, stage, runningRequestId>>
    BY <1>3 DEF Grows
  <2>3. \A i \in 1..Len(tasks)' : i \in 1..Len(tasks) \/ i = Len(tasks) + 1
    BY <2>1
  <2>4. \A i \in 1..Len(tasks) : tasks[i].op = "run" => tasks[i] # task
    <3>1. \A i \in 1..Len(tasks) : tasks[i].op = "run" => tasks[i].id \in received
      BY DEF Chain
    <3> QED BY <2>2, <3>1
  <2>5. ASSUME NEW i \in 1..Len(tasks'), NEW j \in 1..Len(tasks'),
               tasks'[i].op = "run", tasks'[j] = tasks'[i]
        PROVE  i = j
    <3>1. CASE i \in 1..Len(tasks) /\ j \in 1..Len(tasks)
      BY <2>1, <2>5, <3>1 DEF Chain
    <3>2. CASE i \in 1..Len(tasks) /\ j = Len(tasks) + 1
      BY <2>1, <2>4, <2>5, <3>2
    <3>3. CASE i = Len(tasks) + 1 /\ j \in 1..Len(tasks)
      BY <2>1, <2>4, <2>5, <3>3
    <3> QED BY <2>3, <3>1, <3>2, <3>3
  <2>6. ASSUME NEW i \in 1..Len(tasks'), tasks'[i].op = "run"
        PROVE  tasks'[i].id \in received'
    BY <2>1, <2>2, <2>3, <2>6 DEF Chain
  <2>7. /\ stage' # "idle" => done' < Len(tasks')
        /\ stage' \in {"building", "asking"} => Head1' = RunTask(runningRequestId')
        /\ stage' = "switching" => Head1'.op \in {"switch", "reload"}
    <3>1. CASE done < Len(tasks)
      <4>1. done + 1 \in 1..Len(tasks) /\ Head1' = Head1
        BY <2>1, <2>2, <3>1 DEF Head1
      <4> QED BY <2>1, <2>2, <3>1, <4>1 DEF Chain
    <3>2. CASE ~(done < Len(tasks))
      BY <2>2, <3>2 DEF Chain, TypeOK
    <3> QED BY <3>1, <3>2
  <2> QED BY <2>5, <2>6, <2>7 DEF Chain
<1>4. CASE Proceeds
  <2>1. UNCHANGED <<tasks, done, received>> /\ Head1' = Head1
    BY <1>4 DEF Proceeds, Head1
  <2> QED BY <1>4, <2>1 DEF Chain, Proceeds
<1>5. CASE EndsControl \/ \E r \in Requests : EndsRun(r)
  <2>1. UNCHANGED <<tasks, received>> /\ stage' = "idle"
    BY <1>5 DEF EndsControl, EndsRun, TaskSettles
  <2> QED BY <2>1 DEF Chain
<1> QED BY <1>1, <1>2, <1>3, <1>4, <1>5 DEF ChainStep

(* What becomes of each request in a step.                                 *)
LEMMA StepStanding ==
  ASSUME IInv, ChainStep
  PROVE  /\ \A r \in Requests : r \in received => r \in received'
         /\ \A r \in Requests : Settled(r) => Admitted(r)
         /\ \A r \in Requests : Admitted(r) => r \in received
         /\ \A r \in Requests : Settled(r) => Settled(r)'
         /\ \A r \in Requests : Admitted(r) => Admitted(r)'
         /\ \A r \in Requests : r \in received /\ Admitted(r)' => Admitted(r)
         /\ \A r \in Requests : Settled(r)' /\ ~Settled(r) => EndsRun(r)
<1> USE DEF IInv
<1>1. tasks \in Seq(Tasks) /\ done \in Nat /\ Len(tasks) \in Nat /\ done <= Len(tasks)
  BY DEF TypeOK
<1>2. \A r \in Requests : Settled(r) => Admitted(r)
  BY <1>1 DEF Settled, Admitted
<1>3. \A r \in Requests : Admitted(r) => r \in received
  BY <1>1, RunTaskOf DEF Admitted, Chain
<1>4. CASE Quiet \/ Proceeds \/ \E r \in Requests : Refuses(r) \/ Withdraws(r)
  <2>1. UNCHANGED <<tasks, done>> /\ received \subseteq received'
    BY <1>4 DEF Quiet, Proceeds, Refuses, Withdraws
  <2>2. \A r : (Settled(r)' <=> Settled(r)) /\ (Admitted(r)' <=> Admitted(r))
    BY <2>1 DEF Settled, Admitted
  <2> QED BY <1>2, <1>3, <2>1, <2>2
<1>5. ASSUME NEW task \in Tasks, Grows(task)
      PROVE  /\ received \subseteq received'
             /\ \A r \in Requests : Settled(r)' <=> Settled(r)
             /\ \A r \in Requests : Admitted(r) => Admitted(r)'
             /\ \A r \in Requests : r \in received /\ Admitted(r)' => Admitted(r)
  <2>1. \A r : /\ Settled(r)' <=> Settled(r)
               /\ Admitted(r)' <=> Admitted(r) \/ task = RunTask(r)
    BY <1>5, Enqueued DEF Grows, Enqueue
  <2>2. \A r \in Requests : task = RunTask(r) => r \notin received
    BY <1>5, RunTaskOf DEF Grows
  <2>3. received \subseteq received'
    BY <1>5 DEF Grows
  <2> QED BY <2>1, <2>2, <2>3
<1>6. ASSUME EndsControl \/ \E r \in Requests : EndsRun(r)
      PROVE  /\ received \subseteq received'
             /\ \A r \in Requests : Settled(r)' <=> Settled(r) \/ Head1 = RunTask(r)
             /\ \A r \in Requests : Admitted(r)' <=> Admitted(r)
             /\ \A r \in Requests : Head1 = RunTask(r) => EndsRun(r)
  <2>1. done < Len(tasks) /\ TaskSettles /\ UNCHANGED <<tasks, received>>
    BY <1>6 DEF EndsControl, EndsRun
  <2>2. \A r : /\ Settled(r)' <=> Settled(r) \/ Head1 = RunTask(r)
               /\ Admitted(r)' <=> Admitted(r)
    BY <2>1, Settles
  <2>3. ASSUME NEW r \in Requests, Head1 = RunTask(r)
        PROVE  EndsRun(r)
    <3>1. ~EndsControl
      BY <2>3, RunTaskOf DEF EndsControl
    <3>2. PICK q \in Requests : EndsRun(q)
      BY <1>6, <3>1
    <3>3. q = r
      BY <2>3, <3>2, RunTaskOf DEF EndsRun
    <3> QED BY <3>2, <3>3
  <2> QED BY <2>1, <2>2, <2>3
<1> QED BY <1>2, <1>3, <1>4, <1>5, <1>6 DEF ChainStep

(* A request is marked by the step that settles its task, or refused at    *)
(* once.                                                                   *)
LEMMA StepTold ==
  ASSUME IInv, [Next]_vars
  PROVE  Told'
<1> USE DEF IInv
<1>1. ChainStep
  BY StepOfChain
<1>2. /\ \A r \in Requests : r \in received => r \in received'
      /\ \A r \in Requests : Settled(r) => Admitted(r)
      /\ \A r \in Requests : Admitted(r) => r \in received
      /\ \A r \in Requests : Settled(r) => Settled(r)'
      /\ \A r \in Requests : Admitted(r) => Admitted(r)'
      /\ \A r \in Requests : r \in received /\ Admitted(r)' => Admitted(r)
      /\ \A r \in Requests : Settled(r)' /\ ~Settled(r) => EndsRun(r)
  BY <1>1, StepStanding
<1> SUFFICES ASSUME NEW r \in Requests
             PROVE  /\ r \notin received' => markers'[r] = 0
                    /\ markers'[r] <= 1
                    /\ Admitted(r)' /\ ~Settled(r)' => markers'[r] = 0
                    /\ r \in received' /\ ~closed' =>
                         (markers'[r] = 1 <=> (Admitted(r)' => Settled(r)'))
  BY DEF Told, ExactlyOneMarker
<1>3. /\ markers[r] \in Nat /\ markers[r] <= 1
      /\ r \notin received => markers[r] = 0
      /\ Admitted(r) /\ ~Settled(r) => markers[r] = 0
      /\ r \in received /\ ~closed => (markers[r] = 1 <=> (Admitted(r) => Settled(r)))
  BY DEF Told, ExactlyOneMarker, TypeOK
<1>4. closed => closed'
  BY <1>1 DEF ChainStep, Quiet, Grows, Refuses, Withdraws, Proceeds, EndsRun, EndsControl
<1>5. CASE EndsRun(r)
  <2>1. Admitted(r) /\ ~Settled(r) /\ r \in received
    BY <1>5, HeadUnsettled DEF EndsRun
  <2>2. Settled(r)' /\ received' = received /\ closed' = closed
    BY <1>5, Settles DEF EndsRun
  <2>3. markers'[r] = IF closed THEN markers[r] ELSE markers[r] + 1
    BY <1>5, MarkerType DEF EndsRun
  <2> QED BY <1>2, <1>3, <2>1, <2>2, <2>3
<1>6. CASE Refuses(r)
  <2>1. /\ ~closed /\ r \notin received /\ r \in received' /\ markers'[r] = markers[r] + 1
        /\ UNCHANGED <<tasks, done, closed>>
    BY <1>6, MarkerType DEF Refuses
  <2>2. ~Admitted(r)
    BY <1>2, <2>1
  <2>3. ~Admitted(r)'
    BY <2>1, <2>2 DEF Admitted
  <2> QED BY <1>3, <2>1, <2>3
<1>7. CASE ~EndsRun(r) /\ ~Refuses(r)
  <2>1. markers'[r] = markers[r]
    <3>1. ASSUME NEW q \in Requests, q # r, SendMarker(q)
          PROVE  markers'[r] = markers[r]
      BY <3>1, MarkerType
    <3> QED BY <1>1, <1>7, <3>1 DEF ChainStep, Quiet, Grows, Refuses, Withdraws, Proceeds,
                                    EndsRun, EndsControl
  <2>2. Settled(r)' <=> Settled(r)
    BY <1>2, <1>7
  <2>3. r \notin received /\ r \in received' => Admitted(r)' /\ ~Settled(r)'
    <3>1. ASSUME r \notin received, r \in received'
          PROVE  Admitted(r)' /\ ~Settled(r)'
      <4>1. PICK task \in Tasks : Grows(task) /\ task.op = "run" /\ task.id = r
        BY <1>1, <1>7, <3>1 DEF ChainStep, Quiet, Grows, Refuses, Withdraws, Proceeds, EndsRun,
                                EndsControl
      <4>2. task = RunTask(r)
        BY <4>1, TaskIs
      <4>3. Admitted(r)'
        BY <4>1, <4>2, Enqueued DEF Grows, Enqueue
      <4> QED BY <1>2, <2>2, <3>1, <4>3
    <3> QED BY <3>1
  <2>4. r \in received => (Admitted(r)' <=> Admitted(r))
    BY <1>2
  <2>5. r \notin received => ~Admitted(r) /\ ~Settled(r)
    BY <1>2
  <2>6. r \in received \/ r \notin received' \/ (r \notin received /\ r \in received')
    OBVIOUS
  <2>7. r \in received => r \in received'
    BY <1>2
  <2>8. CASE r \in received
    BY <1>3, <1>4, <2>1, <2>2, <2>4, <2>7, <2>8
  <2>9. CASE r \notin received
    BY <1>3, <2>1, <2>2, <2>3, <2>5, <2>9
  <2> QED BY <2>8, <2>9
<1> QED BY <1>5, <1>6, <1>7

(* A withdrawal is forgotten only with the request's own task.             *)
LEMMA StepWithdrawals ==
  ASSUME IInv, [Next]_vars
  PROVE  Withdrawals'
<1> USE DEF IInv
<1>1. ChainStep
  BY StepOfChain
<1>2. /\ \A r \in Requests : r \in received => r \in received'
      /\ \A r \in Requests : r \in received /\ Admitted(r)' => Admitted(r)
      /\ \A r \in Requests : Settled(r) => Settled(r)'
  BY <1>1, StepStanding
<1>3. spared \subseteq Requests /\ received \subseteq Requests
  BY DEF TypeOK
<1>4. spared' \subseteq received' /\ spared' \subseteq Requests
  BY <1>1, <1>2, <1>3 DEF Withdrawals, ChainStep, Quiet, Grows, Refuses, Withdraws, Proceeds,
                          EndsRun, EndsControl
<1>5. ASSUME NEW r \in spared', Admitted(r)', ~Settled(r)'
      PROVE  r \in cancelled'
  <2>1. CASE r \in spared
    <3>1. r \in cancelled
      BY <1>2, <1>3, <1>5, <2>1 DEF Withdrawals
    <3>2. ~EndsRun(r)
      BY <1>5, HeadUnsettled, Settles DEF EndsRun
    <3> QED BY <1>1, <3>1, <3>2 DEF ChainStep, Quiet, Grows, Refuses, Withdraws, Proceeds,
                                    EndsRun, EndsControl
  <2>2. CASE r \notin spared
    BY <1>1, <1>5, <2>2 DEF ChainStep, Quiet, Grows, Refuses, Withdraws, Proceeds, EndsRun,
                            EndsControl
  <2> QED BY <2>1, <2>2
<1>6. spared' \cap prompted' = {}
  <2>1. CASE Proceeds
    <3>1. \A r : /\ prompted' = prompted \cup {r} /\ r = runningRequestId'
                 /\ stage' = "asking" /\ r \notin cancelled
                 => r \notin spared
      BY <2>1, HeadUnsettled, RunTaskOf DEF Proceeds, Withdrawals
    <3> QED BY <2>1, <3>1 DEF Proceeds, Withdrawals, WithdrawnNeverPrompted
  <2>2. CASE ~Proceeds
    BY <1>1, <2>2 DEF ChainStep, Quiet, Grows, Refuses, Withdraws, EndsRun, EndsControl,
                      Withdrawals, WithdrawnNeverPrompted
  <2> QED BY <2>1, <2>2
<1> QED BY <1>4, <1>5, <1>6 DEF Withdrawals, WithdrawnNeverPrompted

(* Every step keeps the state of the connection well formed.               *)
LEMMA StepTypes ==
  ASSUME IInv, [Next]_vars
  PROVE  TypeOK'
<1>1. CASE \/ ToolCall \/ ToolResponse \/ (\E c \in Bridge!CallIds : ToolTimeout(c))
           \/ UNCHANGED vars
  <2>1. UNCHANGED connVars
    BY <1>1 DEF ToolCall, ToolResponse, ToolTimeout, vars
  <2> QED BY <2>1 DEF IInv, TypeOK, connVars
<1> QED BY <1>1, MessageTypes, RunTypes, ControlTypes DEF Next, AskEnds, AskFails

-----------------------------------------------------------------------------
(* The conversation *)

(* No step leaves a second conversation alive or one that nobody awaits    *)
(* building.                                                               *)
LEMMA StepConversation ==
  ASSUME IInv, [Next]_vars
  PROVE  Conversation'
<1> USE DEF IInv
<1>1. CASE UNCHANGED <<closed, stage, awaited, agent, modelKnown, agentState, doomed>>
  BY <1>1 DEF Conversation
<1>2. CASE \/ HelloMismatch \/ (\E tools \in BOOLEAN : HelloMatch(tools))
           \/ (\E r \in Requests : AiRequest(r) \/ AiCancel(r))
           \/ ConversationReset \/ (\E op \in {"switch", "reload"} : Control(op))
           \/ ToolCall \/ ToolResponse \/ (\E c \in Bridge!CallIds : ToolTimeout(c))
           \/ UNCHANGED vars
  BY <1>1, <1>2 DEF HelloMismatch, HelloMatch, AiRequest, AiCancel, ConversationReset, Control,
                    ToolCall, ToolResponse, ToolTimeout, vars, connVars
<1>3. CASE Dispose
  BY <1>3 DEF Dispose, Conversation, TypeOK
<1>4. CASE RunSkips
  BY <1>4 DEF RunSkips, MayStart, TaskSettles, Conversation
<1>5. CASE RunPrompts
  BY <1>5 DEF RunPrompts, RunOpens, MayStart, Conversation, TypeOK
<1>6. ASSUME NEW a \in Agents, RunBuilds(a)
      PROVE  Conversation'
  <2>1. /\ agentState'[a] = "building"
        /\ \A b \in Agents \ {a} : agentState'[b] = agentState[b]
    BY <1>6 DEF RunBuilds, TypeOK
  <2> QED BY <1>6, <2>1, AgentAssumption DEF RunBuilds, RunOpens, MayStart, Conversation,
                                             TypeOK
<1>7. CASE BuiltThenPrompts \/ BuiltThenSkips
  <2>1. /\ Built /\ stage' \in {"asking", "idle"} /\ UNCHANGED <<closed, agent, doomed>>
        /\ stage' = "asking" => awaited' = awaited
    BY <1>7 DEF BuiltThenPrompts, BuiltThenSkips, Built, RunEnds, TaskSettles
  <2>2. awaited \in Agents /\ stage = "building"
    BY <2>1 DEF Conversation, Built
  <2>3. /\ ~closed => agentState'[awaited] = "live"
        /\ \A b \in Agents \ {awaited} : agentState'[b] = agentState[b]
    BY <2>1, <2>2 DEF Built, Conversation, TypeOK
  <2>4. modelKnown' = TRUE
    BY <2>1 DEF Built
  <2> QED BY <2>1, <2>2, <2>3, <2>4 DEF Conversation, TypeOK
<1>8. CASE BuildFails
  <2>1. awaited \in Agents /\ stage = "building"
    BY <1>8 DEF Conversation, BuildFails
  <2>2. /\ agentState'[awaited] = "failed"
        /\ \A b \in Agents \ {awaited} : agentState'[b] = agentState[b]
    BY <1>8, <2>1 DEF BuildFails, TypeOK
  <2> QED BY <1>8, <2>1, <2>2 DEF BuildFails, RunEnds, TaskSettles, Conversation, TypeOK
<1>9. CASE AskEnds \/ AskFails
  BY <1>9 DEF AskEnds, AskFails, AskSettles, RunEnds, TaskSettles, Conversation
<1>10. CASE ControlIdle
  BY <1>10 DEF ControlIdle, MayStart, TaskSettles, Conversation
<1>11. CASE Teardown
  <2>1. agent \in Agents /\ stage = "idle"
    BY <1>11 DEF Teardown, MayStart, TypeOK
  <2>2. /\ agentState'[agent] = "disposed"
        /\ \A b \in Agents \ {agent} : agentState'[b] = agentState[b]
    BY <1>11, <2>1 DEF Teardown, TypeOK
  <2> QED BY <1>11, <2>1, <2>2 DEF Teardown, TaskSettles, Conversation
<1>12. CASE SwitchStarts
  BY <1>12 DEF SwitchStarts, MayStart, Conversation
<1>13. ASSUME NEW ok \in BOOLEAN, SwitchSettles(ok)
       PROVE  Conversation'
  BY <1>13 DEF SwitchSettles, TaskSettles, Conversation, TypeOK
<1> QED BY <1>2, <1>3, <1>4, <1>5, <1>6, <1>7, <1>8, <1>9, <1>10, <1>11, <1>12, <1>13 DEF Next

-----------------------------------------------------------------------------
(* The window *)

(* Only requests of this connection are on its promise chain.              *)
LEMMA AdmittedRequest ==
  ASSUME TypeOK, NEW r, Admitted(r)
  PROVE  r \in Requests
<1>1. PICK i \in 1..Len(tasks) : tasks[i] = RunTask(r)
  BY DEF Admitted
<1>2. tasks[i] \in Tasks
  BY DEF TypeOK
<1> QED BY <1>1, <1>2, TaskIs

(* What had its turn stays so, while one request runs and after it.        *)
LEMMA HadTheirTurn ==
  ASSUME IInv, [Next]_vars,
         begun' \subseteq begun \cup ({runningRequestId'} \ {NoRequest}),
         stage' \in {"building", "asking"} \/ runningRequestId' = NoRequest,
         \/ runningRequestId' = runningRequestId
         \/ runningRequestId = NoRequest
         \/ EndsRun(runningRequestId)
  PROVE  \A r \in begun' : Admitted(r)' /\ (Settled(r)' \/ r = runningRequestId')
<1> USE DEF IInv
<1> SUFFICES ASSUME NEW r \in begun'
             PROVE  Admitted(r)' /\ (Settled(r)' \/ r = runningRequestId')
  OBVIOUS
<1>1. ChainStep
  BY StepOfChain
<1>2. CASE r \in begun
  <2>1. Admitted(r) /\ r \in Requests /\ (Settled(r) \/ r = runningRequestId)
    BY <1>2, AdmittedRequest DEF Window
  <2>2. Admitted(r)' /\ (Settled(r) => Settled(r)')
    BY <1>1, <2>1, StepStanding
  <2>3. EndsRun(r) => Settled(r)'
    BY Settles DEF EndsRun
  <2>4. r # NoRequest
    BY <2>1, RunTaskOf
  <2> QED BY <2>1, <2>2, <2>3, <2>4
<1>3. CASE r \notin begun
  <2>1. r = runningRequestId' /\ r # NoRequest
    BY <1>3
  <2>2. stage' \in {"building", "asking"}
    BY <2>1
  <2>3. Chain' /\ TypeOK'
    BY StepChain, StepTypes
  <2>4. Head1' = RunTask(r) /\ done' < Len(tasks')
    BY <2>1, <2>2, <2>3 DEF Chain
  <2>5. done' + 1 \in 1..Len(tasks')
    <3>1. tasks' \in Seq(Tasks) /\ done' \in 0..Len(tasks')
      BY <2>3 DEF TypeOK
    <3>2. Len(tasks') \in Nat /\ done' \in Nat
      BY <3>1
    <3>3. done' < Len(tasks')
      BY <2>4
    <3>4. \A d, n \in Nat : d < n => d + 1 \in 1..n
      OBVIOUS
    <3> QED BY <3>2, <3>3, <3>4
  <2>6. Admitted(r)'
    BY <2>4, <2>5 DEF Admitted, Head1
  <2> QED BY <2>1, <2>6
<1> QED BY <1>2, <1>3

(* The window is opened and closed with run(), and calls are parked        *)
(* inside it only.                                                         *)
LEMMA StepWindow ==
  ASSUME IInv, [Next]_vars
  PROVE  Window'
<1> USE DEF IInv
<1> DEFINE Turns == \A r \in begun' : Admitted(r)' /\ (Settled(r)' \/ r = runningRequestId')
<1> HIDE DEF Turns
<1>0. stage' \in {"building", "asking"} \/ runningRequestId' = NoRequest
  BY StepTypes DEF TypeOK
<1>1. ASSUME begun' = begun, runningRequestId' = runningRequestId
      PROVE  Turns
  BY <1>0, <1>1, HadTheirTurn DEF Turns
<1>2. ASSUME NEW r \in Requests, withdrawn \subseteq withdrawn',
             UNCHANGED <<bridgeVars, bridgeExists, closed, runningRequestId>>
      PROVE  Window'
  BY <1>1, <1>2 DEF Window, bridgeVars, Turns
<1>3. CASE HelloMismatch \/ UNCHANGED vars
  BY <1>1, <1>3 DEF HelloMismatch, vars, connVars, Window, bridgeVars, Turns
<1>4. ASSUME NEW tools \in BOOLEAN, HelloMatch(tools)
      PROVE  Window'
  BY <1>1, <1>4 DEF HelloMatch, Window, bridgeVars, Turns
<1>5. CASE \/ (\E r \in Requests : AiRequest(r)) \/ ConversationReset
           \/ (\E op \in {"switch", "reload"} : Control(op))
           \/ RunSkips \/ BuiltThenPrompts \/ ControlIdle \/ Teardown \/ SwitchStarts
           \/ (\E ok \in BOOLEAN : SwitchSettles(ok))
  <2>1. UNCHANGED <<bridgeVars, bridgeExists, closed, runningRequestId, withdrawn>>
    BY <1>5 DEF AiRequest, ConversationReset, Control, RunSkips, BuiltThenPrompts, Built,
                ControlIdle, Teardown, SwitchStarts, SwitchSettles
  <2> QED BY <1>1, <2>1 DEF Window, bridgeVars, Turns
<1>6. ASSUME NEW r \in Requests, AiCancel(r)
      PROVE  Window'
  <2>1. /\ UNCHANGED <<bridgeExists, closed, runningRequestId, activeRequestId, disposed,
                       begun>>
        /\ pending' \subseteq pending
        /\ aborted' \subseteq aborted \cup {r} /\ withdrawn' = withdrawn \cup {r}
    BY <1>6 DEF AiCancel, Bridge!Abort, Bridge!Release, bridgeVars
  <2> QED BY <1>1, <2>1 DEF Window, Turns
<1>7. CASE Dispose
  <2>1. /\ UNCHANGED <<runningRequestId, begun, aborted, withdrawn>> /\ closed'
        /\ ~bridgeExists'
        /\ activeRequestId' = NoRequest /\ pending' = {}
    BY <1>7 DEF Dispose, Bridge!Dispose, Bridge!RejectAll, bridgeVars, Window
  <2> QED BY <1>1, <2>1 DEF Window, Turns
<1>8. CASE RunPrompts \/ \E a \in Agents : RunBuilds(a)
  <2>1. /\ RunOpens /\ stage = "idle" /\ runningRequestId = NoRequest
        /\ runningRequestId' # NoRequest
    BY <1>8, StepTypes DEF RunPrompts, RunBuilds, RunOpens, MayStart, TypeOK
  <2>2. /\ UNCHANGED <<closed, bridgeExists, disposed, pending, aborted, withdrawn>>
        /\ activeRequestId' = IF bridgeExists THEN runningRequestId' ELSE activeRequestId
        /\ begun' \subseteq begun \cup {runningRequestId'}
    BY <2>1 DEF RunOpens, Bridge!BeginRequest, bridgeVars
  <2>3. Turns
    BY <1>0, <2>1, <2>2, HadTheirTurn DEF Turns
  <2> QED BY <2>1, <2>2, <2>3 DEF Window, Turns
<1>9. CASE BuiltThenSkips \/ BuildFails \/ AskEnds \/ AskFails
  <2>1. /\ stage \in {"building", "asking"} /\ RunEnds
        /\ UNCHANGED <<tasks, received, spared, prompted, closed, bridgeExists, withdrawn>>
    BY <1>9 DEF BuiltThenSkips, Built, BuildFails, AskSettles, AskEnds, AskFails
  <2>2. EndsRun(runningRequestId) /\ runningRequestId' = NoRequest
    BY <2>1, RunEndsTypes DEF EndsRun
  <2>3. /\ activeRequestId' = NoRequest /\ pending' = {}
        /\ UNCHANGED <<begun, aborted, disposed>>
    BY <2>1 DEF RunEnds, Bridge!EndRequest, Bridge!RejectAll, bridgeVars, Window
  <2>4. Turns
    BY <1>0, <2>2, <2>3, HadTheirTurn DEF Turns
  <2> QED BY <2>1, <2>2, <2>3, <2>4 DEF Window, Turns
<1>10. CASE ToolCall
  <2>1. /\ activeRequestId # NoRequest
        /\ UNCHANGED <<activeRequestId, disposed, begun, aborted, runningRequestId,
                       bridgeExists, closed, withdrawn>>
    BY <1>10 DEF ToolCall, Bridge!Call, Bridge!CallAdmitted, connVars
  <2> QED BY <1>1, <2>1 DEF Window, Turns
<1>11. CASE ToolResponse \/ \E c \in Bridge!CallIds : ToolTimeout(c)
  <2>1. /\ pending' \subseteq pending
        /\ UNCHANGED <<activeRequestId, disposed, begun, aborted, runningRequestId,
                       bridgeExists, closed, withdrawn>>
    BY <1>11 DEF ToolResponse, ToolTimeout, Bridge!ReceiveResult, Bridge!ReceiveError,
                 Bridge!SettleResult, Bridge!SettleError, Bridge!TimeoutFires,
                 Bridge!Release, connVars
  <2> QED BY <1>1, <2>1 DEF Window, Turns
<1> QED BY <1>3, <1>4, <1>5, <1>6, <1>7, <1>8, <1>9, <1>10, <1>11 DEF Next

-----------------------------------------------------------------------------
(* A new connection.                                                       *)
LEMMA InitInvariant == Init => IInv
<1> SUFFICES ASSUME Init PROVE IInv
  OBVIOUS
<1> USE DEF Init
<1>0. Len(tasks) = 0 /\ tasks \in Seq(Tasks) /\ 0 \in Nat
  OBVIOUS
<1>1. TypeOK
  <2>1. done \in 0..Len(tasks)
    BY <1>0
  <2>2. /\ markers \in [Requests -> Nat]
        /\ agentState \in [Agents -> {"unborn", "building", "live", "failed", "disposed"}]
    OBVIOUS
  <2> QED BY <1>0, <2>1, <2>2 DEF TypeOK
<1>2. \A r : ~Admitted(r) /\ ~Settled(r)
  BY <1>0 DEF Admitted, Settled
<1>3. Chain
  BY <1>0 DEF Chain
<1>4. Told
  BY <1>2 DEF Told, ExactlyOneMarker
<1>5. Withdrawals
  BY DEF Withdrawals, WithdrawnNeverPrompted
<1>6. Conversation
  BY DEF Conversation
<1>7. Window
  BY DEF Window, Bridge!Init
<1> QED BY <1>1, <1>3, <1>4, <1>5, <1>6, <1>7 DEF IInv

(* The parts together: IInv is inductive.                                  *)
LEMMA StepInvariant == IInv /\ [Next]_vars => IInv'
BY StepTypes, StepChain, StepTold, StepWithdrawals, StepConversation, StepWindow DEF IInv

(* While it is open a connection has one conversation, which nothing       *)
(* replaces or disposes of while run() or a switch waits on it; what       *)
(* `koshell status` reads of it is true; and the tool window is that of    *)
(* the running request, with no call outstanding outside it.               *)
THEOREM ConversationAlwaysSound == Spec => []ConversationSound
<1>1. IInv => ConversationSound
  <2> SUFFICES ASSUME IInv PROVE ConversationSound
    OBVIOUS
  <2> USE DEF IInv
  <2>1. OneConversation /\ ConversationStable /\ SnapshotConsistent
    BY DEF OneConversation, ConversationStable, SnapshotConsistent, Conversation
  <2>2. ToolWindowIsRun
    BY DEF ToolWindowIsRun, Window
  <2> QED BY <2>1, <2>2 DEF ConversationSound
<1> QED BY <1>1, InitInvariant, StepInvariant, PTL DEF Spec

(* Every request is told its end exactly once, whatever is cancelled,      *)
(* fails, is reset or torn down meanwhile, and one withdrawn before its    *)
(* prompt is never put to the model.                                       *)
THEOREM RequestsAlwaysAccounted == Spec => []RequestsAccounted
<1>1. IInv => RequestsAccounted
  BY DEF IInv, Told, Withdrawals, RequestsAccounted
<1> QED BY <1>1, InitInvariant, StepInvariant, PTL DEF Spec

-----------------------------------------------------------------------------
(* The answer service *)

Asked == {r \in Requests : Admitted(r)}
Earlier == {pair \in Requests \X Requests : AheadOf(pair[1], pair[2])}
ToldEnd == {r \in Requests : Admitted(r) /\ markers[r] > 0}

(* A new task is behind all the others.                                    *)
LEMMA EnqueuedBehind ==
  ASSUME TypeOK, NEW task \in Tasks, tasks' = Append(tasks, task), UNCHANGED done
  PROVE  \A q, r : AheadOf(q, r)' <=> AheadOf(q, r) \/ (Admitted(q) /\ task = RunTask(r))
<1>1. /\ Len(tasks') = Len(tasks) + 1 /\ Len(tasks) \in Nat
      /\ \A i \in 1..Len(tasks) : tasks'[i] = tasks[i]
      /\ tasks'[Len(tasks) + 1] = task
  BY Enqueued
<1> SUFFICES ASSUME NEW q, NEW r
             PROVE  AheadOf(q, r)' <=> AheadOf(q, r) \/ (Admitted(q) /\ task = RunTask(r))
  OBVIOUS
<1>2. ASSUME AheadOf(q, r)
      PROVE  AheadOf(q, r)'
  BY <1>1, <1>2 DEF AheadOf
<1>3. ASSUME Admitted(q), task = RunTask(r)
      PROVE  AheadOf(q, r)'
  <2>1. PICK i \in 1..Len(tasks) : tasks[i] = RunTask(q)
    BY <1>3 DEF Admitted
  <2>2. i \in 1..Len(tasks') /\ Len(tasks) + 1 \in 1..Len(tasks') /\ i < Len(tasks) + 1
    BY <1>1
  <2> QED BY <1>1, <1>3, <2>1, <2>2 DEF AheadOf
<1>4. ASSUME AheadOf(q, r)'
      PROVE  AheadOf(q, r) \/ (Admitted(q) /\ task = RunTask(r))
  <2>1. PICK i \in 1..Len(tasks'), j \in 1..Len(tasks') :
          i < j /\ tasks'[i] = RunTask(q) /\ tasks'[j] = RunTask(r)
    BY <1>4 DEF AheadOf
  <2>2. i \in 1..Len(tasks) /\ (j \in 1..Len(tasks) \/ j = Len(tasks) + 1)
    BY <1>1, <2>1
  <2> QED BY <1>1, <2>1, <2>2 DEF AheadOf, Admitted
<1> QED BY <1>2, <1>3, <1>4

(* Whatever is ahead of the first unsettled task has settled.              *)
LEMMA AheadSettled ==
  ASSUME TypeOK, Chain, done < Len(tasks), NEW q, NEW r, Head1 = RunTask(r), AheadOf(q, r)
  PROVE  Settled(q)
<1>1. tasks \in Seq(Tasks) /\ done \in Nat /\ Len(tasks) \in Nat
  BY DEF TypeOK
<1>2. PICK i \in 1..Len(tasks), j \in 1..Len(tasks) :
        i < j /\ tasks[i] = RunTask(q) /\ tasks[j] = RunTask(r)
  BY DEF AheadOf
<1>3. done + 1 \in 1..Len(tasks) /\ tasks[done + 1] = RunTask(r) /\ RunTask(r).op = "run"
  BY <1>1 DEF Head1, RunTask
<1>4. j = done + 1
  BY <1>2, <1>3 DEF Chain
<1>5. i \in 1..done
  BY <1>1, <1>2, <1>4
<1> QED BY <1>2, <1>5 DEF Settled

(* A new connection has been asked nothing.                                *)
LEMMA InitService == Init => Service!Init
<1> SUFFICES ASSUME Init PROVE Service!Init
  OBVIOUS
<1>1. Len(tasks) = 0 /\ ~closed
  BY DEF Init
<1>2. \A r, q : ~Admitted(r) /\ ~AheadOf(q, r)
  BY <1>1 DEF Admitted, AheadOf
<1> QED BY <1>1, <1>2 DEF Service!Init

(* A step of the connection asks one question, tells one end, the first    *)
(* that is due, hangs up, or is not seen.                                  *)
LEMMA StepService ==
  ASSUME IInv, [Next]_vars
  PROVE  [Service!Next]_(Service!vars)
<1> USE DEF IInv
<1>0. ChainStep
  BY StepOfChain
<1>1. SUFFICES \/ UNCHANGED <<Asked, Earlier, ToldEnd, closed>>
               \/ /\ ~closed /\ closed' /\ UNCHANGED <<Asked, Earlier, ToldEnd>>
               \/ \E r \in Requests :
                    /\ ~closed /\ r \notin Asked /\ Asked' = Asked \cup {r}
                    /\ Earlier' = Earlier \cup (Asked \X {r}) /\ UNCHANGED <<ToldEnd, closed>>
               \/ \E r \in Requests :
                    /\ ~closed /\ r \in Asked \ ToldEnd
                    /\ \A q \in Asked : <<q, r>> \in Earlier => q \in ToldEnd
                    /\ ToldEnd' = ToldEnd \cup {r} /\ UNCHANGED <<Asked, Earlier, closed>>
  BY DEF Service!Next, Service!vars, Service!Ask, Service!Tell, Service!HangUp, Asked, Earlier,
         ToldEnd, TypeOK
<1>2. ASSUME UNCHANGED tasks
      PROVE  UNCHANGED <<Asked, Earlier>>
  BY <1>2 DEF Asked, Earlier, Admitted, AheadOf
<1>3. ASSUME UNCHANGED <<tasks, markers>>
      PROVE  UNCHANGED <<Asked, Earlier, ToldEnd>>
  BY <1>2, <1>3 DEF ToldEnd, Admitted
<1>4. CASE Quiet
  <2>1. UNCHANGED <<Asked, Earlier, ToldEnd>> /\ (closed => closed')
    BY <1>3, <1>4 DEF Quiet
  <2>2. closed \in BOOLEAN /\ closed' \in BOOLEAN
    BY StepTypes DEF TypeOK
  <2>3. closed' = closed \/ (~closed /\ closed')
    BY <2>1, <2>2
  <2> QED BY <2>1, <2>3
<1>5. CASE Proceeds \/ EndsControl \/ \E r \in Requests : Withdraws(r)
  BY <1>3, <1>5 DEF Proceeds, EndsControl, Withdraws
<1>6. ASSUME NEW r \in Requests, Refuses(r)
      PROVE  UNCHANGED <<Asked, Earlier, ToldEnd, closed>>
  <2>1. UNCHANGED <<tasks, closed>> /\ \A q \in Requests \ {r} : markers'[q] = markers[q]
    BY <1>6, MarkerType DEF Refuses
  <2>2. ~Admitted(r)
    BY <1>0, <1>6, StepStanding DEF Refuses
  <2>3. \A q : Admitted(q)' <=> Admitted(q)
    BY <2>1 DEF Admitted
  <2> QED BY <1>2, <2>1, <2>2, <2>3 DEF ToldEnd
<1>7. ASSUME NEW task \in Tasks, Grows(task)
      PROVE  \/ UNCHANGED <<Asked, Earlier, ToldEnd, closed>>
             \/ \E r \in Requests :
                  /\ ~closed /\ r \notin Asked /\ Asked' = Asked \cup {r}
                  /\ Earlier' = Earlier \cup (Asked \X {r}) /\ UNCHANGED <<ToldEnd, closed>>
  <2>1. /\ \A r : Admitted(r)' <=> Admitted(r) \/ task = RunTask(r)
        /\ \A q, r : AheadOf(q, r)' <=> AheadOf(q, r) \/ (Admitted(q) /\ task = RunTask(r))
        /\ UNCHANGED <<markers, closed>>
    BY <1>7, Enqueued, EnqueuedBehind DEF Grows, Enqueue
  <2>2. CASE task.op = "run"
    <3>1. task.id \in Requests /\ task = RunTask(task.id) /\ ~closed /\ task.id \notin received
      BY <1>7, <2>2, TaskIs DEF Grows
    <3>2. \A r \in Requests : task = RunTask(r) <=> r = task.id
      BY <3>1, RunTaskOf
    <3>3. ~Admitted(task.id) /\ ~(markers[task.id] > 0)
      BY <1>0, <3>1, StepStanding DEF Told
    <3>4. Asked' = Asked \cup {task.id} /\ task.id \notin Asked
      BY <2>1, <3>1, <3>2, <3>3 DEF Asked
    <3>5. Earlier' = Earlier \cup (Asked \X {task.id})
      BY <2>1, <3>1, <3>2 DEF Asked, Earlier
    <3>6. ToldEnd' = ToldEnd
      BY <2>1, <3>1, <3>2, <3>3 DEF ToldEnd
    <3> QED BY <2>1, <3>1, <3>4, <3>5, <3>6
  <2>3. CASE task.op # "run"
    <3>1. \A r : task # RunTask(r)
      BY <2>3 DEF RunTask
    <3> QED BY <2>1, <3>1 DEF Asked, Earlier, ToldEnd
  <2> QED BY <2>2, <2>3
<1>8. ASSUME NEW r \in Requests, EndsRun(r)
      PROVE  \/ UNCHANGED <<Asked, Earlier, ToldEnd, closed>>
             \/ /\ ~closed /\ r \in Asked \ ToldEnd
                /\ \A q \in Asked : <<q, r>> \in Earlier => q \in ToldEnd
                /\ ToldEnd' = ToldEnd \cup {r} /\ UNCHANGED <<Asked, Earlier, closed>>
  <2>1. done < Len(tasks) /\ Head1 = RunTask(r) /\ SendMarker(r) /\ UNCHANGED <<tasks, closed>>
    BY <1>8 DEF EndsRun
  <2>2. /\ closed => markers' = markers
        /\ ~closed => markers'[r] = markers[r] + 1
        /\ \A q \in Requests \ {r} : markers'[q] = markers[q]
    BY <2>1, MarkerType
  <2>3. Admitted(r) /\ ~Settled(r) /\ markers[r] = 0
    BY <2>1, HeadUnsettled DEF Told, ExactlyOneMarker
  <2>4. CASE closed
    BY <1>3, <2>1, <2>2, <2>4
  <2>5. CASE ~closed
    <3>1. r \in Asked \ ToldEnd
      BY <2>3 DEF Asked, ToldEnd
    <3>2. ASSUME NEW q \in Asked, <<q, r>> \in Earlier
          PROVE  q \in ToldEnd
      <4>1. AheadOf(q, r) /\ Admitted(q) /\ q \in Requests
        BY <3>2 DEF Earlier, Asked
      <4>2. Settled(q) /\ q \in received
        BY <1>0, <2>1, <4>1, AheadSettled, StepStanding
      <4>3. markers[q] = 1
        BY <2>5, <4>1, <4>2 DEF Told, ExactlyOneMarker
      <4> QED BY <4>1, <4>3 DEF ToldEnd
    <3>3. \A q : Admitted(q)' <=> Admitted(q)
      BY <2>1 DEF Admitted
    <3>4. ToldEnd' = ToldEnd \cup {r}
      BY <2>2, <2>3, <2>5, <3>3 DEF ToldEnd
    <3> QED BY <1>2, <2>1, <2>5, <3>1, <3>2, <3>4
  <2> QED BY <2>4, <2>5
<1> QED BY <1>0, <1>4, <1>5, <1>6, <1>7, <1>8 DEF ChainStep

(* The connection implements the answer service: what it accepts it tells  *)
(* the end of in the order it was asked, each once, and nothing is told    *)
(* after one side hangs up.                                                *)
THEOREM AnswersAlwaysInOrder == Spec => Service!Safety
<1>1. Init => Service!Init
  BY InitService
<1>2. IInv /\ [Next]_vars => [Service!Next]_(Service!vars)
  BY StepService
<1> QED BY <1>1, <1>2, InitInvariant, StepInvariant, PTL DEF Spec, Service!Safety

-----------------------------------------------------------------------------
(* The tool bridge *)

(* What the steps of run() and the messages do to the bridge is what       *)
(* tool-bridge.ts expects of its caller: a window is opened for one        *)
(* request at a time and once for each, and nothing is asked of a bridge   *)
(* that was disposed of.                                                   *)
LEMMA StepBridge ==
  ASSUME IInv, BridgeProofs!IInv, [Next]_vars
  PROVE  [Bridge!Next]_bridgeVars
<1> USE DEF IInv
<1>1. CASE UNCHANGED bridgeVars
  BY <1>1
<1>2. CASE \/ HelloMismatch \/ (\E tools \in BOOLEAN : HelloMatch(tools))
           \/ (\E r \in Requests : AiRequest(r)) \/ ConversationReset
           \/ (\E op \in {"switch", "reload"} : Control(op))
           \/ RunSkips \/ BuiltThenPrompts \/ ControlIdle \/ Teardown \/ SwitchStarts
           \/ (\E ok \in BOOLEAN : SwitchSettles(ok)) \/ UNCHANGED vars
  <2>1. UNCHANGED bridgeVars
    BY <1>2 DEF HelloMismatch, HelloMatch, AiRequest, ConversationReset, Control, RunSkips,
                BuiltThenPrompts, ControlIdle, Teardown, SwitchStarts, SwitchSettles, vars
  <2> QED BY <2>1
<1>3. ASSUME NEW r \in Requests, AiCancel(r)
      PROVE  [Bridge!Next]_bridgeVars
  <2>1. UNCHANGED bridgeVars \/ Bridge!Abort(r)
    BY <1>3 DEF AiCancel
  <2>2. r \notin aborted
    BY <1>3 DEF AiCancel, Window
  <2>3. Bridge!Abort(r) => Bridge!AbortTurn(r)
    BY <2>2 DEF Bridge!AbortTurn
  <2> QED BY <2>1, <2>3 DEF Bridge!Next
<1>4. CASE Dispose
  <2>1. UNCHANGED bridgeVars \/ Bridge!Dispose
    BY <1>4 DEF Dispose
  <2>2. ~disposed
    BY <1>4 DEF Dispose, Window
  <2> QED BY <2>1, <2>2 DEF Bridge!Next, Bridge!CloseConnection
<1>5. CASE RunPrompts \/ \E a \in Agents : RunBuilds(a)
  <2>1. RunOpens
    BY <1>5 DEF RunPrompts, RunBuilds
  <2>2. /\ done < Len(tasks) /\ Head1.op = "run" /\ stage = "idle"
        /\ UNCHANGED bridgeVars \/ (bridgeExists /\ Bridge!BeginRequest(Head1.id))
    BY <2>1 DEF RunOpens, MayStart
  <2>3. Head1 \in Tasks
    BY <2>2 DEF TypeOK, Head1
  <2>4. Head1 = RunTask(Head1.id) /\ Head1.id \in Requests /\ Head1.id # NoRequest
    BY <2>2, <2>3, TaskIs, RunTaskOf
  <2>5. ~Settled(Head1.id)
    BY <2>2, <2>4, HeadUnsettled
  <2>6. runningRequestId = NoRequest
    BY <2>2 DEF TypeOK
  <2>7. Head1.id \notin begun /\ activeRequestId = NoRequest
    BY <2>4, <2>5, <2>6 DEF Window
  <2>8. bridgeExists => ~disposed
    BY DEF Window
  <2> QED BY <2>2, <2>4, <2>7, <2>8 DEF Bridge!Next, Bridge!StartTurn
<1>6. CASE BuiltThenSkips \/ BuildFails \/ AskEnds \/ AskFails
  <2>1. UNCHANGED bridgeVars \/ Bridge!EndRequest
    BY <1>6 DEF BuiltThenSkips, BuildFails, AskEnds, AskFails, AskSettles, RunEnds
  <2>2. CASE activeRequestId # NoRequest
    BY <2>1, <2>2 DEF Bridge!Next, Bridge!EndTurn
  <2>3. CASE activeRequestId = NoRequest /\ Bridge!EndRequest
    <3>1. pending = {}
      BY <2>3, BridgeProofs!NoWindowNothingParked, BridgeAssumption
      DEF BridgeProofs!IInv, BridgeProofs!RegistryCoherent, BridgeProofs!Waiting
    <3>2. outcome \in [Bridge!CallIds -> Bridge!Outcomes]
      BY DEF BridgeProofs!IInv, BridgeProofs!TypeOK, BridgeProofs!CallIds,
             BridgeProofs!Outcomes, BridgeProofs!Failures, Bridge!CallIds, Bridge!Outcomes,
             Bridge!Failures
    <3>3. outcome' = outcome
      BY <2>3, <3>1, <3>2 DEF Bridge!EndRequest, Bridge!RejectAll, Bridge!Resolved
    <3>4. UNCHANGED bridgeVars
      BY <2>3, <3>1, <3>3 DEF Bridge!EndRequest, Bridge!RejectAll, bridgeVars
    <3> QED BY <3>4
  <2> QED BY <2>1, <2>2, <2>3
<1>7. CASE ToolCall \/ ToolResponse \/ \E c \in Bridge!CallIds : ToolTimeout(c)
  BY <1>7 DEF ToolCall, ToolResponse, ToolTimeout, Bridge!Next
<1> QED BY <1>2, <1>3, <1>4, <1>5, <1>6, <1>7 DEF Next

(* A connection starts with a bridge nobody has used.                      *)
LEMMA InitBridge == Init => BridgeProofs!IInv
<1> SUFFICES ASSUME Init PROVE BridgeProofs!IInv
  OBVIOUS
<1>1. BridgeProofs!Init
  BY DEF Init, Bridge!Init, BridgeProofs!Init, Bridge!CallIds, BridgeProofs!CallIds
<1> QED BY <1>1, BridgeProofs!InitInvariant, BridgeAssumption

(* ToolBridgeProofs speaks of the same bridge.                             *)
LEMMA SameBridge ==
  /\ Bridge!Next => BridgeProofs!Next
  /\ BridgeProofs!IInv => Bridge!BridgeSound /\ Bridge!AnswersAreGenuine
  /\ BridgeProofs!vars = bridgeVars
<1> USE DEF Bridge!CallIds, BridgeProofs!CallIds
<1>1. \A r : Bridge!StartTurn(r) => BridgeProofs!StartTurn(r)
  BY DEF Bridge!StartTurn, Bridge!BeginRequest, BridgeProofs!StartTurn,
         BridgeProofs!BeginRequest
<1>2. Bridge!EndTurn => BridgeProofs!EndTurn
  BY DEF Bridge!EndTurn, Bridge!EndRequest, Bridge!RejectAll, Bridge!Resolved,
         BridgeProofs!EndTurn, BridgeProofs!EndRequest, BridgeProofs!RejectAll,
         BridgeProofs!Resolved
<1>3. Bridge!CloseConnection => BridgeProofs!CloseConnection
  BY DEF Bridge!CloseConnection, Bridge!Dispose, Bridge!RejectAll, Bridge!Resolved,
         BridgeProofs!CloseConnection, BridgeProofs!Dispose, BridgeProofs!RejectAll,
         BridgeProofs!Resolved
<1>4. Bridge!Call => BridgeProofs!Call
  BY DEF Bridge!Call, Bridge!CallAdmitted, BridgeProofs!Call, BridgeProofs!CallAdmitted
<1>5. \A S, code : Bridge!Release(S, code) => BridgeProofs!Release(S, code)
  BY DEF Bridge!Release, Bridge!Resolved, BridgeProofs!Release, BridgeProofs!Resolved
<1>6. \A r, c, n : Bridge!SettleResult(r, c, n) => BridgeProofs!SettleResult(r, c, n)
  BY <1>5 DEF Bridge!SettleResult, Bridge!AnswerAccepted, BridgeProofs!SettleResult,
              BridgeProofs!AnswerAccepted
<1>7. \A r, c : Bridge!SettleError(r, c) => BridgeProofs!SettleError(r, c)
  BY <1>5 DEF Bridge!SettleError, Bridge!AnswerAccepted, BridgeProofs!SettleError,
              BridgeProofs!AnswerAccepted
<1>8. /\ Bridge!ReceiveResult => BridgeProofs!ReceiveResult
      /\ Bridge!ReceiveError => BridgeProofs!ReceiveError
  BY <1>6, <1>7 DEF Bridge!ReceiveResult, Bridge!ReceiveError, Bridge!Answerable,
                    BridgeProofs!ReceiveResult, BridgeProofs!ReceiveError,
                    BridgeProofs!Answerable
<1>9. \A c : Bridge!TimeoutFires(c) => BridgeProofs!TimeoutFires(c)
  BY <1>5 DEF Bridge!TimeoutFires, BridgeProofs!TimeoutFires
<1>10. \A r : Bridge!AbortTurn(r) => BridgeProofs!AbortTurn(r)
  BY <1>5 DEF Bridge!AbortTurn, Bridge!Abort, BridgeProofs!AbortTurn, BridgeProofs!Abort
<1>11. Bridge!Next => BridgeProofs!Next
  BY <1>1, <1>2, <1>3, <1>4, <1>8, <1>9, <1>10 DEF Bridge!Next, BridgeProofs!Next
<1>12. /\ BridgeProofs!TypeOK => Bridge!TypeOK
       /\ BridgeProofs!RegistryCoherent => Bridge!RegistryCoherent
       /\ BridgeProofs!WaitingBelongsToActive => Bridge!WaitingBelongsToActive
       /\ BridgeProofs!AnswersAreGenuine => Bridge!AnswersAreGenuine
  BY DEF Bridge!TypeOK, Bridge!Outcomes, Bridge!Failures, BridgeProofs!TypeOK,
         BridgeProofs!Outcomes, BridgeProofs!Failures, Bridge!RegistryCoherent,
         BridgeProofs!RegistryCoherent, Bridge!WaitingBelongsToActive,
         BridgeProofs!WaitingBelongsToActive, Bridge!AnswersAreGenuine,
         BridgeProofs!AnswersAreGenuine, Bridge!Waiting, BridgeProofs!Waiting
<1>13. BridgeProofs!vars = bridgeVars
  BY DEF BridgeProofs!vars, bridgeVars
<1> QED BY <1>11, <1>12, <1>13 DEF BridgeProofs!IInv, Bridge!BridgeSound

(* So the bridge's own invariant is kept by every step of the connection.  *)
LEMMA StepBridgeInvariant ==
  IInv /\ BridgeProofs!IInv /\ [Next]_vars => BridgeProofs!IInv'
<1> SUFFICES ASSUME IInv, BridgeProofs!IInv, [Next]_vars PROVE BridgeProofs!IInv'
  OBVIOUS
<1>1. BridgeProofs!Next \/ UNCHANGED bridgeVars
  BY StepBridge, SameBridge
<1>2. BridgeProofs!Next \/ UNCHANGED BridgeProofs!vars
  BY <1>1 DEF bridgeVars, BridgeProofs!vars
<1>3. [BridgeProofs!Next]_(BridgeProofs!vars)
  BY <1>2
<1> QED BY <1>3, BridgeProofs!StepInvariant, BridgeAssumption

(* The connection uses the bridge as the bridge expects to be used: every  *)
(* behaviour of run(), of the messages and of teardown is, seen from       *)
(* tool-bridge.ts, one of module ToolBridge's own.                         *)
THEOREM BridgeUsedAsExpected == Spec => Bridge!Init /\ [][Bridge!Next]_bridgeVars
<1>1. Init => Bridge!Init
  BY DEF Init
<1>2. IInv /\ BridgeProofs!IInv /\ [Next]_vars => [Bridge!Next]_bridgeVars
  BY StepBridge
<1> QED BY <1>1, <1>2, InitInvariant, StepInvariant, InitBridge, StepBridgeInvariant, PTL
           DEF Spec

(* Hence what is proved of the bridge holds inside the daemon: no parked   *)
(* call outlives its request or the connection, and no answer settles a    *)
(* call of another request.                                                *)
THEOREM BridgeSoundInUse == Spec => [](Bridge!BridgeSound /\ Bridge!AnswersAreGenuine)
<1>1. BridgeProofs!IInv => Bridge!BridgeSound /\ Bridge!AnswersAreGenuine
  BY SameBridge
<1> QED BY <1>1, InitInvariant, StepInvariant, InitBridge, StepBridgeInvariant, PTL DEF Spec
=============================================================================
