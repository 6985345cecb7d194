------------------------------ MODULE Control ------------------------------
(***************************************************************************)
(* koshell's command line talking to the daemon: `koshell model` (with its *)
(* picker), `reload`, `status` and `auth`, each a process of its own with  *)
(* a connection of its own (model_cli.rs, reload_cli.rs, status_cli.rs,    *)
(* auth_cli.rs), and the daemon's side of them (server.ts,                 *)
(* model-service.ts, auth-flow.ts).  A command is routed to the connection *)
(* of the terminal it was typed in through a registry of session ids, and  *)
(* waits in that connection's queue behind the answers being given there.  *)
(* A model of koshell.toml has two parts, the root model and the rest.     *)
(***************************************************************************)
EXTENDS Naturals, Sequences, FiniteSets

CONSTANTS
    Commands,    \* processes of the command line
    Sessions,    \* terminals, by the id in KOSHELL
    Conns,       \* connections of terminals, one after another
    Catalog,     \* the models there are, in the order the picker shows them
    NoOne,
    Rows,        \* rows the picker has for models
    MaxPrompts,  \* bound: questions of one login
    Bounds       \* bounds: what commands may ask for, and how many
                 \* connections, questions and deaths of the daemon, which edits

ASSUME ControlAssumption ==
    /\ Catalog \in Seq({Catalog[i] : i \in DOMAIN Catalog}) /\ Len(Catalog) > 0
    /\ \A i \in DOMAIN Catalog : Catalog[i] # "invalid"
    /\ Rows \in Nat \ {0} /\ MaxPrompts \in Nat
    /\ Conns \subseteq Nat /\ IsFiniteSet(Conns)
    /\ NoOne \notin Conns \cup Commands \cup Sessions /\ "stale" \notin Commands \cup {NoOne}

Models == {Catalog[i] : i \in DOMAIN Catalog}
Configs == [model : Models \cup {"invalid"}, rest : 0..1]
Initial == [model |-> Catalog[1], rest |-> 0]

VARIABLES
    cli,       \* the commands
    inbox,     \* what the daemon wrote to each command
    outbox,    \* what each command wrote to the daemon
    task,      \* what the daemon does for each command
    conn,      \* the daemon's connections to terminals
    registry,  \* sessions: session id to connection
    file,      \* koshell.toml
    lock,      \* .koshell.toml.lock
    stored,    \* a credential is stored
    left,      \* one of the Bounds, and what is left of it
    expected,  \* history: the model the last successful set or edit left in the file
    unsettled, \* history: the model of a set whose daemon died before it was settled
    excused    \* history: a failure of the disk or an edit under the lock hit the file

client == <<cli, inbox, outbox>>
config == <<file, lock, expected, unsettled, excused>>
terminals == <<conn, registry>>
vars == <<client, task, terminals, config, stored, left>>

-----------------------------------------------------------------------------
(* Types: ClientMessage and ServerMessage, as far as these commands go. *)

\* Of a request: what, the model, the session it was typed in, --session-only,
\* which is an option of `model` alone.
Kinds == {"set", "reload", "status", "show", "login", "logout"}
Requests ==
    {request \in [kind : Kinds, model : Models \cup {NoOne}, session : Sessions \cup {NoOne},
                  only : BOOLEAN] : request.only => request.kind = "set"}
ToDaemon == Requests \cup [kind : {"answer"}, id : 1..MaxPrompts, null : BOOLEAN]
ToClient ==
    [kind : {"ack"}] \cup [kind : {"prompt"}, id : 1..MaxPrompts]
    \cup [kind : {"result"}, ok : BOOLEAN]
Ack == [kind |-> "ack"]
Result(ok) == [kind |-> "result", ok |-> ok]

\* reload and status are answered without an ack.
Acked(request) == request.kind \notin {"reload", "status"}

NoRequest == [kind |-> "status", model |-> NoOne, session |-> NoOne, only |-> FALSE]
Idle == [phase |-> "none", request |-> NoRequest, target |-> NoOne, previous |-> Initial, wrote |-> FALSE,
         awaited |-> 0, jobs |-> <<>>, flow |-> "off", prompts |-> 0,
         saved |-> FALSE, aborted |-> FALSE, closed |-> FALSE]
Gone == [Idle EXCEPT !.phase = "gone", !.closed = TRUE]
NewConn == [phase |-> "new", session |-> NoOne, agent |-> NoOne, queue |-> <<>>,
            asking |-> FALSE]

\* What commands may ask for, and how often the rest may happen.
Allowances == [requests : SUBSET Requests, conns : Nat, asks : Nat,
               edits : SUBSET Configs, crashes : Nat]
ASSUME BoundsAssumption == Bounds \subseteq Allowances

Init ==
    /\ cli = [c \in Commands |->
                [phase |-> "new", request |-> NoRequest,
                 shown |-> <<>>, selected |-> 0, prompt |-> 0]]
    /\ inbox = [c \in Commands |-> <<>>] /\ outbox = [c \in Commands |-> <<>>]
    /\ task = [c \in Commands |-> Idle]
    /\ conn = [k \in Conns |-> NewConn]
    /\ registry = [s \in Sessions |-> NoOne]
    /\ file = Initial /\ expected = Initial.model
    /\ unsettled = NoOne
    /\ lock = NoOne /\ excused = FALSE /\ stored = FALSE
    /\ left \in Bounds

-----------------------------------------------------------------------------
(* The command line. *)

Waiting(c) == cli[c].phase \in {"asked", "acked", "prompt"}
End(c) == cli' = [cli EXCEPT ![c] =
    [@ EXCEPT !.phase = "done", !.request = NoRequest, !.shown = <<>>, !.selected = 0,
              !.prompt = 0]]
Goto(c, phase) == cli' = [cli EXCEPT ![c].phase = phase]

\* The hello and the request leave in one go.
Sent(c, request) ==
    /\ cli' = [cli EXCEPT ![c].phase = "asked", ![c].request = request,
                          ![c].shown = <<>>, ![c].selected = 0]
    /\ outbox' = [outbox EXCEPT ![c] = Append(@, request)]
    /\ UNCHANGED inbox

\* `koshell model` without a subcommand: the model is still to be picked.
WithPicker(request) == request.kind = "set" /\ request.model = NoOne

\* ensure_daemon: nothing listens, and none could be started in time (reload
\* and status start none).
Unreachable(c) ==
    /\ cli[c].phase = "new"
    /\ End(c)
    /\ UNCHANGED <<inbox, outbox, task, terminals, config, stored, left>>

\* --session-only is refused by the command itself outside a session.
Start(c, request) ==
    /\ cli[c].phase = "new" /\ ~WithPicker(request)
    /\ IF request.only /\ request.session = NoOne
       THEN End(c) /\ UNCHANGED <<inbox, outbox>>
       ELSE Sent(c, request)
    /\ UNCHANGED <<task, terminals, config, stored, left>>

(* The picker: the catalog is fetched once, before it opens. *)

OpenPicker(c, request) ==
    /\ cli[c].phase = "new" /\ WithPicker(request)
    /\ cli' = [cli EXCEPT ![c].phase = "pick", ![c].request = request,
                          ![c].shown = Catalog, ![c].selected = 1]
    /\ UNCHANGED <<inbox, outbox, task, terminals, config, stored, left>>

\* What a query leaves of the catalog: some of its models, in its order.
Narrowed ==
    UNION {{[i \in 1..n |-> Catalog[at[i]]] :
               at \in {f \in [1..n -> DOMAIN Catalog] :
                        \A i, j \in 1..n : i < j => f[i] < f[j]}} : n \in 0..Len(Catalog)}

\* Typing and Backspace change the models that match and select the first;
\* with none left no row is selected.
PickQuery(c, shown) ==
    /\ cli[c].phase = "pick"
    /\ cli' = [cli EXCEPT ![c].shown = shown,
                          ![c].selected = IF shown = <<>> THEN 0 ELSE 1]
    /\ UNCHANGED <<inbox, outbox, task, terminals, config, stored, left>>

\* Up and Down.
Moved(shown, selected) == {selected - 1, selected + 1} \cap 1..Len(shown)

PickMove(c) ==
    /\ cli[c].phase = "pick"
    /\ \E row \in Moved(cli[c].shown, cli[c].selected) :
         cli' = [cli EXCEPT ![c].selected = row]
    /\ UNCHANGED <<inbox, outbox, task, terminals, config, stored, left>>

\* The first row drawn; Rows of them are.
FirstRow(selected) == IF selected > Rows THEN selected - Rows + 1 ELSE 1

\* Enter on an empty list leaves like Esc does.
PickEnter(c) ==
    /\ cli[c].phase = "pick"
    /\ IF cli[c].selected = 0
       THEN End(c) /\ UNCHANGED <<inbox, outbox>>
       ELSE Sent(c, [cli[c].request EXCEPT !.model = cli[c].shown[cli[c].selected]])
    /\ UNCHANGED <<task, terminals, config, stored, left>>

PickCancel(c) ==
    /\ cli[c].phase = "pick"
    /\ End(c)
    /\ UNCHANGED <<inbox, outbox, task, terminals, config, stored, left>>

(* The exchange. *)

Read(c) == inbox' = [inbox EXCEPT ![c] = Tail(@)] /\ UNCHANGED outbox
Next1(c, kind) == inbox[c] # <<>> /\ Head(inbox[c]).kind = kind

ReadAck(c) ==
    /\ cli[c].phase = "asked" /\ Next1(c, "ack")
    /\ Goto(c, "acked") /\ Read(c)
    /\ UNCHANGED <<task, terminals, config, stored, left>>

ReadResult(c) ==
    /\ cli[c].phase = IF Acked(cli[c].request) THEN "acked" ELSE "asked"
    /\ Next1(c, "result")
    /\ End(c) /\ Read(c)
    /\ UNCHANGED <<task, terminals, config, stored, left>>

\* auth_prompt and auth_select: the command reads its user's answer and
\* nothing else until it has it.
ReadPrompt(c) ==
    /\ cli[c].phase = "acked" /\ Next1(c, "prompt")
    /\ cli' = [cli EXCEPT ![c].phase = "prompt", ![c].prompt = Head(inbox[c]).id]
    /\ Read(c)
    /\ UNCHANGED <<task, terminals, config, stored, left>>

\* null is the end of stdin; an answer that will not do is asked for again.
AnswerPrompt(c, null) ==
    /\ cli[c].phase = "prompt"
    /\ Goto(c, "acked")
    /\ outbox' = [outbox EXCEPT ![c] =
                    Append(@, [kind |-> "answer", id |-> cli[c].prompt, null |-> null])]
    /\ UNCHANGED <<inbox, task, terminals, config, stored, left>>

\* ACK_TIMEOUT, RELOAD_TIMEOUT, STATUS_TIMEOUT: no line in time, however that
\* came about, is an old daemon to the command.
GiveUp(c) ==
    /\ cli[c].phase = "asked" /\ inbox[c] = <<>>
    /\ End(c)
    /\ UNCHANGED <<inbox, outbox, task, terminals, config, stored, left>>

\* Ctrl+C, at any time.
Interrupt(c) ==
    /\ Waiting(c)
    /\ End(c)
    /\ inbox' = [inbox EXCEPT ![c] = <<>>]
    /\ UNCHANGED <<outbox, task, terminals, config, stored, left>>

\* The daemon died; a command without its ack takes that for an old one.
Lost(c) ==
    /\ cli[c].phase = "acked" /\ inbox[c] = <<>> /\ task[c].phase = "dead"
    /\ End(c)
    /\ UNCHANGED <<inbox, outbox, task, terminals, config, stored, left>>

-----------------------------------------------------------------------------
(* The connections of the terminals, and their queues. *)

Opened(k) == conn[k].phase = "open"

\* A terminal's hello; the same terminal may come back before the daemon has
\* seen the end of its earlier connection.
Hello(k, s) ==
    /\ conn[k].phase = "new"
    /\ \A j \in Conns : j < k => conn[j].phase # "new"
    /\ left.conns > 0 /\ left' = [left EXCEPT !.conns = @ - 1]
    /\ conn' = [conn EXCEPT ![k].phase = "open", ![k].session = s]
    /\ registry' = [registry EXCEPT ![s] = k]
    /\ UNCHANGED <<client, task, config, stored>>

\* Deliberate fault: whoever closes takes the session's entry away.
Unregistered_Any(k) == [registry EXCEPT ![conn[k].session] = NoOne]

\* unregisterSession: only while the entry is this connection's.
Unregistered(k) ==
    [registry EXCEPT ![conn[k].session] = IF @ = k THEN NoOne ELSE @]

\* dispose.  What is queued still runs.
CloseConn(k) ==
    /\ Opened(k)
    /\ conn' = [conn EXCEPT ![k].phase = "closed", ![k].agent = NoOne]
    /\ registry' = Unregistered(k)
    /\ UNCHANGED <<client, task, config, stored, left>>

Job(type, by, model, required, asked) ==
    [type |-> type, by |-> by, model |-> model, required |-> required, config |-> asked]
Enqueued(ks, job) ==
    [k \in Conns |-> IF k \in ks THEN [conn[k] EXCEPT !.queue = Append(@, job)] ELSE conn[k]]

Ask(k) ==
    /\ Opened(k) /\ left.asks > 0
    /\ conn' = Enqueued({k}, Job("ask", NoOne, NoOne, FALSE, NoOne))
    /\ left' = [left EXCEPT !.asks = @ - 1]
    /\ UNCHANGED <<client, task, registry, config, stored>>

\* Deliberate fault: control operations do not queue behind an answer.
Turn_Control(k) ==
    {i \in DOMAIN conn[k].queue : i = 1 \/ (conn[k].asking /\ i = 2)}

\* The operation whose turn it is.
Turn(k) == {i \in DOMAIN conn[k].queue : i = 1}

Without(queue, i) == SubSeq(queue, 1, i - 1) \o SubSeq(queue, i + 1, Len(queue))

\* run: the agent is built from koshell.toml when there is none, which fails
\* on an invalid one (or for want of a credential); the answer then runs.
StartAnswer(k) ==
    /\ Turn(k) # {} /\ conn[k].queue[1].type = "ask" /\ ~conn[k].asking
    /\ \/ /\ conn[k].agent # NoOne \/ file.model # "invalid"
          /\ conn' = [conn EXCEPT ![k].asking = TRUE,
                                  ![k].agent = IF @ = NoOne THEN file ELSE @]
       \/ /\ conn[k].agent = NoOne
          /\ conn' = [conn EXCEPT ![k].queue = Tail(@)]
    /\ UNCHANGED <<client, task, registry, config, stored, left>>

EndAnswer(k) ==
    /\ conn[k].asking
    /\ conn' = [conn EXCEPT ![k].asking = FALSE, ![k].queue = Tail(@)]
    /\ UNCHANGED <<client, task, registry, config, stored, left>>

\* switchModel and reloadFromConfig.  setModel fails when the conversation
\* does not fit the model; without a conversation there is nothing to do.
\* Of a reload, a change of more than the model drops the conversation.
Outcomes(k, job) ==
    LET agent == conn[k].agent
        model == IF job.type = "switch" THEN job.model ELSE job.config.model
    IN IF agent = NoOne
       THEN {[agent |-> NoOne, ok |-> ~job.required]}
       ELSE IF job.type = "reload" /\ agent.rest # job.config.rest
       THEN {[agent |-> NoOne, ok |-> TRUE]}
       ELSE {[agent |-> [agent EXCEPT !.model = model], ok |-> TRUE],
             [agent |-> agent, ok |-> FALSE]}

RunControl(k) ==
    \E i \in Turn(k) : LET job == conn[k].queue[i] IN
        /\ job.type # "ask"
        /\ \E outcome \in Outcomes(k, job) :
             /\ conn' = [conn EXCEPT ![k].agent = outcome.agent,
                                     ![k].queue = Without(@, i)]
             /\ task' = IF task[job.by].phase \in {"apply", "reload"}
                        THEN [task EXCEPT ![job.by].jobs = Append(@, outcome.ok)]
                        ELSE task
        /\ UNCHANGED <<client, registry, config, stored, left>>

-----------------------------------------------------------------------------
(* The daemon's side of a command. *)

\* A send to a connection that is gone is dropped.
Replied(c, messages) ==
    inbox' = IF task[c].closed \/ cli[c].phase = "done" THEN inbox ELSE [inbox EXCEPT ![c] = @ \o messages]
Received(c) == outbox' = [outbox EXCEPT ![c] = Tail(@)] /\ UNCHANGED cli
Arrived(c, kind) ==
    /\ outbox[c] # <<>> /\ Head(outbox[c]).kind = kind
    /\ task[c].phase # "dead" /\ ~task[c].closed
\* The last a command hears; what its task was stays readable until it has.
Done(c) == IF task[c].closed THEN Gone
           ELSE [task[c] EXCEPT !.phase = "done", !.previous = Initial, !.wrote = FALSE,
                                !.target = NoOne]
Answered(c, ok) ==
    /\ task' = [task EXCEPT ![c] = Done(c)]
    /\ Replied(c, <<Result(ok)>>)

\* auth_logout, auth_status_request, model_list, model_show,
\* instance_status_request: answered as they arrive.  A logout whose storage
\* fails removes nothing.
OnImmediate(c) ==
    /\ \E kind \in {"status", "show", "logout"} : Arrived(c, kind)
    /\ \E ok \in {TRUE, Head(outbox[c]).kind = "status"} :
         /\ Replied(c, IF Head(outbox[c]).kind = "status"
                       THEN <<Result(ok)>> ELSE <<Ack, Result(ok)>>)
         /\ task' = [task EXCEPT ![c].phase = "done"]
         /\ stored' = (stored /\ ~(ok /\ Head(outbox[c]).kind = "logout"))
    /\ Received(c)
    /\ UNCHANGED <<terminals, config, left>>

(* koshell model set: modelSet and updateDefaultModel. *)

OnSet(c) ==
    /\ Arrived(c, "set")
    /\ LET request == Head(outbox[c])
           target == IF request.session = NoOne THEN NoOne ELSE registry[request.session]
       IN IF ~request.only
          THEN /\ task' = [task EXCEPT ![c].phase = "lock", ![c].request = request,
                                       ![c].target = target]
               /\ Replied(c, <<Ack>>) /\ UNCHANGED conn
          ELSE IF target = NoOne
          THEN /\ task' = [task EXCEPT ![c].phase = "done"]
               /\ Replied(c, <<Ack, Result(FALSE)>>) /\ UNCHANGED conn
          ELSE /\ task' = [task EXCEPT ![c].phase = "apply", ![c].request = request,
                                       ![c].target = target]
               /\ conn' = Enqueued({target}, Job("switch", c, request.model, TRUE, NoOne))
               /\ Replied(c, <<Ack>>)
    /\ Received(c)
    /\ UNCHANGED <<registry, config, stored, left>>

\* Deliberate fault: the file is changed whoever holds the lock.
LockFree_Always == TRUE

\* A lock whose holder died is stale after a while.
LockFree == lock \in {NoOne, "stale"}

\* lock gives up after a few retries.
LockBusy(c) ==
    /\ task[c].phase = "lock" /\ lock # NoOne
    /\ Answered(c, FALSE)
    /\ UNCHANGED <<cli, outbox, terminals, config, stored, left>>

\* Under the lock the latest file is read, patched and validated; then it is
\* replaced, if that changes it.  A replacement that fails leaves the old file, or
\* the new one when only the sync of the directory failed; either way the
\* command fails and the old file is not put back.
Update(c) ==
    /\ task[c].phase = "lock" /\ LockFree
    /\ LET new == [file EXCEPT !.model = task[c].request.model]
           target == task[c].target
       IN \/ /\ Answered(c, FALSE)
             /\ lock' = NoOne
             /\ \/ UNCHANGED <<file, excused>>
                \/ file' = new /\ excused' = TRUE
             /\ UNCHANGED <<conn, expected, unsettled>>
          \/ /\ file' = new
             /\ IF target = NoOne
                THEN /\ Answered(c, TRUE)
                     /\ lock' = NoOne /\ expected' = new.model /\ unsettled' = NoOne
                     /\ UNCHANGED conn
                ELSE /\ task' = [task EXCEPT ![c].phase = "apply", ![c].previous = file,
                                             ![c].wrote = file # new]
                     /\ conn' = Enqueued({target},
                                    Job("switch", c, task[c].request.model, FALSE, NoOne))
                     /\ lock' = c /\ UNCHANGED <<inbox, expected, unsettled>>
             /\ UNCHANGED excused
    /\ UNCHANGED <<cli, outbox, registry, stored, left>>

\* The file as it was before it was written, when the switch failed.
RolledBack(c) == IF task[c].wrote THEN task[c].previous ELSE file

\* The switch has run.  When it failed the old bytes are put back, over
\* whatever was edited since; that may fail as well.  The lock is released.
Settle(c) ==
    /\ task[c].phase = "apply" /\ task[c].jobs # <<>>
    /\ LET ok == task[c].jobs[1]
           set == ~task[c].request.only
       IN /\ \/ /\ file' = IF ~ok /\ set THEN RolledBack(c) ELSE file
                /\ UNCHANGED excused
             \/ /\ ~ok /\ task[c].wrote
                /\ excused' = TRUE /\ UNCHANGED file
          /\ expected' = IF ok /\ set THEN task[c].request.model ELSE expected
          /\ unsettled' = IF ok /\ set THEN NoOne ELSE unsettled
          /\ lock' = IF lock = c THEN NoOne ELSE lock
          /\ Answered(c, ok)
    /\ UNCHANGED <<cli, outbox, terminals, stored, left>>

(* koshell reload. *)

\* The configuration is read once, without the lock; then every connection it
\* is for applies it in its turn.
OnReload(c) ==
    /\ Arrived(c, "reload")
    /\ LET session == Head(outbox[c]).session
           targets == {k \in Conns : \E s \in Sessions :
                         registry[s] = k /\ session \in {NoOne, s}}
       IN IF file.model = "invalid" \/ targets = {}
          THEN /\ Answered(c, file.model # "invalid")
               /\ UNCHANGED conn
          ELSE /\ task' = [task EXCEPT ![c].phase = "reload",
                                       ![c].awaited = Cardinality(targets)]
               /\ conn' = Enqueued(targets, Job("reload", c, NoOne, FALSE, file))
               /\ UNCHANGED inbox
    /\ Received(c)
    /\ UNCHANGED <<registry, config, stored, left>>

\* Deliberate fault: the first connection that applied it decides.
Decided_First(jobs, awaited) == jobs # <<>>

\* Promise.all: the first failure, or everyone's success.
Decided(jobs, awaited) ==
    (\E i \in DOMAIN jobs : ~jobs[i]) \/ Len(jobs) = awaited

ReplyReload(c) ==
    /\ task[c].phase = "reload" /\ Decided(task[c].jobs, task[c].awaited)
    /\ LET ok == \A i \in DOMAIN task[c].jobs : task[c].jobs[i]
       IN Answered(c, ok)
    /\ UNCHANGED <<cli, outbox, terminals, config, stored, left>>

(* koshell auth login: handleAuthLogin and runAuthLogin. *)

\* The storage may not open, the provider be unknown.
OnLogin(c) ==
    /\ Arrived(c, "login")
    /\ \/ /\ task' = [task EXCEPT ![c].phase = "done"]
          /\ Replied(c, <<Ack, Result(FALSE)>>)
       \/ /\ task' = [task EXCEPT ![c].phase = "login", ![c].flow = "running"]
          /\ Replied(c, <<Ack>>)
    /\ Received(c)
    /\ UNCHANGED <<terminals, config, stored, left>>

\* A null for an answer cancels a question; a selection may go on without one.
AfterNull == {"running", "cancelled"}

\* The provider's flow asks.  Once aborted, the answer is null at once.
Prompt(c) ==
    /\ task[c].flow = "running" /\ task[c].prompts < MaxPrompts
    /\ \E flow \in IF task[c].aborted THEN AfterNull ELSE {"prompt"} :
         task' = [task EXCEPT ![c].flow = flow, ![c].prompts = @ + 1]
    /\ IF task[c].aborted THEN UNCHANGED inbox
       ELSE Replied(c, <<[kind |-> "prompt", id |-> task[c].prompts + 1]>>)
    /\ UNCHANGED <<cli, outbox, terminals, config, stored, left>>

\* An answer to a prompt that is not waiting for one is dropped.
OnAnswer(c) ==
    /\ Arrived(c, "answer")
    /\ LET answer == Head(outbox[c])
       IN IF task[c].flow = "prompt" /\ answer.id = task[c].prompts
          THEN \E flow \in IF answer.null THEN AfterNull ELSE {"running"} :
                 task' = [task EXCEPT ![c].flow = flow]
          ELSE UNCHANGED task
    /\ Received(c)
    /\ UNCHANGED <<inbox, terminals, config, stored, left>>

\* Deliberate fault: an abort leaves the prompt that waits.
Aborted_Waiting(record) == {[record EXCEPT !.aborted = record.phase = "login"]}

\* The signal: a prompt that waits is answered with null.
Aborted(record) ==
    {[record EXCEPT !.aborted = record.phase = "login", !.flow = flow] :
        flow \in IF record.flow = "prompt" THEN AfterNull ELSE {record.flow}}

LoginTimeout(c) ==
    /\ task[c].phase = "login" /\ ~task[c].aborted
    /\ \E aborted \in Aborted(task[c]) : task' = [task EXCEPT ![c] = aborted]
    /\ UNCHANGED <<client, terminals, config, stored, left>>

\* What is stored, and what the outcome is: drainErrors.
SavedOutcomes == {<<TRUE, TRUE>>, <<FALSE, FALSE>>}

\* The flow settles: the credential came, whatever the signal says, and is
\* saved or not; or the flow failed or was cancelled.
LoginEnds(c) ==
    /\ task[c].flow \in {"running", "cancelled"}
    /\ \E end \in {<<FALSE, FALSE>>} \cup
                  (IF task[c].flow = "running" THEN SavedOutcomes ELSE {}) :
         /\ task' = [task EXCEPT ![c] = IF task[c].closed THEN Gone ELSE
                          [@ EXCEPT !.phase = "done", !.flow = "off", !.saved = end[1]]]
         /\ stored' = (stored \/ end[1])
         /\ Replied(c, <<Result(end[2])>>)
    /\ UNCHANGED <<cli, outbox, terminals, config, left>>

\* The command's end of the connection is gone: dispose.
SeesClose(c) ==
    /\ cli[c].phase = "done" /\ outbox[c] = <<>> /\ ~task[c].closed
    /\ task[c].phase \notin {"none", "dead"}
    /\ \E aborted \in Aborted(task[c]) :
         task' = [task EXCEPT ![c] = IF @.phase = "done" THEN Gone
                                     ELSE [aborted EXCEPT !.closed = TRUE]]
    /\ UNCHANGED <<client, terminals, config, stored, left>>

-----------------------------------------------------------------------------
(* What others do. *)

\* koshell.toml is edited by hand, lock or no lock.
Edit(new) ==
    /\ new # file
    /\ file' = new
    /\ expected' = new.model /\ unsettled' = NoOne
    /\ excused' = (excused \/ lock \in Commands)
    /\ left' = [left EXCEPT !.edits = @ \ {new}]
    /\ UNCHANGED <<client, task, terminals, lock, stored>>

\* The daemon dies.  What is in the file stays, be it of a set that was not
\* settled: nothing puts the old bytes back.  The lock goes stale.
Crash ==
    /\ left.crashes > 0
    /\ left' = [left EXCEPT !.crashes = @ - 1]
    /\ task' = [c \in Commands |->
                  IF task[c].phase = "none" /\ outbox[c] = <<>> THEN Idle
                  ELSE [task[c] EXCEPT !.phase = "dead", !.flow = "off", !.previous = Initial,
                                       !.wrote = FALSE, !.target = NoOne]]
    /\ outbox' = [c \in Commands |-> <<>>]
    /\ conn' = [k \in Conns |-> IF conn[k].phase = "new" THEN NewConn
                                ELSE [NewConn EXCEPT !.phase = "closed",
                                                     !.session = conn[k].session]]
    /\ registry' = [s \in Sessions |-> NoOne]
    /\ lock' = IF lock = NoOne THEN NoOne ELSE "stale"
    /\ unsettled' = IF lock \in Commands /\ task[lock].wrote THEN file.model ELSE unsettled
    /\ UNCHANGED <<cli, inbox, file, expected, excused, stored>>

OfClient(c) ==
    \/ \E request \in left.requests : Start(c, request) \/ OpenPicker(c, request)
    \/ Unreachable(c)
    \/ \E shown \in Narrowed : PickQuery(c, shown)
    \/ PickMove(c) \/ PickEnter(c) \/ PickCancel(c)
    \/ ReadAck(c) \/ ReadResult(c) \/ ReadPrompt(c)
    \/ \E null \in BOOLEAN : AnswerPrompt(c, null)
    \/ GiveUp(c) \/ Interrupt(c) \/ Lost(c)

OfDaemon(c) ==
    \/ OnImmediate(c) \/ OnSet(c) \/ OnReload(c) \/ OnLogin(c) \/ OnAnswer(c)
    \/ LockBusy(c) \/ Update(c) \/ Settle(c) \/ ReplyReload(c)
    \/ Prompt(c) \/ LoginTimeout(c) \/ LoginEnds(c) \/ SeesClose(c)

OfTerminal(k) ==
    \/ \E s \in Sessions : Hello(k, s)
    \/ CloseConn(k) \/ Ask(k) \/ StartAnswer(k) \/ EndAnswer(k) \/ RunControl(k)

Next ==
    \/ \E c \in Commands : OfClient(c) \/ OfDaemon(c)
    \/ \E k \in Conns : OfTerminal(k)
    \/ \E new \in left.edits : Edit(new)
    \/ Crash

Spec == Init /\ [][Next]_vars

-----------------------------------------------------------------------------
(* Properties. *)

\* Types, and of the picker: the selected row is one that is drawn.
TypeOK ==
    /\ \A c \in Commands :
         /\ cli[c].phase \in {"new", "pick", "asked", "acked", "prompt", "done"}
         /\ \A i \in DOMAIN inbox[c] : inbox[c][i] \in ToClient
         /\ \A i \in DOMAIN outbox[c] : outbox[c][i] \in ToDaemon
         /\ task[c].phase \in {"none", "lock", "apply", "reload", "login", "done", "gone", "dead"}
         /\ task[c].flow \in {"off", "running", "prompt", "cancelled"}
         /\ cli[c].phase = "pick" =>
              IF cli[c].shown = <<>> THEN cli[c].selected = 0
              ELSE cli[c].selected \in FirstRow(cli[c].selected)..
                     (FirstRow(cli[c].selected) + Rows - 1) \cap DOMAIN cli[c].shown
    /\ \A k \in Conns : conn[k].agent \in Configs \cup {NoOne}
    /\ file \in Configs /\ lock \in Commands \cup {NoOne, "stale"}
    /\ unsettled \in Models \cup {"invalid", NoOne}
    /\ stored \in BOOLEAN

\* Whenever nobody holds the lock, koshell.toml names the model that the last
\* successful `koshell model set` or edit gave it, however many were running,
\* failed and were rolled back or gave up meanwhile; or that of a set in whose
\* middle the daemon died, which nobody was told the end of, and no other (see
\* FailedSetLeavesNothing).  Not so after a write that failed half way, a
\* rollback that failed, or an edit by hand under the lock, which a rollback
\* undoes (model-service.ts:207).
FileIsLastSet ==
    lock \notin Commands /\ ~excused => file.model \in {expected, unsettled}

\* "A failure restores the exact previous bytes" (model-service.ts:198), and a
\* successful set is the only one that changes the file: not so when the
\* daemon dies between the two.
FailedSetLeavesNothing == lock \notin Commands /\ ~excused => file.model = expected

\* The result a command is about to read is true: success when every
\* conversation a reload was for has its new configuration, the switch was
\* made, the credential saved; and of a login that failed nothing was saved.
ToldTruth ==
    \A c \in Commands :
      (Waiting(c) /\ task[c].phase = "done") =>
        LET told == inbox[c][Len(inbox[c])].ok
            made == \A i \in DOMAIN task[c].jobs : task[c].jobs[i]
            kind == cli[c].request.kind
        IN /\ told /\ kind = "reload" => made /\ Len(task[c].jobs) = task[c].awaited
           /\ told /\ cli[c].request.only => made /\ task[c].jobs # <<>>
           /\ kind = "login" => told = task[c].saved

Queued(c) == {k \in Conns : \E i \in DOMAIN conn[k].queue : conn[k].queue[i].by = c}

\* A command that has its ack waits without a limit, and never for nothing:
\* its result is on its way or the daemon still works on it, that work is
\* queued, and a question of a login that waits for its answer reached the
\* command or is answered; a login that was aborted waits for none; the lock is held
\* by a command that will release it.
NobodyWaitsForNothing ==
    /\ \A c \in Commands :
         /\ cli[c].phase = "acked" =>
              inbox[c] # <<>> \/ task[c].phase \in {"lock", "apply", "reload", "login", "dead"}
         /\ task[c].phase = "apply" /\ task[c].jobs = <<>> => task[c].target \in Queued(c)
         /\ task[c].phase = "reload" =>
              Len(task[c].jobs) + Cardinality(Queued(c)) = task[c].awaited
         /\ task[c].flow = "prompt" =>
              /\ ~task[c].aborted
              /\ \/ cli[c].phase = "done"
                 \/ cli[c].phase = "prompt" /\ cli[c].prompt = task[c].prompts
                 \/ \E i \in DOMAIN inbox[c] : inbox[c][i].kind = "prompt"
                                             /\ inbox[c][i].id = task[c].prompts
                 \/ \E i \in DOMAIN outbox[c] : outbox[c][i].kind = "answer"
                                              /\ outbox[c][i].id = task[c].prompts
    /\ lock \in Commands => task[lock].phase = "apply"

\* The connection a command is routed to is the newest of its terminal, as
\* long as that is open: the end of an earlier one, seen late, does not take
\* the entry away (server.ts:1162).
RegistryCurrent ==
    /\ \A s \in Sessions : registry[s] # NoOne => Opened(registry[s])
    /\ \A k \in Conns :
         (Opened(k) /\ \A j \in Conns : j > k => conn[j].session # conn[k].session)
         => registry[conn[k].session] = k

\* Commands, tasks and messages are well formed, and routing is current.
RoutingSound == TypeOK /\ RegistryCurrent

\* An answer in progress finishes on the conversation, and with the model, it
\* started with (design 0018), whatever is set or reloaded meanwhile.
AnswerKeepsModel ==
    [][\A k \in Conns :
         conn[k].asking /\ conn'[k].asking /\ conn'[k].phase = "open"
         => conn'[k].agent = conn[k].agent]_vars

=============================================================================
