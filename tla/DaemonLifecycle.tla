-------------------------- MODULE DaemonLifecycle --------------------------
(***************************************************************************)
(* One daemon per user, started on demand: daemons that probe, unlink and  *)
(* bind one socket path and exit when idle (index.ts, lifecycle.ts,        *)
(* startDaemon of server.ts), terminals that connect, spawn, send and      *)
(* retry (session.rs, daemon_spawn.rs, ipc.rs), and `koshell daemon`       *)
(* (daemon_cli.rs).  Every system call on the path is a step of its own.   *)
(*                                                                         *)
(* A connection is accepted by the kernel before the daemon's event loop   *)
(* sees it.  A write to a connection whose daemon is gone fails; what was  *)
(* written before is lost with the daemon.  A listening socket never makes *)
(* a probe wait for its 500 ms: a full backlog is left out.                *)
(***************************************************************************)
EXTENDS Integers, Sequences, FiniteSets

CONSTANTS
  Terminals,
  Absent, Junk,\* no file at the path; a file that is not a socket
  Nobody,      \* None in ipc_client, and a path's owner outside Daemons
  MaxDaemons, MaxRequests, MaxConns, MaxCrashes, MaxCli  \* bounds

Daemons == 1..MaxDaemons    \* the processes, in the order they are spawned
Requests == 1..MaxRequests  \* the questions, by request_seq

ASSUME LifecycleAssumption ==
  /\ {Absent, Junk} \cap Nat = {} /\ Absent # Junk
  /\ Nobody \notin Nat
  /\ {MaxDaemons, MaxCrashes, MaxCli} \subseteq Nat

VARIABLES
  path,     \* the socket path: Absent, Junk or the daemon that bound the file
  proc,     \* how far each daemon is
  timer,    \* whether its idle timer is armed
  conns,    \* every connection, in the order of connect
  held,     \* ipc_client of each terminal: an index into conns or Nobody
  at,       \* where each terminal is in dispatch_trigger
  plan,     \* whether its DaemonSpawner has a command to spawn
  cooling,  \* whether the spawn cooldown of its DaemonSpawner runs
  told,     \* what the user of each request was told
  cli,      \* the one `koshell daemon` command: where it is, and the daemon or connection it is about
  crashes, commands, \* bounds: crashes and commands so far
  robbed    \* history: <<who, owner>> for every removal of a running daemon's file, 0 the command

vars == <<path, proc, timer, conns, held, at, plan, cooling, told, cli, crashes, commands, robbed>>
terminalVars == <<held, at, plan, cooling, told>>
cliVars == <<cli, crashes, commands>>

\* The lines a client writes beside its requests.
Hello == 0
StatusRequest == -1

Idle == [step |-> "idle", request |-> Nobody, attempt |-> 0]
Running == {"bound", "up"}
Accepting(owner) == owner \in Daemons /\ proc[owner] \in Running

Accepted(d) == {i \in DOMAIN conns : conns[i].to = d /\ conns[i].stage = "accepted"}
Up(i) == conns[i].stage # "reset"

\* DaemonSpawner::new: the kill switch, then resolve_plan's three places.
Plans == [Terminals -> BOOLEAN]

Init ==
  /\ plan \in Plans
  /\ path \in {Absent, Junk} /\ robbed = {}
  /\ proc = [d \in Daemons |-> "unborn"] /\ timer = [d \in Daemons |-> FALSE]
  /\ conns = << >>
  /\ held = [t \in Terminals |-> Nobody] /\ at = [t \in Terminals |-> Idle]
  /\ cooling = [t \in Terminals |-> FALSE]
  /\ told = [r \in Requests |-> "unasked"]
  /\ cli = [step |-> "idle", about |-> Nobody] /\ crashes = 0 /\ commands = 0
-----------------------------------------------------------------------------
(* Connections *)

Connection(who, first) ==
  [by |-> who, to |-> path, stage |-> "backlog", open |-> TRUE, wrote |-> first, read |-> 0]

\* The connection of a probe: connected and destroyed.
Probed(who) == [Connection(who, << >>) EXCEPT !.open = FALSE]

\* The kernel resets what a closed listener had not accepted, and with the
\* process every connection.
ResetStages(d, stages) ==
  [i \in DOMAIN conns |-> IF conns[i].to = d /\ conns[i].stage \in stages
                          THEN [conns[i] EXCEPT !.stage = "reset"] ELSE conns[i]]

\* unlink takes whatever file is at the path.
Remove(who) ==
  /\ path' = Absent
  /\ robbed' = robbed \union (IF Accepting(path) THEN {<<who, path>>} ELSE {})
Dropped(i) == [conns EXCEPT ![i].open = FALSE]
-----------------------------------------------------------------------------
(* The daemon *)

\* probeSocket, at startup and after a lost bind race; connecting to a live
\* daemon leaves that one a connection to accept.
FindsAlive(d) ==
  /\ Accepting(path) /\ Len(conns) < MaxConns
  /\ proc' = [proc EXCEPT ![d] = "dead"]
  /\ conns' = Append(conns, Probed(d))
  /\ UNCHANGED <<path, timer, robbed>> /\ UNCHANGED terminalVars /\ UNCHANGED cliVars

Goes(d, next) ==
  /\ proc' = [proc EXCEPT ![d] = next]
  /\ UNCHANGED <<path, timer, conns, robbed>> /\ UNCHANGED terminalVars /\ UNCHANGED cliVars

Probe(d) ==
  /\ proc[d] = "probe"
  /\ \/ FindsAlive(d)
     \/ path = Absent /\ Goes(d, "bind")
     \/ path # Absent /\ ~Accepting(path) /\ Goes(d, "unlink")

\* rmSync of a stale file; without one it throws and the process ends.
UnlinkStale(d) ==
  /\ proc[d] = "unlink"
  /\ IF path = Absent THEN Goes(d, "dead")
     ELSE /\ Remove(d)
          /\ proc' = [proc EXCEPT ![d] = "bind"]
          /\ UNCHANGED <<timer, conns>> /\ UNCHANGED terminalVars /\ UNCHANGED cliVars

\* Deliberate fault: the file in the way is replaced, as rename(2) would.
AddressInUse_Never == FALSE

\* bind is exclusive: EADDRINUSE while there is a file.
AddressInUse == path # Absent

\* server.listen
Bind(d) ==
  /\ proc[d] = "bind"
  /\ IF AddressInUse THEN Goes(d, "raced")
     ELSE /\ path' = d
          /\ proc' = [proc EXCEPT ![d] = "bound"]
          /\ UNCHANGED <<timer, conns, robbed>> /\ UNCHANGED terminalVars /\ UNCHANGED cliVars

\* The re-probe: a healthy winner or a loud failure, the process ends either way.
Raced(d) ==
  /\ proc[d] = "raced"
  /\ FindsAlive(d) \/ (~Accepting(path) /\ Goes(d, "dead"))

\* Deliberate fault: the timer is armed although a terminal is connected.
ArmedIdle_Always(d, connections) == TRUE

\* Deliberate fault: not armed again when the last terminal leaves.
ArmedIdle_OnlyAtStart(d, connections) == proc[d] = "bound" /\ connections = 0

\* armIdle: never while a terminal is attached.
ArmedIdle(d, connections) == IF connections > 0 THEN timer[d] ELSE TRUE

\* The callback of listen; connections may have been accepted before it.
Listening(d) ==
  /\ proc[d] = "bound"
  /\ proc' = [proc EXCEPT ![d] = "up"]
  /\ timer' = [timer EXCEPT ![d] = ArmedIdle(d, Cardinality(Accepted(d)))]
  /\ UNCHANGED <<path, conns, robbed>> /\ UNCHANGED terminalVars /\ UNCHANGED cliVars

\* The event loop takes a connection: counted, idle timer cancelled.
Accept(d, i) ==
  /\ proc[d] \in Running /\ conns[i].to = d /\ conns[i].stage = "backlog"
  /\ conns' = [conns EXCEPT ![i].stage = "accepted"]
  /\ timer' = [timer EXCEPT ![d] = FALSE]
  /\ UNCHANGED <<path, proc, robbed>> /\ UNCHANGED terminalVars /\ UNCHANGED cliVars

\* One line: the hello, or a request after it.
ReadLine(d, i) ==
  /\ proc[d] \in Running /\ i \in Accepted(d) /\ conns[i].read < Len(conns[i].wrote)
  /\ conns' = [conns EXCEPT ![i].read = @ + 1]
  /\ UNCHANGED <<path, proc, timer, robbed>> /\ UNCHANGED terminalVars /\ UNCHANGED cliVars

\* The close event, after everything written was read.
Closed(d, i) ==
  /\ proc[d] \in Running /\ i \in Accepted(d)
  /\ ~conns[i].open /\ conns[i].read = Len(conns[i].wrote)
  /\ conns' = [conns EXCEPT ![i].stage = "closed"]
  /\ timer' = [timer EXCEPT ![d] = ArmedIdle(d, Cardinality(Accepted(d)) - 1)]
  /\ UNCHANGED <<path, proc, robbed>> /\ UNCHANGED terminalVars /\ UNCHANGED cliVars

\* server.close(): no more accepting; accepted connections live on until exit.
CloseServer(d) ==
  /\ proc' = [proc EXCEPT ![d] = "closing"]
  /\ conns' = ResetStages(d, {"backlog"})
  /\ timer' = [timer EXCEPT ![d] = FALSE]
  /\ UNCHANGED <<path, robbed>> /\ UNCHANGED terminalVars

\* onIdle
IdleFires(d) == proc[d] \in Running /\ timer[d] /\ CloseServer(d) /\ UNCHANGED cliVars

\* stop(): the file at the path goes, whoever bound it, and the process ends.
Stop(d) ==
  /\ proc[d] = "closing"
  /\ IF path = Absent THEN UNCHANGED <<path, robbed>> ELSE Remove(d)
  /\ proc' = [proc EXCEPT ![d] = "dead"]
  /\ conns' = ResetStages(d, {"backlog", "accepted"})
  /\ UNCHANGED timer /\ UNCHANGED terminalVars /\ UNCHANGED cliVars

\* Environment: the daemon crashes and leaves its file.
Crash(d) ==
  /\ proc[d] \in Running /\ crashes < MaxCrashes
  /\ crashes' = crashes + 1
  /\ proc' = [proc EXCEPT ![d] = "dead"]
  /\ conns' = ResetStages(d, {"backlog", "accepted"})
  /\ timer' = [timer EXCEPT ![d] = FALSE]
  /\ UNCHANGED <<path, robbed, cli, commands>> /\ UNCHANGED terminalVars

Daemon(d) ==
  \/ Probe(d) \/ UnlinkStale(d) \/ Bind(d) \/ Raced(d) \/ Listening(d)
  \/ IdleFires(d) \/ Stop(d)
  \/ \E i \in DOMAIN conns : Accept(d, i) \/ ReadLine(d, i) \/ Closed(d, i)
-----------------------------------------------------------------------------
(* The terminal *)

Moves(t, step) == at' = [at EXCEPT ![t].step = step]
Unborn == {d \in Daemons : proc[d] = "unborn" /\ \A e \in 1..(d-1) : proc[e] # "unborn"}
Spawned(d) == proc' = [proc EXCEPT ![d] = "probe"]

\* dispatch_trigger: a question fires.
Ask(t, r) ==
  /\ at[t] = Idle
  /\ told[r] = "unasked" /\ \A q \in 1..(r-1) : told[q] # "unasked"
  /\ told' = [told EXCEPT ![r] = "asking"]
  /\ at' = [at EXCEPT ![t] = [step |-> "connect", request |-> r, attempt |-> 1]]
  /\ UNCHANGED <<path, proc, timer, conns, held, plan, cooling, robbed>> /\ UNCHANGED cliVars

\* The end of send_request, and what the user is told.
Settles(t, answer) ==
  /\ told' = [told EXCEPT ![at[t].request] = answer]
  /\ at' = [at EXCEPT ![t] = Idle]

\* connect_daemon with a connection at hand: it is not revalidated.
Reuse(t) ==
  /\ at[t].step = "connect" /\ held[t] # Nobody
  /\ Moves(t, "line")
  /\ UNCHANGED <<path, proc, timer, conns, held, plan, cooling, told, robbed>> /\ UNCHANGED cliVars

\* IpcClient::connect and attach_daemon: the hello goes first.  Without a
\* read half the connection is dropped again and the request is refused.
Connect(t) ==
  /\ at[t].step \in {"connect", "retry"} /\ held[t] = Nobody
  /\ Accepting(path) /\ Len(conns) < MaxConns
  /\ \/ /\ conns' = Append(conns, Connection(t, <<Hello>>))
        /\ held' = [held EXCEPT ![t] = Len(conns) + 1]
        /\ Moves(t, "line") /\ UNCHANGED told
     \/ /\ conns' = Append(conns, [Connection(t, <<Hello>>) EXCEPT !.open = FALSE])
        /\ UNCHANGED held /\ Settles(t, "unavailable")
  /\ UNCHANGED <<path, proc, timer, plan, cooling, robbed>> /\ UNCHANGED cliVars

\* try_spawn: at most once per cooldown, and it may fail.
Spawn(t) ==
  /\ at[t].step = "connect" /\ held[t] = Nobody /\ ~Accepting(path)
  /\ plan[t] /\ ~cooling[t]
  /\ cooling' = [cooling EXCEPT ![t] = TRUE]
  /\ \/ \E d \in Unborn : Spawned(d) /\ Moves(t, "retry") /\ UNCHANGED told
     \/ Settles(t, "unavailable") /\ UNCHANGED proc
  /\ UNCHANGED <<path, timer, conns, held, plan, robbed>> /\ UNCHANGED cliVars

\* No daemon, and none may be spawned or it took too long to come up.
GiveUp(t) ==
  /\ held[t] = Nobody /\ ~Accepting(path)
  /\ at[t].step = "retry" \/ (at[t].step = "connect" /\ (plan[t] => cooling[t]))
  /\ Settles(t, "unavailable")
  /\ UNCHANGED <<path, proc, timer, conns, held, plan, cooling, robbed>> /\ UNCHANGED cliVars

\* Deliberate fault: a connection that failed is kept for the second attempt.
HeldAfterFailure_Kept(t) == held[t]

HeldAfterFailure(t) == Nobody

\* A write to a dead connection: it is dropped, the request tried once more.
SendFails(t) ==
  /\ at[t].step \in {"line", "newline"} /\ ~Up(held[t])
  /\ held' = [held EXCEPT ![t] = HeldAfterFailure(t)]
  /\ conns' = Dropped(held[t])
  /\ IF at[t].attempt = 1
     THEN at' = [at EXCEPT ![t].step = "connect", ![t].attempt = 2] /\ UNCHANGED told
     ELSE Settles(t, "unavailable")
  /\ UNCHANGED <<path, proc, timer, plan, cooling, robbed>> /\ UNCHANGED cliVars

\* IpcClient::send writes the line, then its end; the daemon acts on the end.
SendLine(t) ==
  /\ at[t].step = "line" /\ Up(held[t])
  /\ Moves(t, "newline")
  /\ UNCHANGED <<path, proc, timer, conns, held, plan, cooling, told, robbed>> /\ UNCHANGED cliVars

SendNewline(t) ==
  /\ at[t].step = "newline" /\ Up(held[t])
  /\ conns' = [conns EXCEPT ![held[t]].wrote = Append(@, at[t].request)]
  /\ Settles(t, "sent")
  /\ UNCHANGED <<path, proc, timer, held, plan, cooling, robbed>> /\ UNCHANGED cliVars

\* reset_conversation, send_ai_cancel, serve_tool_call: no retry.
DropDead(t) ==
  /\ at[t] = Idle /\ held[t] # Nobody /\ ~Up(held[t])
  /\ held' = [held EXCEPT ![t] = Nobody]
  /\ conns' = Dropped(held[t])
  /\ UNCHANGED <<path, proc, timer, at, plan, cooling, told, robbed>> /\ UNCHANGED cliVars

\* Environment: the terminal's shell exits.
Leave(t) ==
  /\ at[t] = Idle /\ held[t] # Nobody
  /\ held' = [held EXCEPT ![t] = Nobody]
  /\ conns' = Dropped(held[t])
  /\ UNCHANGED <<path, proc, timer, at, plan, cooling, told, robbed>> /\ UNCHANGED cliVars

\* SPAWN_COOLDOWN passes.
CoolsDown(t) ==
  /\ at[t] = Idle /\ cooling[t] /\ cooling' = [cooling EXCEPT ![t] = FALSE]
  /\ UNCHANGED <<path, proc, timer, conns, held, at, plan, told, robbed>> /\ UNCHANGED cliVars

Dispatch(t) ==
  \/ Reuse(t) \/ Connect(t) \/ Spawn(t) \/ GiveUp(t)
  \/ SendFails(t) \/ SendLine(t) \/ SendNewline(t)
-----------------------------------------------------------------------------
(* koshell daemon *)

CliGoes(step, about) == cli' = [step |-> step, about |-> about] /\ UNCHANGED crashes

\* stop and restart: probe, then by what it found ask for the pid over a
\* connection or remove the stale file.
CliStop ==
  /\ cli.step = "idle" /\ commands < MaxCli /\ commands' = commands + 1
  /\ \/ /\ Accepting(path) /\ Len(conns) < MaxConns
        /\ conns' = Append(conns, Connection(0, <<StatusRequest>>))
        /\ CliGoes("query", Len(conns) + 1)
     \/ /\ path # Absent /\ ~Accepting(path)
        /\ CliGoes("stale", Nobody) /\ UNCHANGED conns
  /\ UNCHANGED <<path, proc, timer, robbed>> /\ UNCHANGED terminalVars

CliRemoveStale ==
  /\ cli.step = "stale" /\ CliGoes("idle", Nobody)
  /\ IF path = Absent THEN UNCHANGED <<path, robbed>> ELSE Remove(0)
  /\ UNCHANGED <<proc, timer, conns, commands>> /\ UNCHANGED terminalVars

\* The status reply names the pid; SIGTERM runs stop().
CliSignal ==
  /\ cli.step = "query"
  /\ LET i == cli.about
         d == conns[i].to
     IN /\ conns[i].read = 1 \/ conns[i].stage = "reset"
        /\ IF conns[i].read = 1 /\ proc[d] \in Running
           THEN /\ proc' = [proc EXCEPT ![d] = "closing"]
                /\ conns' = [ResetStages(d, {"backlog"}) EXCEPT ![i].open = FALSE]
                /\ timer' = [timer EXCEPT ![d] = FALSE]
                /\ CliGoes("gone", Nobody)
           ELSE /\ conns' = Dropped(i)
                /\ CliGoes("idle", Nobody) /\ UNCHANGED <<proc, timer>>
  /\ UNCHANGED <<path, robbed, commands>> /\ UNCHANGED terminalVars

\* wait_until_gone is satisfied by a socket that refuses; restart then starts.
CliGone ==
  /\ cli.step = "gone" /\ ~Accepting(path)
  /\ \/ CliGoes("idle", Nobody) /\ UNCHANGED proc
     \/ \E d \in Unborn : Spawned(d) /\ CliGoes("idle", Nobody)
  /\ UNCHANGED <<path, timer, conns, robbed, commands>> /\ UNCHANGED terminalVars

\* status, and the details start prints: a connection like any other.
CliStatus ==
  /\ cli.step = "idle" /\ commands < MaxCli /\ commands' = commands + 1
  /\ Accepting(path) /\ Len(conns) < MaxConns
  /\ conns' = Append(conns, [Connection(0, <<StatusRequest>>) EXCEPT !.open = FALSE])
  /\ UNCHANGED <<path, proc, timer, robbed, cli, crashes>> /\ UNCHANGED terminalVars

\* start: probe, then spawn; the kill switch is not asked.
CliStart ==
  /\ cli.step = "idle" /\ commands < MaxCli /\ commands' = commands + 1
  /\ ~Accepting(path)
  /\ \E d \in Unborn : Spawned(d)
  /\ UNCHANGED <<path, timer, conns, robbed, cli, crashes>> /\ UNCHANGED terminalVars

Cli == CliStop \/ CliRemoveStale \/ CliSignal \/ CliGone \/ CliStatus \/ CliStart

Next ==
  \/ \E d \in Daemons : Daemon(d) \/ Crash(d)
  \/ \E t \in Terminals : Dispatch(t) \/ DropDead(t) \/ Leave(t) \/ CoolsDown(t)
  \/ \E t \in Terminals, r \in Requests : Ask(t, r)
  \/ Cli

\* The event loop runs, timers fire, the dispatch's loops are bounded.
Fairness ==
  /\ \A d \in Daemons : WF_vars(Daemon(d))
  /\ \A t \in Terminals : WF_vars(Dispatch(t))

Spec == Init /\ [][Next]_vars /\ Fairness
-----------------------------------------------------------------------------
(* Properties *)

\* Processes, connections, terminals and the command are where their code can
\* be; a terminal in mid-request asks one, and only what it holds is open.
TypeOK ==
  /\ path \in Daemons \union {Absent, Junk}
  /\ proc \in [Daemons -> {"unborn", "probe", "unlink", "bind", "raced", "bound", "up",
                           "closing", "dead"}]
  /\ timer \in [Daemons -> BOOLEAN] /\ plan \in Plans /\ cooling \in [Terminals -> BOOLEAN]
  /\ told \in [Requests -> {"unasked", "asking", "sent", "unavailable"}]
  /\ \A i \in DOMAIN conns :
       /\ conns[i].to \in Daemons
       /\ conns[i].stage \in {"backlog", "accepted", "closed", "reset"}
       /\ conns[i].read \in 0..Len(conns[i].wrote)
       /\ conns[i].open <=> (\E t \in Terminals : held[t] = i) \/ cli = [step |-> "query", about |-> i]
  /\ \A t \in Terminals : at[t] # Idle => told[at[t].request] = "asking"
  /\ cli.step \in {"idle", "query", "stale", "gone"}
  /\ crashes \in 0..MaxCrashes /\ commands \in 0..MaxCli
  /\ robbed \subseteq (0..MaxDaemons) \X Daemons

\* Daemons started together converge on one: whatever they find at the path
\* and however their steps interleave, a daemon that runs is the one terminals
\* reach, unless somebody unlinked its socket while it was running.
SingleInstance ==
  \A d \in Daemons : proc[d] \in Running => path = d \/ \E pair \in robbed : pair[2] = d

\* Daemons, connections, terminals and commands are well formed, and daemons
\* converge.
InstanceSound == TypeOK /\ SingleInstance

\* A question reaches at most one daemon, once, on a connection that said
\* hello first, and never one whose user was told that none was available:
\* the retry, a write that fails between its two parts, restarts and
\* terminals that leave included.
RequestsAreHonest ==
  \A r \in Requests :
    LET Read == {i \in DOMAIN conns : \E k \in 1..conns[i].read : conns[i].wrote[k] = r}
        Times(i) == Cardinality({k \in 1..conns[i].read : conns[i].wrote[k] = r})
    IN /\ Cardinality(Read) <= 1
       /\ \A i \in Read : Times(i) = 1 /\ conns[i].wrote[1] = Hello
       /\ told[r] # "sent" => Read = {}

\* The idle timer runs exactly while no terminal is attached: it can neither
\* fire under one that connected before the listen callback ran or as another
\* left, nor stay off and leave the daemon behind for ever.
IdleTimerExact ==
  \A d \in Daemons :
    /\ timer[d] => Accepted(d) = {}
    /\ proc[d] = "up" /\ Accepted(d) = {} => timer[d]

\* The first question after a daemon restart lands: a user is told that no
\* daemon is available while one accepts connections only if the connection
\* made for this very question broke, or could not be set up.
UnavailableIsTrue ==
  [][\A t \in Terminals :
       (/\ at[t] # Idle /\ told[at[t].request] = "asking"
        /\ told'[at[t].request] = "unavailable" /\ Accepting(path))
       => (held[t] # Nobody => conns[held[t]].wrote = <<Hello>>)]_vars

\* Of every question its user is told what became of it.
TerminalsToldTruth == []RequestsAreHonest /\ UnavailableIsTrue

\* A daemon that no terminal is connected to goes away, also one whose socket
\* another one has replaced.
DaemonsDrain ==
  \A d \in Daemons :
    []<>(proc[d] \in Running => \E i \in DOMAIN conns : conns[i].to = d /\ conns[i].open)

\* Losing the socket to a race of two starting daemons "degrades one `#?` and
\* self-heals on the next spawn window" (design 0008): the daemon that lost its
\* socket leaves the one that replaced it alone when it exits.
RaceSelfHeals ==
  [][\A d \in Daemons :
       /\ proc[d] = "closing" /\ proc'[d] = "dead"
       /\ \E pair \in robbed : pair[2] = d
       => path' = path \/ path = d]_vars
=============================================================================
