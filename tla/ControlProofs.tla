--------------------------- MODULE ControlProofs ---------------------------
(***************************************************************************)
(* Proofs for module Control: for any commands, terminals, catalog and     *)
(* bounds, its four safety invariants and one action property hold in      *)
(* every state.  The inductive invariant IInv has three layers: types; for *)
(* each command the agreement Good between the command, what it has still  *)
(* to read, what it has sent and the daemon's task for it; and what ties   *)
(* tasks to the rest: Works (a task that waits has its operation in a      *)
(* connection's queue), Locked (the lock of koshell.toml has a holder that *)
(* knows what to put back) and Registered (the registry names open         *)
(* connections, the newest of a session).                                  *)
(*                                                                         *)
(* Good and Entrusted speak of records, not of variables, so that most of  *)
(* the work is lemmas without primes (...Good); the lemmas ...Keep(s) put  *)
(* them together for a step that touches one command, one task or one      *)
(* connection, and the lemmas ...Step do so for each action.               *)
(***************************************************************************)
EXTENDS Control, FiniteSetTheorems, SequenceTheorems, TLAPS

\* Types of a command, of the daemon's task for it, of what waits in a connection's queue
\* and of a connection.
Records ==
    [phase : {"new", "pick", "asked", "acked", "prompt", "done"}, request : Requests,
     shown : Seq(Models), selected : Nat, prompt : 0..MaxPrompts]
Tasks ==
    [phase : {"none", "lock", "apply", "reload", "login", "done", "gone", "dead"},
     request : Requests, target : Conns \cup {NoOne}, previous : Configs, wrote : BOOLEAN,
     awaited : Nat, jobs : Seq(BOOLEAN), flow : {"off", "running", "prompt", "cancelled"},
     prompts : 0..MaxPrompts, saved : BOOLEAN, aborted : BOOLEAN, closed : BOOLEAN]
Jobs ==
    {Job("ask", NoOne, NoOne, FALSE, NoOne)}
    \cup [type : {"switch"}, by : Commands, model : Models, required : BOOLEAN,
          config : {NoOne}]
    \cup [type : {"reload"}, by : Commands, model : {NoOne}, required : {FALSE},
          config : Configs]
Connections ==
    [phase : {"new", "open", "closed"}, session : Sessions \cup {NoOne},
     agent : Configs \cup {NoOne}, queue : Seq(Jobs), asking : BOOLEAN]

\* The types of the variables, in the groups the actions leave unchanged together.
TypedExchange ==
    /\ cli \in [Commands -> Records]
    /\ inbox \in [Commands -> Seq(ToClient)] /\ outbox \in [Commands -> Seq(ToDaemon)]
    /\ task \in [Commands -> Tasks]
TypedTerminals ==
    /\ conn \in [Conns -> Connections]
    /\ registry \in [Sessions -> Conns \cup {NoOne}]
TypedConfig ==
    /\ file \in Configs /\ lock \in Commands \cup {NoOne, "stale"}
    /\ expected \in Models \cup {"invalid"} /\ excused \in BOOLEAN
    /\ unsettled \in Models \cup {"invalid", NoOne}
TypedRest == stored \in BOOLEAN /\ left \in Allowances

-----------------------------------------------------------------------------
(* One command and the daemon's task for it: the command x, what it has    *)
(* still to read, what it has sent, the task t.                            *)

\* The command is in its exchange with the daemon.
Awaits(x) == x.phase \in {"asked", "acked", "prompt"}

\* The picker: a row is selected exactly when there is one.
RowShown(x) ==
    x.phase = "pick" =>
      /\ x.request.kind = "set"
      /\ IF x.shown = <<>> THEN x.selected = 0 ELSE x.selected \in 1..Len(x.shown)

\* Before a command sends its request nothing has passed between it and the daemon; from
\* the ack on the daemon has a task for it.
Fresh(x, in, out, t) ==
    /\ x.phase \in {"new", "pick"} => t = Idle /\ in = <<>> /\ out = <<>>
    /\ t.phase = "none" => t = Idle /\ in = <<>>
    /\ x.phase \in {"acked", "prompt"} => t.phase # "none"

\* A command sends one request, first and before anything has been done for it; a set
\* that is sent names a model.
Requested(x, out, t) ==
    \A i \in DOMAIN out : out[i].kind \in Kinds =>
      /\ i = 1 /\ t.phase = "none"
      /\ out[i].kind = "set" => out[i].model \in Models
      /\ Awaits(x) => x.request = out[i]

\* What the daemon works at is what the command asked for; a login is under way exactly
\* in phase login; a task whose connection was seen to close belongs to a command that
\* has ended.
Working(x, t) ==
    /\ t.phase \in {"lock", "apply"} =>
         /\ t.request.kind = "set" /\ t.request.model \in Models
         /\ Awaits(x) => x.request = t.request
    /\ t.phase \in {"reload", "login"} /\ Awaits(x) => x.request.kind = t.phase
    /\ t.phase = "lock" => t.jobs = <<>> /\ ~t.request.only
    /\ t.flow # "off" <=> t.phase = "login"
    /\ t.phase = "gone" => t.closed
    /\ t.closed => x.phase = "done"

\* A question of a login that waits for its answer is on its way to the command, is put
\* to the user, or has its answer on the way back; or the command is gone and the daemon
\* has yet to see it.
Asked(x, in, out, t) ==
    /\ x.phase = "prompt" => x.prompt # 0
    /\ t.flow = "prompt" =>
         /\ ~t.aborted
         /\ \/ x.phase = "done"
            \/ x.phase = "prompt" /\ x.prompt = t.prompts
            \/ \E i \in DOMAIN in : in[i].kind = "prompt" /\ in[i].id = t.prompts
            \/ \E i \in DOMAIN out : out[i].kind = "answer" /\ out[i].id = t.prompts

\* The last thing a finished task left for its command to read is its result, and the
\* result is true.
Told(x, in, t) ==
    (Awaits(x) /\ t.phase = "done") =>
      LET last == in[Len(in)]
          made == \A i \in DOMAIN t.jobs : t.jobs[i]
      IN /\ in # <<>> /\ last.kind = "result"
         /\ last.ok /\ x.request.kind = "reload" => made /\ Len(t.jobs) = t.awaited
         /\ last.ok /\ x.request.only => made /\ t.jobs # <<>>
         /\ x.request.kind = "login" => last.ok = t.saved

Good(x, in, out, t) ==
    /\ RowShown(x) /\ Fresh(x, in, out, t) /\ Requested(x, out, t)
    /\ Working(x, t) /\ Asked(x, in, out, t) /\ Told(x, in, t)

Exchanges == \A c \in Commands : Good(cli[c], inbox[c], outbox[c], task[c])

(* The task of a command, and the connections its work is queued in. *)
Entrusted(t, queued) ==
    /\ queued # {} => t.phase \in {"apply", "reload", "done", "gone"}
    /\ t.phase = "apply" =>
         /\ t.target \in Conns
         /\ \/ t.jobs = <<>> /\ queued = {t.target}
            \/ Len(t.jobs) = 1 /\ queued = {}
    /\ t.phase = "reload" => Len(t.jobs) + Cardinality(queued) = t.awaited

\* Every command's task and the queues agree.
Works == \A c \in Commands : Entrusted(task[c], Queued(c))

\* A queue holds at most one operation for a command.
OneEach ==
    \A k \in Conns : \A i, j \in DOMAIN conn[k].queue :
      conn[k].queue[i].by \in Commands /\ conn[k].queue[j].by = conn[k].queue[i].by => i = j

\* The connection a task was routed to has said hello.
TargetsKnown ==
    \A c \in Commands : task[c].target \in Conns => conn[task[c].target].phase # "new"

\* The lock's holder is at its switch, and but for a failure that is excused it knows the
\* model the file had before, which is the expected one or that of a set whose daemon died,
\* and the file has its own.
Locked ==
    /\ \A c \in Commands : task[c].phase = "apply" => (lock = c <=> ~task[c].request.only)
    /\ lock \in Commands =>
         /\ task[lock].phase = "apply"
         /\ ~excused =>
              /\ file.model = task[lock].request.model
              /\ task[lock].previous.model \in {expected, unsettled}
              /\ ~task[lock].wrote => file.model \in {expected, unsettled}
    /\ FileIsLastSet

\* The registry names open connections of that very session; connections open in order
\* and start with nothing; an open one that is the newest of its session is the one the
\* registry names.
Registered ==
    /\ \A s \in Sessions : registry[s] # NoOne =>
         Opened(registry[s]) /\ conn[registry[s]].session = s
    /\ \A k \in Conns :
         /\ conn[k].phase = "new" => conn[k] = NewConn
         /\ Opened(k) => conn[k].session \in Sessions
    /\ \A j, k \in Conns : j < k /\ conn[j].phase = "new" => conn[k].phase = "new"
    /\ RegistryCurrent

\* A connection that is answering has the question at the head of its queue.
Asking ==
    \A k \in Conns : conn[k].asking => conn[k].queue # <<>> /\ conn[k].queue[1].type = "ask"

\* The inductive invariant.
IInv ==
    /\ TypedExchange /\ TypedTerminals /\ TypedConfig /\ TypedRest
    /\ Exchanges /\ Works /\ OneEach /\ TargetsKnown
    /\ Locked /\ Registered /\ Asking

-----------------------------------------------------------------------------
(* Sequences, as the streams between a command and the daemon use them. *)

\* What a sequence of replies (Replied) adds to what a command has still to read.
LEMMA SaidMore ==
  ASSUME NEW S, NEW s \in Seq(S), NEW m \in Seq(S), m # <<>>
  PROVE  /\ s \o m \in Seq(S) /\ s \o m # <<>>
         /\ (s \o m)[Len(s \o m)] = m[Len(m)]
         /\ \A i \in DOMAIN s : i \in DOMAIN (s \o m) /\ (s \o m)[i] = s[i]
         /\ Len(s \o m) = Len(s) + Len(m)
         /\ \A i \in DOMAIN m : Len(s) + i \in DOMAIN (s \o m) /\ (s \o m)[Len(s) + i] = m[i]
OBVIOUS

\* What Append adds to a queue or a stream.
LEMMA Appended ==
  ASSUME NEW S, NEW s \in Seq(S), NEW e \in S
  PROVE  /\ Append(s, e) \in Seq(S) /\ Append(s, e) # <<>>
         /\ DOMAIN Append(s, e) = DOMAIN s \cup {Len(s) + 1}
         /\ Len(Append(s, e)) = Len(s) + 1
         /\ \A i \in DOMAIN s : Append(s, e)[i] = s[i]
         /\ Append(s, e)[Len(s) + 1] = e
OBVIOUS

\* What is left of a stream or a queue when its first element is taken.
LEMMA Consumed ==
  ASSUME NEW S, NEW s \in Seq(S), s # <<>>
  PROVE  /\ Tail(s) \in Seq(S) /\ Head(s) = s[1] /\ Len(s) \in Nat \ {0} /\ Head(s) \in S
         /\ Len(Tail(s)) = Len(s) - 1 /\ DOMAIN Tail(s) = 1..(Len(s) - 1)
         /\ \A i \in DOMAIN Tail(s) : i + 1 \in DOMAIN s /\ Tail(s)[i] = s[i + 1]
         /\ \A i \in DOMAIN s : i # 1 => i - 1 \in DOMAIN Tail(s) /\ Tail(s)[i - 1] = s[i]
         /\ Tail(s) # <<>> => Tail(s)[Len(Tail(s))] = s[Len(s)]
         /\ s[1] # s[Len(s)] => Tail(s) # <<>>
<1>1. Len(s) \in Nat \ {0} /\ DOMAIN s = 1..Len(s) /\ Head(s) = s[1] /\ Head(s) \in S
  OBVIOUS
<1>2. Tail(s) \in Seq(S) /\ Len(Tail(s)) = Len(s) - 1
  OBVIOUS
<1>3. DOMAIN Tail(s) = 1..(Len(s) - 1)
  BY <1>1, <1>2
<1>4. \A i \in 1..(Len(s) - 1) : Tail(s)[i] = s[i + 1]
  BY <1>1, <1>2
<1>5. Tail(s) # <<>> => Len(s) > 1
  BY <1>1, <1>2
<1>6. Len(s) > 1 => Tail(s) # <<>>
  BY <1>1, <1>2
<1> QED BY <1>1, <1>2, <1>3, <1>4, <1>5, <1>6

\* RunControl takes the operation whose turn it is, the first, out of the queue.
LEMMA TurnIsFirst ==
  ASSUME NEW S, NEW s \in Seq(S), s # <<>>
  PROVE  Without(s, 1) = Tail(s)
<1>1. SubSeq(s, 1, 0) = <<>>
  BY SubSeqEmpty
<1>2. Len(s) \in Int /\ SubSeq(s, 2, Len(s)) = Tail(s)
  BY TailIsSubSeq
<1>3. <<>> \o Tail(s) = Tail(s)
  BY ConcatEmptySeq, HeadTailProperties
<1> QED BY <1>1, <1>2, <1>3 DEF Without

-----------------------------------------------------------------------------
(* The command's steps. *)

\* A command that has ended.
Ended(x) == [x EXCEPT !.phase = "done", !.request = NoRequest, !.shown = <<>>,
                      !.selected = 0, !.prompt = 0]

\* The fields of a request.
LEMMA RequestFields ==
  ASSUME NEW r \in Requests
  PROVE  /\ r.kind \in Kinds /\ r.model \in Models \cup {NoOne}
         /\ r.session \in Sessions \cup {NoOne} /\ r.only \in BOOLEAN
         /\ r.only => r.kind = "set"
         /\ r \in ToDaemon
BY DEF Requests, ToDaemon

\* A command may end at any time (the result, Ctrl+C, Esc in the picker, a timeout) and
\* its exchange still agrees with the task the daemon goes on with.
LEMMA EndedGood ==
  ASSUME NEW x \in Records, NEW in, NEW out, NEW t, Good(x, in, out, t),
         NEW heard, in = <<>> => heard = <<>>
  PROVE  Ended(x) \in Records /\ Good(Ended(x), heard, out, t)
<1> DEFINE y == Ended(x)
<1>1. NoRequest \in Requests
  BY DEF NoRequest, Requests, Kinds
<1>2. y \in Records /\ y.phase = "done"
  <2>1. <<>> \in Seq(Models) /\ 0 \in Nat /\ 0 \in 0..MaxPrompts
    BY ControlAssumption
  <2> QED BY <1>1, <2>1 DEF Ended, Records
<1>3. RowShown(y) /\ Fresh(y, heard, out, t) /\ Requested(y, out, t)
  BY <1>2 DEF Good, RowShown, Fresh, Requested, Awaits
<1>4. Working(y, t) /\ Asked(y, heard, out, t) /\ Told(y, heard, t)
  BY <1>2 DEF Good, Working, Asked, Told, Awaits
<1> QED BY <1>2, <1>3, <1>4 DEF Good

\* The hello and the request of a command (Start, and Enter in the picker).
LEMMA SentGood ==
  ASSUME NEW x \in Records, NEW in, NEW out \in Seq(ToDaemon), NEW t, Good(x, in, out, t),
         x.phase \in {"new", "pick"}, NEW r \in Requests, r.kind = "set" => r.model \in Models,
         NEW y, y = [x EXCEPT !.phase = "asked", !.request = r, !.shown = <<>>, !.selected = 0]
  PROVE  y \in Records /\ Append(out, r) \in Seq(ToDaemon) /\ Good(y, in, Append(out, r), t)
<1>1. y \in Records /\ y.phase = "asked" /\ y.request = r
  <2>1. <<>> \in Seq(Models) /\ 0 \in Nat
    OBVIOUS
  <2> QED BY <2>1 DEF Records
<1>2. t = Idle /\ in = <<>> /\ out = <<>>
  BY DEF Good, Fresh
<1>3. t.phase = "none" /\ t.flow = "off" /\ ~t.closed
  BY <1>2 DEF Idle
<1>4. /\ Append(out, r) \in Seq(ToDaemon) /\ DOMAIN Append(out, r) = {1}
      /\ Append(out, r)[1] = r
  BY <1>2, RequestFields
<1>5. RowShown(y) /\ Fresh(y, in, Append(out, r), t)
  BY <1>1, <1>2, <1>3 DEF RowShown, Fresh
<1>6. Requested(y, Append(out, r), t)
  BY <1>1, <1>3, <1>4 DEF Requested
<1>7. Working(y, t) /\ Asked(y, in, Append(out, r), t) /\ Told(y, in, t)
  BY <1>1, <1>3 DEF Working, Asked, Told
<1> QED BY <1>1, <1>4, <1>5, <1>6, <1>7 DEF Good

\* The picker opens or its list or row changes: nothing was sent yet.
LEMMA PickingGood ==
  ASSUME NEW x \in Records, NEW in, NEW out, NEW t, Good(x, in, out, t),
         x.phase \in {"new", "pick"},
         NEW y \in Records, y.phase = "pick", y.request.kind = "set",
         IF y.shown = <<>> THEN y.selected = 0 ELSE y.selected \in 1..Len(y.shown)
  PROVE  Good(y, in, out, t)
<1>1. t = Idle /\ in = <<>> /\ out = <<>>
  BY DEF Good, Fresh
<1>2. t.phase = "none" /\ t.flow = "off" /\ ~t.closed
  BY <1>1 DEF Idle
<1>3. RowShown(y) /\ Fresh(y, in, out, t) /\ Requested(y, out, t)
  BY <1>1, <1>2 DEF RowShown, Fresh, Requested
<1>4. Working(y, t) /\ Asked(y, in, out, t) /\ Told(y, in, t)
  BY <1>2 DEF Working, Asked, Told, Awaits
<1> QED BY <1>3, <1>4 DEF Good

\* The ack is read: the daemon's task has begun.
LEMMA ReadAckGood ==
  ASSUME NEW x \in Records, NEW in \in Seq(ToClient), NEW out, NEW t, Good(x, in, out, t),
         x.phase = "asked", in # <<>>, Head(in).kind = "ack",
         NEW y, y = [x EXCEPT !.phase = "acked"]
  PROVE  y \in Records /\ Tail(in) \in Seq(ToClient) /\ Good(y, Tail(in), out, t)
<1>1. y \in Records /\ y.phase = "acked" /\ y.request = x.request
  BY DEF Records
<1>2. t.phase # "none"
  BY DEF Good, Fresh
<1>3. RowShown(y) /\ Fresh(y, Tail(in), out, t) /\ Requested(y, out, t)
  BY <1>1, <1>2 DEF RowShown, Fresh, Requested, Good, Awaits
<1>4. Working(y, t)
  BY <1>1 DEF Working, Good, Awaits
<1>5. \A i \in DOMAIN in : in[i].kind = "prompt" =>
        \E j \in DOMAIN Tail(in) : Tail(in)[j] = in[i]
  BY Consumed
<1>6. Asked(y, Tail(in), out, t)
  BY <1>1, <1>5 DEF Asked, Good
<1>7. in[Len(in)].kind = "result" => Tail(in) # <<>> /\ Tail(in)[Len(Tail(in))] = in[Len(in)]
  BY Consumed
<1>8. Told(y, Tail(in), t)
  BY <1>1, <1>7 DEF Told, Good, Awaits
<1> QED BY <1>1, <1>3, <1>4, <1>6, <1>8, Consumed DEF Good

\* A question of a login is read.
LEMMA ReadPromptGood ==
  ASSUME NEW x \in Records, NEW in \in Seq(ToClient), NEW out, NEW t, Good(x, in, out, t),
         x.phase = "acked", in # <<>>, Head(in).kind = "prompt",
         NEW y, y = [x EXCEPT !.phase = "prompt", !.prompt = Head(in).id]
  PROVE  y \in Records /\ Tail(in) \in Seq(ToClient) /\ Good(y, Tail(in), out, t)
<1>0. Head(in).id \in 1..MaxPrompts
  BY Consumed DEF ToClient
<1>1. y \in Records /\ y.phase = "prompt" /\ y.request = x.request /\ y.prompt = Head(in).id
  <2>1. Head(in).id \in 0..MaxPrompts
    BY <1>0, ControlAssumption
  <2> QED BY <2>1 DEF Records
<1>2. t.phase # "none"
  BY DEF Good, Fresh
<1>3. RowShown(y) /\ Fresh(y, Tail(in), out, t) /\ Requested(y, out, t)
  BY <1>1, <1>2 DEF RowShown, Fresh, Requested, Good, Awaits
<1>4. Working(y, t)
  BY <1>1 DEF Working, Good, Awaits
<1>5. \A i \in DOMAIN in : in[i] = Head(in) \/ \E j \in DOMAIN Tail(in) : Tail(in)[j] = in[i]
  BY Consumed
<1>6. Asked(y, Tail(in), out, t)
  <2>1. y.prompt # 0
    BY <1>0, <1>1, ControlAssumption
  <2> QED BY <1>1, <1>5, <2>1 DEF Asked, Good
<1>7. in[Len(in)].kind = "result" => Tail(in) # <<>> /\ Tail(in)[Len(Tail(in))] = in[Len(in)]
  BY Consumed
<1>8. Told(y, Tail(in), t)
  BY <1>1, <1>7 DEF Told, Good, Awaits
<1> QED BY <1>1, <1>3, <1>4, <1>6, <1>8, Consumed DEF Good

\* The user's answer is sent: the question that waits has its answer on the way.
LEMMA AnswerPromptGood ==
  ASSUME NEW x \in Records, NEW in, NEW out \in Seq(ToDaemon), NEW t, Good(x, in, out, t),
         x.phase = "prompt", NEW null \in BOOLEAN,
         NEW a, a = [kind |-> "answer", id |-> x.prompt, null |-> null],
         NEW y, y = [x EXCEPT !.phase = "acked"]
  PROVE  y \in Records /\ Append(out, a) \in Seq(ToDaemon) /\ Good(y, in, Append(out, a), t)
<1>1. y \in Records /\ y.phase = "acked" /\ y.request = x.request
  BY DEF Records
<1>2. x.prompt \in 1..MaxPrompts
  BY ControlAssumption DEF Records, Good, Asked
<1>3. a \in ToDaemon /\ a.kind = "answer" /\ a.id = x.prompt
  BY <1>2 DEF ToDaemon
<1>4. /\ Append(out, a) \in Seq(ToDaemon) /\ Len(out) + 1 \in DOMAIN Append(out, a)
      /\ DOMAIN Append(out, a) = DOMAIN out \cup {Len(out) + 1}
      /\ \A i \in DOMAIN out : Append(out, a)[i] = out[i]
      /\ Append(out, a)[Len(out) + 1] = a
  BY <1>3, Appended
<1>5. RowShown(y) /\ Fresh(y, in, Append(out, a), t)
  BY <1>1 DEF RowShown, Fresh, Good
<1>6. Requested(y, Append(out, a), t)
  <2>1. "answer" \notin Kinds
    BY DEF Kinds
  <2> QED BY <1>1, <1>3, <1>4, <2>1 DEF Requested, Good, Awaits
<1>7. Working(y, t) /\ Told(y, in, t)
  BY <1>1 DEF Working, Told, Good, Awaits
<1>8. Asked(y, in, Append(out, a), t)
  BY <1>1, <1>3, <1>4 DEF Asked, Good
<1> QED BY <1>1, <1>4, <1>5, <1>6, <1>7, <1>8 DEF Good

\* What a query leaves of the catalog are models.
LEMMA NarrowedModels ==
  ASSUME NEW shown \in Narrowed
  PROVE  shown \in Seq(Models)
<1>1. PICK n \in 0..Len(Catalog) : \E at \in [1..n -> DOMAIN Catalog] :
        shown = [i \in 1..n |-> Catalog[at[i]]]
  BY DEF Narrowed
<1>a. PICK at \in [1..n -> DOMAIN Catalog] : shown = [i \in 1..n |-> Catalog[at[i]]]
  BY <1>1
<1>2. n \in Nat /\ \A i \in 1..n : Catalog[at[i]] \in Models
  BY <1>a, ControlAssumption DEF Models
<1>3. shown \in [1..n -> Models]
  BY <1>a, <1>2
<1> QED BY <1>2, <1>3, SeqDef

\* A step that moves a command and its two streams alone.
LEMMA ClientKeeps ==
  ASSUME IInv, NEW c \in Commands, NEW x \in Records,
         NEW in \in Seq(ToClient), NEW out \in Seq(ToDaemon),
         cli' = [cli EXCEPT ![c] = x], inbox' = [inbox EXCEPT ![c] = in],
         outbox' = [outbox EXCEPT ![c] = out],
         UNCHANGED <<task, terminals, config, stored, left>>,
         Good(x, in, out, task[c])
  PROVE  IInv'
<1>1. TypedExchange'
  BY DEF IInv, TypedExchange
<1>2. TypedTerminals' /\ TypedConfig' /\ TypedRest'
  BY DEF IInv, TypedTerminals, TypedConfig, TypedRest, terminals, config
<1>3. Exchanges'
  <2> SUFFICES ASSUME NEW d \in Commands
               PROVE  Good(cli'[d], inbox'[d], outbox'[d], task'[d])
    BY DEF Exchanges
  <2>1. CASE d = c
    BY <2>1 DEF IInv, TypedExchange
  <2>2. CASE d # c
    BY <2>2 DEF IInv, TypedExchange, Exchanges
  <2> QED BY <2>1, <2>2
<1>4. Works' /\ OneEach' /\ TargetsKnown' /\ Asking'
  BY DEF IInv, Works, OneEach, TargetsKnown, Asking, Queued, terminals
<1>5. Locked'
  BY DEF IInv, Locked, FileIsLastSet, config
<1>6. Registered'
  BY DEF IInv, Registered, RegistryCurrent, Opened, terminals
<1> QED BY <1>1, <1>2, <1>3, <1>4, <1>5, <1>6 DEF IInv

\* Every step of a command: the picker, the exchange, giving up, Ctrl+C and the loss of
\* the daemon.
LEMMA ClientStep ==
  ASSUME IInv, NEW c \in Commands, OfClient(c)
  PROVE  IInv'
<1> DEFINE x == cli[c]  in == inbox[c]  out == outbox[c]  t == task[c]
<1>1. /\ x \in Records /\ in \in Seq(ToClient) /\ out \in Seq(ToDaemon)
      /\ inbox = [inbox EXCEPT ![c] = in] /\ outbox = [outbox EXCEPT ![c] = out]
      /\ Good(x, in, out, t)
  BY DEF IInv, TypedExchange, Exchanges
<1>2. /\ x.request \in Requests /\ x.shown \in Seq(Models) /\ x.selected \in Nat
      /\ left.requests \subseteq Requests
  BY <1>1 DEF Records, IInv, TypedRest, Allowances
<1>3. ASSUME NEW heard \in Seq(ToClient), in = <<>> => heard = <<>>,
             cli' = [cli EXCEPT ![c] = Ended(x)], inbox' = [inbox EXCEPT ![c] = heard],
             UNCHANGED <<outbox, task, terminals, config, stored, left>>
      PROVE  IInv'
  <2>1. Ended(x) \in Records /\ Good(Ended(x), heard, out, t)
    BY <1>1, <1>3, EndedGood
  <2> HIDE DEF x, out, t
  <2>2. outbox' = [outbox EXCEPT ![c] = out]
    BY <1>1, <1>3
  <2> QED BY <1>1, <1>3, <2>1, <2>2, ClientKeeps DEF out, t
<1>4. ASSUME NEW r \in Requests, r.kind = "set" => r.model \in Models, Sent(c, r),
             x.phase \in {"new", "pick"},
             UNCHANGED <<task, terminals, config, stored, left>>
      PROVE  IInv'
  <2> DEFINE y == [x EXCEPT !.phase = "asked", !.request = r, !.shown = <<>>, !.selected = 0]
  <2>1. y \in Records /\ Append(out, r) \in Seq(ToDaemon) /\ Good(y, in, Append(out, r), t)
    BY <1>1, <1>4, SentGood
  <2>2. /\ cli' = [cli EXCEPT ![c] = y] /\ outbox' = [outbox EXCEPT ![c] = Append(out, r)]
        /\ inbox' = [inbox EXCEPT ![c] = in]
    BY <1>1, <1>4 DEF Sent
  <2> QED BY <1>1, <1>4, <2>1, <2>2, ClientKeeps
<1>5. ASSUME NEW y \in Records, cli' = [cli EXCEPT ![c] = y], Good(y, in, out, t),
             UNCHANGED <<inbox, outbox, task, terminals, config, stored, left>>
      PROVE  IInv'
  BY <1>1, <1>5, ClientKeeps
<1>6. ASSUME UNCHANGED <<inbox, outbox, task, terminals, config, stored, left>>, End(c)
      PROVE  IInv'
  BY <1>1, <1>3, <1>6 DEF End, Ended
<1>7. ASSUME NEW r \in left.requests, Start(c, r) PROVE IInv'
  <2>1. r \in Requests /\ (r.kind = "set" => r.model \in Models) /\ x.phase = "new"
    BY <1>2, <1>7, RequestFields DEF Start, WithPicker
  <2> QED BY <1>4, <1>6, <1>7, <2>1 DEF Start
<1>8. ASSUME NEW r \in left.requests, OpenPicker(c, r) PROVE IInv'
  <2> DEFINE y == [x EXCEPT !.phase = "pick", !.request = r,
                            !.shown = Catalog, !.selected = 1]
  <2>1. r \in Requests /\ r.kind = "set" /\ x.phase = "new"
    BY <1>2, <1>8 DEF OpenPicker, WithPicker
  <2>2. Catalog \in Seq(Models) /\ Catalog # <<>> /\ 1 \in 1..Len(Catalog)
    BY ControlAssumption DEF Models
  <2>3. /\ y \in Records /\ y.phase = "pick" /\ y.request.kind = "set"
        /\ y.shown = Catalog /\ y.selected = 1
    BY <1>1, <2>1, <2>2 DEF Records
  <2>4. Good(y, in, out, t)
    BY <1>1, <2>1, <2>2, <2>3, PickingGood
  <2>5. cli' = [cli EXCEPT ![c] = y]
    BY <1>8 DEF OpenPicker
  <2> QED BY <1>5, <1>8, <2>3, <2>4, <2>5 DEF OpenPicker
<1>9. CASE Unreachable(c) \/ PickCancel(c) \/ GiveUp(c) \/ Lost(c)
  BY <1>6, <1>9 DEF Unreachable, PickCancel, GiveUp, Lost
<1>10. ASSUME NEW shown \in Narrowed, PickQuery(c, shown) PROVE IInv'
  <2> DEFINE y == [x EXCEPT !.shown = shown, !.selected = IF shown = <<>> THEN 0 ELSE 1]
  <2>1. shown \in Seq(Models)
    BY NarrowedModels
  <2>2. shown # <<>> => 1 \in 1..Len(shown)
    BY <2>1
  <2>3. x.phase = "pick" /\ x.request.kind = "set"
    BY <1>1, <1>10 DEF PickQuery, Good, RowShown
  <2>4. /\ y \in Records /\ y.phase = "pick" /\ y.request.kind = "set"
        /\ y.shown = shown /\ y.selected = IF shown = <<>> THEN 0 ELSE 1
    BY <1>1, <2>1, <2>3 DEF Records
  <2>5. Good(y, in, out, t)
    BY <1>1, <2>2, <2>3, <2>4, PickingGood
  <2>6. cli' = [cli EXCEPT ![c] = y]
    BY <1>10 DEF PickQuery
  <2> QED BY <1>5, <1>10, <2>4, <2>5, <2>6 DEF PickQuery
<1>11. CASE PickMove(c)
  <2>1. PICK row \in Moved(x.shown, x.selected) : cli' = [cli EXCEPT ![c].selected = row]
    BY <1>11 DEF PickMove
  <2> DEFINE y == [x EXCEPT !.selected = row]
  <2>2. row \in Nat /\ row \in 1..Len(x.shown) /\ x.shown # <<>>
    BY <1>2 DEF Moved
  <2>3. x.phase = "pick" /\ x.request.kind = "set"
    BY <1>1, <1>11 DEF PickMove, Good, RowShown
  <2>4. /\ y \in Records /\ y.phase = "pick" /\ y.request.kind = "set"
        /\ y.shown = x.shown /\ y.selected = row
    BY <1>1, <2>2, <2>3 DEF Records
  <2>5. Good(y, in, out, t)
    BY <1>1, <2>2, <2>3, <2>4, PickingGood
  <2> QED BY <1>5, <1>11, <2>1, <2>4, <2>5 DEF PickMove
<1>12. CASE PickEnter(c)
  <2>1. CASE x.selected = 0
    BY <1>6, <1>12, <2>1 DEF PickEnter
  <2>2. CASE x.selected # 0
    <3> DEFINE r == [x.request EXCEPT !.model = x.shown[x.selected]]
    <3>1. x.phase = "pick" /\ x.request.kind = "set" /\ x.selected \in 1..Len(x.shown)
      BY <1>1, <1>12, <2>2 DEF PickEnter, Good, RowShown
    <3>2. x.shown[x.selected] \in Models
      BY <1>2, <3>1
    <3>3. r \in Requests /\ r.model \in Models
      BY <1>2, <3>1, <3>2 DEF Requests
    <3>4. Sent(c, r) /\ UNCHANGED <<task, terminals, config, stored, left>>
      BY <1>12, <2>2 DEF PickEnter
    <3> QED BY <1>4, <3>1, <3>3, <3>4
  <2> QED BY <2>1, <2>2
<1>13. CASE ReadAck(c)
  <2> DEFINE y == [x EXCEPT !.phase = "acked"]
  <2>1. y \in Records /\ Tail(in) \in Seq(ToClient) /\ Good(y, Tail(in), out, t)
    BY <1>1, <1>13, ReadAckGood DEF ReadAck, Next1
  <2>2. /\ cli' = [cli EXCEPT ![c] = y] /\ inbox' = [inbox EXCEPT ![c] = Tail(in)]
        /\ outbox' = [outbox EXCEPT ![c] = out]
    BY <1>1, <1>13 DEF ReadAck, Read, Goto
  <2> QED BY <1>1, <1>13, <2>1, <2>2, ClientKeeps DEF ReadAck
<1>14. CASE ReadPrompt(c)
  <2> DEFINE y == [x EXCEPT !.phase = "prompt", !.prompt = Head(in).id]
  <2>1. y \in Records /\ Tail(in) \in Seq(ToClient) /\ Good(y, Tail(in), out, t)
    BY <1>1, <1>14, ReadPromptGood DEF ReadPrompt, Next1
  <2>2. /\ cli' = [cli EXCEPT ![c] = y] /\ inbox' = [inbox EXCEPT ![c] = Tail(in)]
        /\ outbox' = [outbox EXCEPT ![c] = out]
    BY <1>1, <1>14 DEF ReadPrompt, Read
  <2> QED BY <1>1, <1>14, <2>1, <2>2, ClientKeeps DEF ReadPrompt
<1>15. CASE ReadResult(c)
  <2>1. in # <<>> /\ Tail(in) \in Seq(ToClient)
    BY <1>1, <1>15 DEF ReadResult, Next1
  <2> QED BY <1>3, <1>15, <2>1 DEF ReadResult, Read, End, Ended
<1>16. ASSUME NEW null \in BOOLEAN, AnswerPrompt(c, null) PROVE IInv'
  <2> DEFINE a == [kind |-> "answer", id |-> x.prompt, null |-> null]
             y == [x EXCEPT !.phase = "acked"]
  <2>0. x.phase = "prompt"
    BY <1>16 DEF AnswerPrompt
  <2>1. y \in Records /\ Append(out, a) \in Seq(ToDaemon) /\ Good(y, in, Append(out, a), t)
    <3> HIDE DEF x, in, out, t
    <3> QED BY <1>1, <2>0, AnswerPromptGood
  <2>2. /\ cli' = [cli EXCEPT ![c] = y] /\ inbox' = [inbox EXCEPT ![c] = in]
        /\ outbox' = [outbox EXCEPT ![c] = Append(out, a)]
    BY <1>1, <1>16 DEF AnswerPrompt, Goto
  <2> QED BY <1>1, <1>16, <2>1, <2>2, ClientKeeps DEF AnswerPrompt
<1>17. CASE Interrupt(c)
  <2>1. <<>> \in Seq(ToClient)
    OBVIOUS
  <2> QED BY <1>3, <1>17, <2>1 DEF Interrupt, End, Ended
<1> QED
  BY <1>7, <1>8, <1>9, <1>10, <1>11, <1>12, <1>13, <1>14, <1>15, <1>16, <1>17 DEF OfClient

-----------------------------------------------------------------------------
(* The daemon's steps for a command. *)

\* Replied and Answered, said of one command: a send to a connection that is gone is
\* dropped.
Heard(x, in, t, messages) ==
    IF t.closed \/ x.phase = "done" THEN in ELSE in \o messages
Settled(t) ==
    IF t.closed THEN Gone
    ELSE [t EXCEPT !.phase = "done", !.previous = Initial, !.wrote = FALSE, !.target = NoOne]
NoRequests(out) == \A i \in DOMAIN out : out[i].kind \notin Kinds

\* The tasks there are to begin with and to end with.
LEMMA InitialTask ==
  /\ Initial \in Configs /\ NoRequest \in Requests
  /\ Idle \in Tasks /\ Gone \in Tasks
  /\ Gone.phase = "gone" /\ Gone.flow = "off" /\ Gone.closed
  /\ Idle.phase = "none" /\ Idle.flow = "off" /\ ~Idle.closed /\ Idle.jobs = <<>>
  /\ Idle.awaited = 0 /\ ~Idle.saved /\ Idle.target = NoOne /\ Gone.target = NoOne
<1>1. Initial \in Configs
  BY ControlAssumption DEF Initial, Configs, Models
<1>2. NoRequest \in Requests
  BY DEF NoRequest, Requests, Kinds
<1>3. <<>> \in Seq(BOOLEAN) /\ 0 \in Nat /\ 0 \in 0..MaxPrompts
  BY ControlAssumption
<1>4. Idle \in Tasks
  BY <1>1, <1>2, <1>3 DEF Idle, Tasks
<1>5. Gone \in Tasks
  BY <1>4 DEF Gone, Tasks
<1> QED BY <1>1, <1>2, <1>4, <1>5 DEF Idle, Gone

\* What the daemon may find when it reads a message: a request finds no task, and no
\* other request is behind it.
LEMMA Arrival ==
  ASSUME NEW x, NEW in, NEW out \in Seq(ToDaemon), NEW t, Good(x, in, out, t), out # <<>>
  PROVE  /\ Tail(out) \in Seq(ToDaemon) /\ NoRequests(Tail(out))
         /\ x.phase \notin {"new", "pick"}
         /\ Head(out).kind \in Kinds =>
              /\ Head(out) \in Requests /\ t = Idle /\ in = <<>>
              /\ Head(out).kind = "set" => Head(out).model \in Models
              /\ Awaits(x) => x.request = Head(out)
<1>1. /\ Tail(out) \in Seq(ToDaemon) /\ Head(out) = out[1] /\ 1 \in DOMAIN out
      /\ Head(out) \in ToDaemon
      /\ \A i \in DOMAIN Tail(out) : i \in Nat \ {0} /\ i + 1 \in DOMAIN out
                                     /\ Tail(out)[i] = out[i + 1]
  BY Consumed
<1>2. NoRequests(Tail(out))
  BY <1>1 DEF NoRequests, Good, Requested
<1>3. Head(out).kind \in Kinds => Head(out) \in Requests
  BY <1>1 DEF ToDaemon, Kinds
<1> QED BY <1>1, <1>2, <1>3 DEF Good, Requested, Fresh

\* Once there is a task no request is on its way.
LEMMA NothingAsked ==
  ASSUME NEW x, NEW in, NEW out, NEW t, Good(x, in, out, t), t.phase # "none"
  PROVE  NoRequests(out) /\ x.phase \notin {"new", "pick"}
BY InitialTask DEF NoRequests, Good, Requested, Fresh

\* A command that has ended agrees with a task that is over.
LEMMA GoneGood ==
  ASSUME NEW x \in Records, NEW in, NEW out, NEW t, Good(x, in, out, t), x.phase = "done",
         NEW heard, NEW rest, NoRequests(rest)
  PROVE  Good(x, heard, rest, Gone)
<1>1. RowShown(x) /\ Fresh(x, heard, rest, Gone) /\ Requested(x, rest, Gone)
  BY InitialTask DEF RowShown, Fresh, Requested, NoRequests
<1>2. Working(x, Gone) /\ Asked(x, heard, rest, Gone) /\ Told(x, heard, Gone)
  BY InitialTask DEF Working, Asked, Told, Awaits
<1> QED BY <1>1, <1>2 DEF Good

\* Replies are messages to a command.
LEMMA HeardTyped ==
  ASSUME NEW x, NEW in \in Seq(ToClient), NEW t, NEW said \in Seq(ToClient)
  PROVE  Heard(x, in, t, said) \in Seq(ToClient)
BY DEF Heard

\* The task ends with a result that is true of what it did.
LEMMA FinishedGood ==
  ASSUME NEW x \in Records, NEW in \in Seq(ToClient), NEW out, NEW t, Good(x, in, out, t),
         x.phase \notin {"new", "pick"},
         NEW rest, NoRequests(rest),
         NEW said \in Seq(ToClient), said # <<>>, NEW ok \in BOOLEAN,
         said[Len(said)] = Result(ok),
         NEW u, u.phase = "done", u.flow = "off", u.closed = t.closed,
         Awaits(x) => /\ ok /\ x.request.kind = "reload" =>
                            (\A i \in DOMAIN u.jobs : u.jobs[i]) /\ Len(u.jobs) = u.awaited
                      /\ ok /\ x.request.only =>
                            (\A i \in DOMAIN u.jobs : u.jobs[i]) /\ u.jobs # <<>>
                      /\ x.request.kind = "login" => ok = u.saved
  PROVE  Good(x, Heard(x, in, t, said), rest, u)
<1> DEFINE heard == Heard(x, in, t, said)
<1>1. RowShown(x) /\ Fresh(x, heard, rest, u) /\ Requested(x, rest, u)
  BY DEF RowShown, Fresh, Requested, NoRequests
<1>2. Working(x, u) /\ Asked(x, heard, rest, u)
  BY DEF Working, Asked, Good
<1>3. Awaits(x) => heard # <<>> /\ heard[Len(heard)] = Result(ok)
  <2>1. Awaits(x) => ~t.closed /\ x.phase # "done"
    BY DEF Good, Working, Awaits
  <2>2. in \o said # <<>> /\ (in \o said)[Len(in \o said)] = said[Len(said)]
    BY SaidMore
  <2> QED BY <2>1, <2>2 DEF Heard
<1>4. Result(ok).kind = "result" /\ Result(ok).ok = ok
  BY DEF Result
<1> HIDE DEF heard
<1>5. Told(x, heard, u)
  BY <1>3, <1>4 DEF Told
<1> QED BY <1>1, <1>2, <1>5 DEF Good, heard

\* Answered: the result goes out and the task is over, or the connection is gone and
\* nothing is told.
LEMMA SettledGood ==
  ASSUME NEW x \in Records, NEW in \in Seq(ToClient), NEW out, NEW t \in Tasks,
         Good(x, in, out, t), x.phase \notin {"new", "pick"},
         t.phase \in {"none", "lock", "apply", "reload"},
         NEW rest, NoRequests(rest), NEW ok \in BOOLEAN,
         Awaits(x) => /\ ok /\ x.request.kind = "reload" =>
                            (\A i \in DOMAIN t.jobs : t.jobs[i]) /\ Len(t.jobs) = t.awaited
                      /\ ok /\ x.request.only =>
                            (\A i \in DOMAIN t.jobs : t.jobs[i]) /\ t.jobs # <<>>
                      /\ x.request.kind # "login"
  PROVE  /\ Settled(t) \in Tasks /\ Settled(t).phase \in {"done", "gone"}
         /\ Settled(t).target = NoOne
         /\ Heard(x, in, t, <<Result(ok)>>) \in Seq(ToClient)
         /\ Good(x, Heard(x, in, t, <<Result(ok)>>), rest, Settled(t))
<1> DEFINE said == <<Result(ok)>>
<1>1. said \in Seq(ToClient) /\ said # <<>> /\ said[Len(said)] = Result(ok)
  BY DEF Result, ToClient
<1>2. CASE t.closed
  <2>1. x.phase = "done" /\ Settled(t) = Gone
    BY <1>2 DEF Good, Working, Settled
  <2> QED BY <1>1, <2>1, GoneGood, HeardTyped, InitialTask
<1>3. CASE ~t.closed
  <2> DEFINE u == [t EXCEPT !.phase = "done", !.previous = Initial, !.wrote = FALSE,
                            !.target = NoOne]
  <2>1. Settled(t) = u
    BY <1>3 DEF Settled
  <2>2. /\ u \in Tasks /\ u.phase = "done" /\ u.flow = t.flow /\ u.closed = t.closed
        /\ u.jobs = t.jobs /\ u.awaited = t.awaited /\ u.target = NoOne
    BY InitialTask DEF Tasks
  <2>3. u.flow = "off"
    BY <2>2 DEF Good, Working
  <2> HIDE DEF u, said
  <2>4. Good(x, Heard(x, in, t, said), rest, u)
    BY <1>1, <2>2, <2>3, FinishedGood
  <2> QED BY <1>1, <2>1, <2>2, <2>4, HeardTyped DEF said
<1> QED BY <1>2, <1>3 DEF Tasks

\* A step of the daemon that moves one command's streams and task.
LEMMA ExchangeKeeps ==
  ASSUME TypedExchange, Exchanges, NEW c \in Commands,
         NEW in \in Seq(ToClient), NEW out \in Seq(ToDaemon), NEW u \in Tasks,
         cli' = cli, inbox' = [inbox EXCEPT ![c] = in], outbox' = [outbox EXCEPT ![c] = out],
         task' = [task EXCEPT ![c] = u], Good(cli[c], in, out, u)
  PROVE  TypedExchange' /\ Exchanges'
<1>1. TypedExchange'
  BY DEF TypedExchange
<1>2. Exchanges'
  <2> SUFFICES ASSUME NEW d \in Commands
               PROVE  Good(cli'[d], inbox'[d], outbox'[d], task'[d])
    BY DEF Exchanges
  <2>1. CASE d = c
    BY <2>1 DEF TypedExchange
  <2>2. CASE d # c
    BY <2>2 DEF TypedExchange, Exchanges
  <2> QED BY <2>1, <2>2
<1> QED BY <1>1, <1>2

\* A task changes and the queues do not.
LEMMA WorksKeep ==
  ASSUME IInv, NEW c \in Commands, NEW u \in Tasks, task' = [task EXCEPT ![c] = u],
         UNCHANGED terminals, Entrusted(u, Queued(c)),
         u.target \in Conns => conn[u.target].phase # "new"
  PROVE  Works' /\ OneEach' /\ TargetsKnown'
<1>1. \A d \in Commands : Queued(d)' = Queued(d)
  BY DEF Queued, terminals
<1>2. task'[c] = u /\ \A d \in Commands : d # c => task'[d] = task[d]
  BY DEF IInv, TypedExchange
<1>3. Works'
  BY <1>1, <1>2 DEF IInv, Works
<1>4. OneEach' /\ TargetsKnown'
  BY <1>2 DEF IInv, OneEach, TargetsKnown, terminals
<1> QED BY <1>3, <1>4

\* Nothing about the terminals' connections changes.
LEMMA TerminalsKeep ==
  ASSUME IInv, UNCHANGED terminals
  PROVE  TypedTerminals' /\ Registered' /\ Asking'
BY DEF IInv, TypedTerminals, Registered, RegistryCurrent, Opened, Asking, terminals

\* A step of a task that neither takes nor gives back the lock.
LEMMA LockKeeps ==
  ASSUME IInv, NEW c \in Commands, NEW u, task' = [task EXCEPT ![c] = u], UNCHANGED config,
         \/ task[c].phase # "apply" /\ u.phase # "apply"
         \/ /\ u.phase = task[c].phase /\ u.request = task[c].request
            /\ u.previous = task[c].previous /\ u.wrote = task[c].wrote
  PROVE  TypedConfig' /\ Locked'
<1>1. task'[c] = u /\ \A d \in Commands : d # c => task'[d] = task[d]
  BY DEF IInv, TypedExchange
<1>2. /\ lock' = lock /\ file' = file /\ expected' = expected /\ excused' = excused
      /\ unsettled' = unsettled
  BY DEF config
<1>3. FileIsLastSet'
  BY <1>2 DEF IInv, Locked, FileIsLastSet
<1>4. \A d \in Commands : task'[d].phase = "apply" => (lock' = d <=> ~task'[d].request.only)
  BY <1>1, <1>2 DEF IInv, Locked
<1>5. lock \in Commands => /\ task'[lock].phase = "apply"
                           /\ task'[lock].request = task[lock].request
                           /\ task'[lock].previous = task[lock].previous
                           /\ task'[lock].wrote = task[lock].wrote
  BY <1>1 DEF IInv, Locked
<1> QED BY <1>2, <1>3, <1>4, <1>5 DEF IInv, Locked, TypedConfig

(* A step that moves only a command's exchange and its task. *)
LEMMA TaskKeeps ==
  ASSUME IInv, NEW c \in Commands,
         NEW in \in Seq(ToClient), NEW out \in Seq(ToDaemon), NEW u \in Tasks,
         cli' = cli, inbox' = [inbox EXCEPT ![c] = in], outbox' = [outbox EXCEPT ![c] = out],
         task' = [task EXCEPT ![c] = u], Good(cli[c], in, out, u),
         UNCHANGED <<terminals, config>>, TypedRest',
         Entrusted(u, Queued(c)), u.target \in Conns => conn[u.target].phase # "new",
         \/ task[c].phase # "apply" /\ u.phase # "apply"
         \/ /\ u.phase = task[c].phase /\ u.request = task[c].request
            /\ u.previous = task[c].previous /\ u.wrote = task[c].wrote
  PROVE  IInv'
<1>1. TypedExchange' /\ Exchanges'
  BY ExchangeKeeps DEF IInv
<1>2. Works' /\ OneEach' /\ TargetsKnown'
  BY WorksKeep
<1>3. TypedTerminals' /\ Registered' /\ Asking'
  BY TerminalsKeep
<1>4. TypedConfig' /\ Locked'
  BY LockKeeps
<1> QED BY <1>1, <1>2, <1>3, <1>4 DEF IInv

\* Replied in the terms of Heard.
LEMMA RepliedIsHeard ==
  ASSUME IInv, NEW c \in Commands, NEW said, Replied(c, said)
  PROVE  inbox' = [inbox EXCEPT ![c] = Heard(cli[c], inbox[c], task[c], said)]
BY DEF IInv, TypedExchange, Replied, Heard

\* Answered in the terms of Heard and Settled.
LEMMA AnsweredIsSettled ==
  ASSUME IInv, NEW c \in Commands, NEW ok, Answered(c, ok)
  PROVE  /\ task' = [task EXCEPT ![c] = Settled(task[c])]
         /\ inbox' = [inbox EXCEPT ![c] = Heard(cli[c], inbox[c], task[c], <<Result(ok)>>)]
BY RepliedIsHeard DEF Answered, Done, Settled

\* Received takes the first message off the stream.
LEMMA ReceivedIsTail ==
  ASSUME IInv, NEW c \in Commands, Received(c)
  PROVE  outbox' = [outbox EXCEPT ![c] = Tail(outbox[c])] /\ cli' = cli
BY DEF Received

\* What the invariant says of one command.
LEMMA CommandTyped ==
  ASSUME IInv, NEW c \in Commands
  PROVE  /\ cli[c] \in Records /\ inbox[c] \in Seq(ToClient) /\ outbox[c] \in Seq(ToDaemon)
         /\ task[c] \in Tasks
         /\ Good(cli[c], inbox[c], outbox[c], task[c])
         /\ inbox = [inbox EXCEPT ![c] = inbox[c]]
         /\ outbox = [outbox EXCEPT ![c] = outbox[c]]
         /\ task = [task EXCEPT ![c] = task[c]]
         /\ Entrusted(task[c], Queued(c))
         /\ task[c].target \in Conns => conn[task[c].target].phase # "new"
BY DEF IInv, TypedExchange, Exchanges, Works, TargetsKnown

(* What OnImmediate, OnLogin, OnSet and OnReload leave of a task that was idle. *)
Reply(acked, ok) == IF acked THEN <<Ack, Result(ok)>> ELSE <<Result(ok)>>
DoneTask(t) == [t EXCEPT !.phase = "done"]

LEMMA FailedAtOnce ==
  ASSUME NEW x \in Records, NEW in \in Seq(ToClient), NEW out \in Seq(ToDaemon), NEW t,
         Good(x, in, out, t), out # <<>>, Head(out).kind \in Kinds,
         NEW ok \in BOOLEAN, NEW acked \in BOOLEAN,
         ok => Head(out).kind \notin {"reload", "login"} /\ ~Head(out).only,
         NEW said, said = Reply(acked, ok)
  PROVE  /\ DoneTask(t) \in Tasks /\ DoneTask(t).phase = "done" /\ DoneTask(t).target = NoOne
         /\ Heard(x, in, t, said) \in Seq(ToClient)
         /\ Good(x, Heard(x, in, t, said), Tail(out), DoneTask(t))
<1> DEFINE u == DoneTask(t)
<1>1. /\ NoRequests(Tail(out)) /\ t = Idle /\ x.phase \notin {"new", "pick"}
      /\ Awaits(x) => x.request = Head(out)
  BY Arrival
<1>2. /\ u \in Tasks /\ u.phase = "done" /\ u.flow = "off" /\ u.closed = t.closed
      /\ u.saved = FALSE /\ u.target = NoOne
  BY <1>1, InitialTask DEF Tasks, DoneTask
<1>3. said \in Seq(ToClient) /\ said # <<>> /\ said[Len(said)] = Result(ok)
  <2>1. Ack \in ToClient /\ Result(ok) \in ToClient
    BY DEF Result, Ack, ToClient
  <2>2. CASE acked
    BY <2>1, <2>2 DEF Reply
  <2>3. CASE ~acked
    BY <2>1, <2>3 DEF Reply
  <2> QED BY <2>2, <2>3
<1> HIDE DEF u
<1>4. Good(x, Heard(x, in, t, said), Tail(out), u)
  <2>1. Awaits(x) => /\ (ok /\ x.request.kind = "reload") =>
                           (\A i \in DOMAIN u.jobs : u.jobs[i]) /\ Len(u.jobs) = u.awaited
                     /\ (ok /\ x.request.only) =>
                           (\A i \in DOMAIN u.jobs : u.jobs[i]) /\ u.jobs # <<>>
                     /\ x.request.kind = "login" => ok = u.saved
    BY <1>1, <1>2
  <2> QED BY <1>1, <1>2, <1>3, <2>1, FinishedGood
<1> QED BY <1>2, <1>3, <1>4, HeardTyped DEF u

\* status, show and logout, answered as they arrive.
LEMMA OnImmediateStep ==
  ASSUME IInv, NEW c \in Commands, OnImmediate(c) PROVE IInv'
<1> DEFINE x == cli[c]  in == inbox[c]  out == outbox[c]  t == task[c]
<1>1. /\ x \in Records /\ in \in Seq(ToClient) /\ out \in Seq(ToDaemon) /\ t \in Tasks
      /\ Good(x, in, out, t) /\ Entrusted(t, Queued(c))
  BY CommandTyped
<1>2. out # <<>> /\ Head(out).kind \in {"status", "show", "logout"}
  BY DEF OnImmediate, Arrived
<1>3. /\ Head(out).kind \in Kinds /\ Head(out) \in Requests /\ t = Idle
      /\ Tail(out) \in Seq(ToDaemon) /\ ~Head(out).only
  BY <1>1, <1>2, Arrival, RequestFields DEF Kinds
<1>4. PICK ok \in {TRUE, Head(out).kind = "status"} :
        /\ Replied(c, IF Head(out).kind = "status" THEN <<Result(ok)>> ELSE <<Ack, Result(ok)>>)
        /\ task' = [task EXCEPT ![c].phase = "done"]
        /\ stored' = (stored /\ ~(ok /\ Head(out).kind = "logout"))
  BY DEF OnImmediate
<1> DEFINE said == Reply(Head(out).kind # "status", ok)
<1>5. Replied(c, said)
  BY <1>4 DEF Reply
<1>6. ok \in BOOLEAN /\ (Head(out).kind # "status") \in BOOLEAN
  OBVIOUS
<1>7. /\ DoneTask(t) \in Tasks /\ DoneTask(t).phase = "done" /\ DoneTask(t).target = NoOne
      /\ Heard(x, in, t, said) \in Seq(ToClient)
      /\ Good(x, Heard(x, in, t, said), Tail(out), DoneTask(t))
  <2> HIDE DEF x, in, out, t
  <2> QED BY <1>1, <1>2, <1>3, <1>6, FailedAtOnce
<1>8. Entrusted(DoneTask(t), Queued(c))
  BY <1>7 DEF Entrusted
<1>9. /\ inbox' = [inbox EXCEPT ![c] = Heard(x, in, t, said)]
      /\ outbox' = [outbox EXCEPT ![c] = Tail(out)] /\ cli' = cli
  BY <1>5, RepliedIsHeard, ReceivedIsTail DEF OnImmediate
<1>10. task' = [task EXCEPT ![c] = DoneTask(t)]
  BY <1>4 DEF DoneTask
<1>11. TypedRest' /\ UNCHANGED <<terminals, config>>
  BY <1>4 DEF OnImmediate, IInv, TypedRest
<1>12. task[c].phase # "apply" /\ NoOne \notin Conns
  BY <1>3, InitialTask, ControlAssumption
<1> HIDE DEF said, x, in, out, t
<1> QED BY <1>1, <1>3, <1>7, <1>8, <1>9, <1>10, <1>11, <1>12, TaskKeeps DEF x, in, out, t

\* A login is refused, or its flow begins.
LEMMA OnLoginStep ==
  ASSUME IInv, NEW c \in Commands, OnLogin(c) PROVE IInv'
<1> DEFINE x == cli[c]  in == inbox[c]  out == outbox[c]  t == task[c]
<1>1. /\ x \in Records /\ in \in Seq(ToClient) /\ out \in Seq(ToDaemon) /\ t \in Tasks
      /\ Good(x, in, out, t) /\ Entrusted(t, Queued(c))
  BY CommandTyped
<1>2. out # <<>> /\ Head(out).kind = "login" /\ "login" \in Kinds
  BY DEF OnLogin, Arrived, Kinds
<1>3. /\ Head(out) \in Requests /\ t = Idle /\ NoRequests(Tail(out))
      /\ Tail(out) \in Seq(ToDaemon) /\ x.phase \notin {"new", "pick"}
      /\ Awaits(x) => x.request.kind = "login"
  BY <1>1, <1>2, Arrival
<1>4. /\ outbox' = [outbox EXCEPT ![c] = Tail(out)] /\ cli' = cli
      /\ TypedRest' /\ UNCHANGED <<terminals, config>>
  BY ReceivedIsTail DEF OnLogin, IInv, TypedRest
<1>5. t.phase # "apply" /\ t.phase = "none" /\ NoOne \notin Conns
  BY <1>3, InitialTask, ControlAssumption
<1>6. CASE task' = [task EXCEPT ![c].phase = "done"] /\ Replied(c, <<Ack, Result(FALSE)>>)
  <2> DEFINE said == Reply(TRUE, FALSE)
  <2>1. /\ DoneTask(t) \in Tasks /\ DoneTask(t).phase = "done" /\ DoneTask(t).target = NoOne
        /\ Heard(x, in, t, said) \in Seq(ToClient)
        /\ Good(x, Heard(x, in, t, said), Tail(out), DoneTask(t))
    <3> HIDE DEF x, in, out, t
    <3> QED BY <1>1, <1>2, FailedAtOnce
  <2>2. Entrusted(DoneTask(t), Queued(c))
    BY <2>1 DEF Entrusted
  <2>3. /\ inbox' = [inbox EXCEPT ![c] = Heard(x, in, t, said)]
        /\ task' = [task EXCEPT ![c] = DoneTask(t)]
    BY <1>6, RepliedIsHeard DEF DoneTask, Reply
  <2> HIDE DEF said, x, in, out, t
  <2> QED BY <1>1, <1>3, <1>4, <1>5, <2>1, <2>2, <2>3, TaskKeeps DEF x, in, out, t
<1>7. CASE /\ task' = [task EXCEPT ![c].phase = "login", ![c].flow = "running"]
           /\ Replied(c, <<Ack>>)
  <2> DEFINE u == [t EXCEPT !.phase = "login", !.flow = "running"]
             heard == Heard(x, in, t, <<Ack>>)
  <2>1. /\ u \in Tasks /\ u.phase = "login" /\ u.flow = "running" /\ u.closed = FALSE
        /\ u.target = NoOne /\ task' = [task EXCEPT ![c] = u]
    <3>1. t \in Tasks /\ t.closed = FALSE /\ t.target = NoOne
      BY <1>3, InitialTask DEF Tasks
    <3>2. task' = [task EXCEPT ![c] = u]
      BY <1>7
    <3> HIDE DEF t
    <3>3. /\ u \in Tasks /\ u.phase = "login" /\ u.flow = "running" /\ u.closed = FALSE
          /\ u.target = NoOne
      BY <3>1 DEF Tasks
    <3> QED BY <3>2, <3>3
  <2>2. heard \in Seq(ToClient) /\ inbox' = [inbox EXCEPT ![c] = heard]
    <3>1. <<Ack>> \in Seq(ToClient)
      BY DEF Ack, ToClient
    <3> QED BY <1>1, <1>7, <3>1, RepliedIsHeard, HeardTyped
  <2> HIDE DEF u, heard
  <2>3. RowShown(x) /\ Fresh(x, heard, Tail(out), u) /\ Requested(x, Tail(out), u)
    BY <1>3, <2>1 DEF RowShown, Fresh, Requested, NoRequests
  <2>4. Working(x, u) /\ Asked(x, heard, Tail(out), u) /\ Told(x, heard, u)
    BY <1>1, <1>3, <2>1 DEF Working, Asked, Told, Good
  <2>5. Entrusted(u, Queued(c))
    BY <1>1, <1>5, <2>1 DEF Entrusted
  <2> QED BY <1>1, <1>3, <1>4, <1>5, <2>1, <2>2, <2>3, <2>4, <2>5, TaskKeeps DEF Good
<1> QED BY <1>6, <1>7 DEF OnLogin

\* An answer to a question of a login, or to one that no longer waits.
LEMMA OnAnswerStep ==
  ASSUME IInv, NEW c \in Commands, OnAnswer(c) PROVE IInv'
<1> DEFINE x == cli[c]  in == inbox[c]  out == outbox[c]  t == task[c]
           asked == t.flow = "prompt" /\ Head(out).id = t.prompts
<1>1. /\ x \in Records /\ in \in Seq(ToClient) /\ out \in Seq(ToDaemon) /\ t \in Tasks
      /\ Good(x, in, out, t) /\ Entrusted(t, Queued(c))
      /\ t.target \in Conns => conn[t.target].phase # "new"
      /\ inbox = [inbox EXCEPT ![c] = in] /\ task = [task EXCEPT ![c] = t]
  BY CommandTyped
<1>2. out # <<>> /\ Head(out).kind = "answer" /\ Head(out) = out[1]
  BY DEF OnAnswer, Arrived
<1>3. Tail(out) \in Seq(ToDaemon) /\ NoRequests(Tail(out)) /\ x.phase \notin {"new", "pick"}
  BY <1>1, <1>2, Arrival
<1>4. /\ outbox' = [outbox EXCEPT ![c] = Tail(out)] /\ cli' = cli
      /\ inbox' = [inbox EXCEPT ![c] = in]
      /\ TypedRest' /\ UNCHANGED <<terminals, config>>
  BY <1>1, ReceivedIsTail DEF OnAnswer, IInv, TypedRest
<1>5. PICK u \in Tasks : /\ task' = [task EXCEPT ![c] = u]
                         /\ \/ asked /\ \E flow \in {"running", "cancelled"} :
                                          u = [t EXCEPT !.flow = flow]
                            \/ ~asked /\ u = t
  <2>1. CASE asked
    <3>1. PICK flow \in {"running", "cancelled"} : task' = [task EXCEPT ![c].flow = flow]
      BY <2>1 DEF OnAnswer, AfterNull
    <3>2. [t EXCEPT !.flow = flow] \in Tasks
      BY <1>1 DEF Tasks
    <3> QED BY <2>1, <3>1, <3>2
  <2>2. CASE ~asked
    BY <1>1, <2>2 DEF OnAnswer
  <2> QED BY <2>1, <2>2
<1>6. /\ u.phase = t.phase /\ u.request = t.request /\ u.previous = t.previous
      /\ u.wrote = t.wrote /\ u.jobs = t.jobs /\ u.closed = t.closed /\ u.target = t.target
      /\ u.awaited = t.awaited /\ u.saved = t.saved /\ u.aborted = t.aborted
      /\ u.prompts = t.prompts
      /\ \/ asked /\ u.flow \in {"running", "cancelled"}
         \/ ~asked /\ u = t
  BY <1>1, <1>5 DEF Tasks
<1>7. RowShown(x) /\ Fresh(x, in, Tail(out), u) /\ Requested(x, Tail(out), u)
  BY <1>1, <1>3, <1>5, <1>6, InitialTask DEF Good, RowShown, Fresh, Requested, NoRequests
<1>8. Working(x, u) /\ Told(x, in, u)
  BY <1>1, <1>6 DEF Good, Working, Told
<1>9. Asked(x, in, Tail(out), u)
  <2>1. \A i \in DOMAIN out : out[i] = Head(out)
                               \/ \E j \in DOMAIN Tail(out) : Tail(out)[j] = out[i]
    <3>1. \A i \in DOMAIN out : i # 1 => /\ i - 1 \in DOMAIN Tail(out)
                                         /\ Tail(out)[i - 1] = out[i]
      <4> HIDE DEF out
      <4> QED BY <1>1, <1>2, Consumed
    <3> QED BY <1>2, <3>1
  <2> QED BY <1>1, <1>6, <2>1 DEF Good, Asked
<1>10. Entrusted(u, Queued(c))
  BY <1>1, <1>6 DEF Entrusted
<1> QED BY <1>1, <1>3, <1>4, <1>5, <1>6, <1>7, <1>8, <1>9, <1>10, TaskKeeps DEF Good

\* The provider's flow asks; after an abort it has its null at once.
LEMMA PromptStep ==
  ASSUME IInv, NEW c \in Commands, Prompt(c) PROVE IInv'
<1>0. PICK flow \in {"running", "prompt", "cancelled"} :
        /\ task' = [task EXCEPT ![c].flow = flow, ![c].prompts = @ + 1]
        /\ flow = "prompt" <=> ~task[c].aborted
  BY DEF Prompt, AfterNull
<1> DEFINE x == cli[c]  in == inbox[c]  out == outbox[c]  t == task[c]
           question == [kind |-> "prompt", id |-> t.prompts + 1]
           heard == IF t.aborted THEN in ELSE Heard(x, in, t, <<question>>)
           u == [t EXCEPT !.flow = flow, !.prompts = @ + 1]
<1>1. /\ x \in Records /\ in \in Seq(ToClient) /\ out \in Seq(ToDaemon) /\ t \in Tasks
      /\ Good(x, in, out, t) /\ Entrusted(t, Queued(c))
      /\ t.target \in Conns => conn[t.target].phase # "new"
      /\ inbox = [inbox EXCEPT ![c] = in] /\ outbox = [outbox EXCEPT ![c] = out]
  BY CommandTyped
<1>2. /\ cli' = cli /\ outbox' = [outbox EXCEPT ![c] = out]
      /\ TypedRest' /\ UNCHANGED <<terminals, config>>
  BY <1>1 DEF Prompt, IInv, TypedRest
<1>3. t.flow = "running" /\ t.prompts < MaxPrompts /\ t.prompts \in 0..MaxPrompts
  BY <1>1 DEF Prompt, Tasks
<1>4. t.prompts + 1 \in 1..MaxPrompts /\ t.prompts + 1 \in 0..MaxPrompts
  BY <1>3, ControlAssumption
<1>5. /\ u \in Tasks /\ task' = [task EXCEPT ![c] = u]
      /\ u.phase = t.phase /\ u.request = t.request /\ u.previous = t.previous
      /\ u.wrote = t.wrote /\ u.jobs = t.jobs /\ u.closed = t.closed /\ u.target = t.target
      /\ u.awaited = t.awaited /\ u.saved = t.saved /\ u.aborted = t.aborted
      /\ u.prompts = t.prompts + 1
      /\ u.flow = flow
  BY <1>0, <1>1, <1>4 DEF Tasks
<1>6. question \in ToClient
  BY <1>4 DEF ToClient
<1>7. heard \in Seq(ToClient) /\ inbox' = [inbox EXCEPT ![c] = heard]
  <2>1. <<question>> \in Seq(ToClient)
    BY <1>6
  <2> HIDE DEF question, x, in
  <2>2. CASE t.aborted
    BY <1>1, <2>2 DEF Prompt
  <2>3. CASE ~t.aborted
    BY <1>1, <2>1, <2>3, RepliedIsHeard, HeardTyped DEF Prompt, question, x, in
  <2> QED BY <2>2, <2>3
<1>8. t.phase = "login" /\ x.phase \notin {"new", "pick"} /\ NoRequests(out)
  <2>1. t.phase = "login"
    BY <1>1, <1>3 DEF Good, Working
  <2> QED BY <1>1, <2>1, NothingAsked
<1>9. RowShown(x) /\ Fresh(x, heard, out, u) /\ Requested(x, out, u)
  BY <1>1, <1>5, <1>8 DEF Good, RowShown, Fresh, Requested, NoRequests
<1>10. Working(x, u) /\ Told(x, heard, u)
  BY <1>0, <1>1, <1>5, <1>8 DEF Good, Working, Told
<1>11. Asked(x, heard, out, u)
  <2>1. x.phase = "prompt" => x.prompt # 0
    BY <1>1 DEF Good, Asked
  <2>2. CASE t.aborted \/ x.phase = "done"
    BY <1>0, <1>5, <2>1, <2>2 DEF Asked
  <2>3. CASE ~t.aborted /\ x.phase # "done"
    <3>1. ~t.closed
      BY <1>1, <2>3 DEF Good, Working
    <3>2. heard = in \o <<question>>
      BY <2>3, <3>1 DEF Heard
    <3>3. Len(in) + 1 \in DOMAIN heard /\ heard[Len(in) + 1] = question
      BY <1>1, <1>6, <3>2
    <3> QED BY <1>0, <1>5, <2>1, <2>3, <3>3 DEF Asked
  <2> QED BY <2>2, <2>3
<1>12. Entrusted(u, Queued(c))
  BY <1>1, <1>5 DEF Entrusted
<1> HIDE DEF u, heard
<1> QED BY <1>1, <1>2, <1>5, <1>7, <1>9, <1>10, <1>11, <1>12, TaskKeeps DEF Good

\* The signal changes of a task the flow, where a question waits, and the flag.
LEMMA AbortedFacts ==
  ASSUME NEW t \in Tasks, NEW u \in Aborted(t)
  PROVE  /\ u \in Tasks
         /\ u.phase = t.phase /\ u.request = t.request /\ u.previous = t.previous
         /\ u.wrote = t.wrote /\ u.jobs = t.jobs /\ u.closed = t.closed
         /\ u.target = t.target /\ u.awaited = t.awaited /\ u.saved = t.saved
         /\ u.prompts = t.prompts
         /\ u.flow \in IF t.flow = "prompt" THEN AfterNull ELSE {t.flow}
<1>1. PICK flow \in IF t.flow = "prompt" THEN AfterNull ELSE {t.flow} :
        u = [t EXCEPT !.aborted = t.phase = "login", !.flow = flow]
  BY DEF Aborted
<1>2. flow \in {"off", "running", "prompt", "cancelled"} /\ (t.phase = "login") \in BOOLEAN
  BY <1>1 DEF Tasks, AfterNull
<1>3. u = [t EXCEPT !.aborted = (t.phase = "login"), !.flow = flow]
  BY <1>1
<1> DEFINE login == t.phase = "login"
<1>4. u = [t EXCEPT !.aborted = login, !.flow = flow] /\ login \in BOOLEAN
  BY <1>2, <1>3
<1> HIDE DEF login
<1>5. u \in Tasks
  BY <1>2, <1>4 DEF Tasks
<1> QED BY <1>1, <1>4, <1>5 DEF Tasks

\* The login's time is up: a question that waits is cancelled.
LEMMA LoginTimeoutStep ==
  ASSUME IInv, NEW c \in Commands, LoginTimeout(c) PROVE IInv'
<1> DEFINE x == cli[c]  in == inbox[c]  out == outbox[c]  t == task[c]
<1>0. PICK u \in Aborted(t) : task' = [task EXCEPT ![c] = u]
  BY DEF LoginTimeout
<1>1. /\ x \in Records /\ in \in Seq(ToClient) /\ out \in Seq(ToDaemon) /\ t \in Tasks
      /\ Good(x, in, out, t) /\ Entrusted(t, Queued(c))
      /\ t.target \in Conns => conn[t.target].phase # "new"
      /\ inbox = [inbox EXCEPT ![c] = in] /\ outbox = [outbox EXCEPT ![c] = out]
  BY CommandTyped
<1>2. /\ cli' = cli /\ outbox' = [outbox EXCEPT ![c] = out]
      /\ inbox' = [inbox EXCEPT ![c] = in] /\ task' = [task EXCEPT ![c] = u]
      /\ TypedRest' /\ UNCHANGED <<terminals, config>>
  BY <1>0, <1>1 DEF LoginTimeout, IInv, TypedRest, client
<1>3. /\ u \in Tasks
      /\ u.phase = t.phase /\ u.request = t.request /\ u.previous = t.previous
      /\ u.wrote = t.wrote /\ u.jobs = t.jobs /\ u.closed = t.closed /\ u.target = t.target
      /\ u.awaited = t.awaited /\ u.saved = t.saved
      /\ u.flow \in IF t.flow = "prompt" THEN AfterNull ELSE {t.flow}
  BY <1>0, <1>1, AbortedFacts
<1>4. t.phase = "login"
  BY DEF LoginTimeout
<1>5. RowShown(x) /\ Fresh(x, in, out, u) /\ Requested(x, out, u)
  BY <1>1, <1>3, <1>4, InitialTask DEF Good, RowShown, Fresh, Requested
<1>6. Working(x, u) /\ Told(x, in, u) /\ Asked(x, in, out, u)
  BY <1>1, <1>3 DEF Good, Working, Told, Asked, AfterNull
<1>7. Entrusted(u, Queued(c))
  BY <1>1, <1>3 DEF Entrusted
<1> QED BY <1>1, <1>2, <1>3, <1>5, <1>6, <1>7, TaskKeeps DEF Good

\* The flow of a login settles: what is told is what was saved.
LEMMA LoginEndsStep ==
  ASSUME IInv, NEW c \in Commands, LoginEnds(c) PROVE IInv'
<1> DEFINE x == cli[c]  in == inbox[c]  out == outbox[c]  t == task[c]
<1>1. /\ x \in Records /\ in \in Seq(ToClient) /\ out \in Seq(ToDaemon) /\ t \in Tasks
      /\ Good(x, in, out, t) /\ Entrusted(t, Queued(c))
      /\ t.target \in Conns => conn[t.target].phase # "new"
      /\ outbox = [outbox EXCEPT ![c] = out]
  BY CommandTyped
<1>2. t.phase = "login" /\ NoRequests(out) /\ x.phase \notin {"new", "pick"}
  <2>1. t.phase = "login"
    BY <1>1 DEF LoginEnds, Good, Working
  <2> QED BY <1>1, <2>1, NothingAsked
<1>3. PICK end \in {<<FALSE, FALSE>>, <<TRUE, TRUE>>} :
        /\ task' = [task EXCEPT ![c] = IF t.closed THEN Gone ELSE
                          [@ EXCEPT !.phase = "done", !.flow = "off", !.saved = end[1]]]
        /\ stored' = (stored \/ end[1])
        /\ Replied(c, <<Result(end[2])>>)
  BY DEF LoginEnds, SavedOutcomes
<1> DEFINE ok == end[1]
           u == IF t.closed THEN Gone
                ELSE [t EXCEPT !.phase = "done", !.flow = "off", !.saved = ok]
           said == <<Result(ok)>>
           heard == Heard(x, in, t, said)
<1>4. ok \in BOOLEAN /\ end[2] = ok
  <2>1. CASE end = <<FALSE, FALSE>>
    BY <2>1
  <2>2. CASE end = <<TRUE, TRUE>>
    BY <2>2
  <2> QED BY <1>3, <2>1, <2>2
<1>5. said \in Seq(ToClient) /\ said # <<>> /\ said[Len(said)] = Result(ok)
  BY <1>4 DEF Result, ToClient
<1>6. /\ cli' = cli /\ outbox' = [outbox EXCEPT ![c] = out]
      /\ inbox' = [inbox EXCEPT ![c] = heard] /\ task' = [task EXCEPT ![c] = u]
      /\ TypedRest' /\ UNCHANGED <<terminals, config>>
  <2>1. inbox' = [inbox EXCEPT ![c] = heard]
    BY <1>3, <1>4, RepliedIsHeard
  <2>2. task' = [task EXCEPT ![c] = u]
    BY <1>3
  <2>3. TypedRest'
    BY <1>3, <1>4 DEF LoginEnds, IInv, TypedRest
  <2> QED BY <1>1, <2>1, <2>2, <2>3 DEF LoginEnds
<1>7. heard \in Seq(ToClient)
  BY <1>1, <1>5, HeardTyped
<1>8. u \in Tasks /\ u.phase \in {"done", "gone"} /\ (u.target = NoOne \/ u.target = t.target)
  <2>1. CASE t.closed
    BY <2>1, InitialTask
  <2>2. CASE ~t.closed
    BY <1>1, <1>4, <2>2 DEF Tasks
  <2> QED BY <2>1, <2>2
<1>9. Good(x, heard, out, u)
  <2>1. CASE t.closed
    BY <1>1, <1>2, <2>1, GoneGood DEF Good, Working
  <2>2. CASE ~t.closed
    <3>1. u.phase = "done" /\ u.flow = "off" /\ u.closed = t.closed /\ u.saved = ok
      BY <1>1, <2>2 DEF Tasks
    <3>2. Awaits(x) => x.request.kind = "login" /\ ~x.request.only
      BY <1>1, <1>2, RequestFields DEF Good, Working, Records
    <3> HIDE DEF u, ok, said, x, in, out, t
    <3> QED BY <1>1, <1>2, <1>4, <1>5, <3>1, <3>2, FinishedGood
  <2> QED BY <2>1, <2>2
<1>10. Entrusted(u, Queued(c))
  BY <1>8 DEF Entrusted
<1>11. u.target \in Conns => conn[u.target].phase # "new"
  BY <1>1, <1>8, ControlAssumption
<1> HIDE DEF u, heard, x, out, t
<1>12. t.phase # "apply" /\ u.phase # "apply"
  BY <1>2, <1>8
<1> QED BY <1>1, <1>6, <1>7, <1>8, <1>9, <1>10, <1>11, <1>12, TaskKeeps DEF x, t

\* The daemon sees the end of a command's connection.
LEMMA SeesCloseStep ==
  ASSUME IInv, NEW c \in Commands, SeesClose(c) PROVE IInv'
<1> DEFINE x == cli[c]  in == inbox[c]  out == outbox[c]  t == task[c]
<1>0. PICK v \in Aborted(t) :
        task' = [task EXCEPT ![c] = IF t.phase = "done" THEN Gone
                                    ELSE [v EXCEPT !.closed = TRUE]]
  BY DEF SeesClose
<1> DEFINE u == IF t.phase = "done" THEN Gone ELSE [v EXCEPT !.closed = TRUE]
<1>1. /\ x \in Records /\ in \in Seq(ToClient) /\ out \in Seq(ToDaemon) /\ t \in Tasks
      /\ Good(x, in, out, t) /\ Entrusted(t, Queued(c))
      /\ t.target \in Conns => conn[t.target].phase # "new"
      /\ inbox = [inbox EXCEPT ![c] = in] /\ outbox = [outbox EXCEPT ![c] = out]
  BY CommandTyped
<1>2. /\ cli' = cli /\ outbox' = [outbox EXCEPT ![c] = out]
      /\ inbox' = [inbox EXCEPT ![c] = in] /\ task' = [task EXCEPT ![c] = u]
      /\ TypedRest' /\ UNCHANGED <<terminals, config>>
  BY <1>0, <1>1 DEF SeesClose, IInv, TypedRest, client
<1>3. x.phase = "done" /\ t.phase # "none" /\ NoRequests(out)
  BY <1>1, NothingAsked DEF SeesClose
<1>4. CASE t.phase = "done"
  <2>1. u = Gone /\ u \in Tasks /\ u.phase = "gone" /\ u.target = NoOne
    BY <1>4, InitialTask
  <2> HIDE DEF u, x, in, out, t
  <2>2. Good(x, in, out, u) /\ Entrusted(u, Queued(c))
    BY <1>1, <1>3, <2>1, GoneGood DEF Entrusted
  <2>3. t.phase # "apply" /\ u.phase # "apply" /\ u.target \notin Conns
    BY <1>4, <2>1, ControlAssumption
  <2> QED BY <1>1, <1>2, <2>1, <2>2, <2>3, TaskKeeps DEF x, t
<1>5. CASE t.phase # "done"
  <2>1. /\ u \in Tasks
        /\ u.phase = t.phase /\ u.request = t.request /\ u.previous = t.previous
        /\ u.wrote = t.wrote /\ u.jobs = t.jobs /\ u.closed /\ u.target = t.target
        /\ u.awaited = t.awaited /\ u.saved = t.saved
        /\ u.flow \in IF t.flow = "prompt" THEN AfterNull ELSE {t.flow}
    <3>1. u = [v EXCEPT !.closed = TRUE] /\ v \in Tasks
      BY <1>0, <1>1, <1>5, AbortedFacts
    <3>2. /\ u \in Tasks
          /\ u.phase = v.phase /\ u.request = v.request /\ u.previous = v.previous
          /\ u.wrote = v.wrote /\ u.jobs = v.jobs /\ u.closed /\ u.target = v.target
          /\ u.awaited = v.awaited /\ u.saved = v.saved /\ u.flow = v.flow
      BY <3>1 DEF Tasks
    <3>3. /\ v.phase = t.phase /\ v.request = t.request /\ v.previous = t.previous
          /\ v.wrote = t.wrote /\ v.jobs = t.jobs /\ v.target = t.target
          /\ v.awaited = t.awaited /\ v.saved = t.saved
          /\ v.flow \in IF t.flow = "prompt" THEN AfterNull ELSE {t.flow}
      BY <1>0, <1>1, AbortedFacts
    <3> HIDE DEF u, t
    <3> QED BY <3>2, <3>3
  <2> HIDE DEF u
  <2>2. RowShown(x) /\ Fresh(x, in, out, u) /\ Requested(x, out, u)
    BY <1>1, <1>3, <2>1 DEF Good, RowShown, Fresh, Requested
  <2>3. Working(x, u) /\ Told(x, in, u) /\ Asked(x, in, out, u)
    BY <1>1, <1>3, <2>1 DEF Good, Working, Told, Asked, Awaits, AfterNull
  <2>4. Entrusted(u, Queued(c))
    BY <1>1, <2>1 DEF Entrusted
  <2> QED BY <1>1, <1>2, <2>1, <2>2, <2>3, <2>4, TaskKeeps DEF Good
<1> QED BY <1>4, <1>5

\* The lock could not be had.
LEMMA LockBusyStep ==
  ASSUME IInv, NEW c \in Commands, LockBusy(c) PROVE IInv'
<1> DEFINE x == cli[c]  in == inbox[c]  out == outbox[c]  t == task[c]
           u == Settled(t)  heard == Heard(x, in, t, <<Result(FALSE)>>)
<1>1. /\ x \in Records /\ in \in Seq(ToClient) /\ out \in Seq(ToDaemon) /\ t \in Tasks
      /\ Good(x, in, out, t) /\ outbox = [outbox EXCEPT ![c] = out]
  BY CommandTyped
<1>2. /\ cli' = cli /\ outbox' = [outbox EXCEPT ![c] = out]
      /\ inbox' = [inbox EXCEPT ![c] = heard] /\ task' = [task EXCEPT ![c] = u]
      /\ TypedRest' /\ UNCHANGED <<terminals, config>>
  BY <1>1, AnsweredIsSettled DEF LockBusy, IInv, TypedRest
<1>3. t.phase = "lock" /\ NoRequests(out) /\ x.phase \notin {"new", "pick"}
  BY <1>1, NothingAsked DEF LockBusy
<1>4. Awaits(x) => x.request.kind = "set"
  BY <1>1, <1>3 DEF Good, Working
<1> HIDE DEF x, in, out, t
<1>5. /\ u \in Tasks /\ u.phase \in {"done", "gone"} /\ u.target = NoOne
      /\ heard \in Seq(ToClient) /\ Good(x, heard, out, u)
  BY <1>1, <1>3, <1>4, SettledGood
<1> HIDE DEF u, heard
<1>6. Entrusted(u, Queued(c)) /\ u.phase # "apply" /\ t.phase # "apply" /\ u.target \notin Conns
  BY <1>3, <1>5, ControlAssumption DEF Entrusted
<1> QED BY <1>1, <1>2, <1>5, <1>6, TaskKeeps DEF x, t

\* A reload is decided: the first failure, or everyone's success.
LEMMA ReplyReloadStep ==
  ASSUME IInv, NEW c \in Commands, ReplyReload(c) PROVE IInv'
<1> DEFINE x == cli[c]  in == inbox[c]  out == outbox[c]  t == task[c]
           ok == \A i \in DOMAIN t.jobs : t.jobs[i]
           u == Settled(t)  heard == Heard(x, in, t, <<Result(ok)>>)
<1>1. /\ x \in Records /\ in \in Seq(ToClient) /\ out \in Seq(ToDaemon) /\ t \in Tasks
      /\ Good(x, in, out, t) /\ outbox = [outbox EXCEPT ![c] = out]
  BY CommandTyped
<1>2. /\ cli' = cli /\ outbox' = [outbox EXCEPT ![c] = out]
      /\ inbox' = [inbox EXCEPT ![c] = heard] /\ task' = [task EXCEPT ![c] = u]
      /\ TypedRest' /\ UNCHANGED <<terminals, config>>
  <2>1. Answered(c, ok)
    BY DEF ReplyReload
  <2> HIDE DEF ok
  <2> QED BY <1>1, <2>1, AnsweredIsSettled DEF ReplyReload, IInv, TypedRest
<1>3. t.phase = "reload" /\ NoRequests(out) /\ x.phase \notin {"new", "pick"}
  BY <1>1, NothingAsked DEF ReplyReload
<1>4. Awaits(x) => x.request.kind = "reload" /\ ~x.request.only
  BY <1>1, <1>3, RequestFields DEF Good, Working, Records
<1>5. ok \in BOOLEAN /\ (ok => Len(t.jobs) = t.awaited)
  BY DEF ReplyReload, Decided
<1>6. ok => \A i \in DOMAIN t.jobs : t.jobs[i]
  OBVIOUS
<1> HIDE DEF x, in, out, t, ok
<1>7. /\ u \in Tasks /\ u.phase \in {"done", "gone"} /\ u.target = NoOne
      /\ heard \in Seq(ToClient) /\ Good(x, heard, out, u)
  BY <1>1, <1>3, <1>4, <1>5, <1>6, SettledGood
<1> HIDE DEF u, heard
<1>8. Entrusted(u, Queued(c)) /\ u.phase # "apply" /\ t.phase # "apply" /\ u.target \notin Conns
  BY <1>3, <1>7, ControlAssumption DEF Entrusted
<1> QED BY <1>1, <1>2, <1>7, <1>8, TaskKeeps DEF x, t

\* The switch has run: the file stays or is rolled back, the lock is released, and
\* whoever waited is told.
LEMMA SettleStep ==
  ASSUME IInv, NEW c \in Commands, Settle(c) PROVE IInv'
<1> DEFINE x == cli[c]  in == inbox[c]  out == outbox[c]  t == task[c]
           ok == t.jobs[1]
           u == Settled(t)  heard == Heard(x, in, t, <<Result(ok)>>)
<1>1. /\ x \in Records /\ in \in Seq(ToClient) /\ out \in Seq(ToDaemon) /\ t \in Tasks
      /\ Good(x, in, out, t) /\ outbox = [outbox EXCEPT ![c] = out]
      /\ Entrusted(t, Queued(c))
  BY CommandTyped
<1>2. /\ cli' = cli /\ outbox' = [outbox EXCEPT ![c] = out]
      /\ inbox' = [inbox EXCEPT ![c] = heard] /\ task' = [task EXCEPT ![c] = u]
      /\ TypedRest' /\ UNCHANGED terminals
  <2>1. Answered(c, ok)
    BY DEF Settle
  <2> HIDE DEF ok
  <2> QED BY <1>1, <2>1, AnsweredIsSettled DEF Settle, IInv, TypedRest
<1>3. t.phase = "apply" /\ NoRequests(out) /\ x.phase \notin {"new", "pick"}
  BY <1>1, NothingAsked DEF Settle
<1>4. Awaits(x) => x.request.kind = "set"
  BY <1>1, <1>3 DEF Good, Working
<1>5. Len(t.jobs) = 1 /\ ok \in BOOLEAN /\ t.jobs # <<>>
  BY <1>1, <1>3 DEF Entrusted, Settle, Tasks
<1>6. ok => \A i \in DOMAIN t.jobs : t.jobs[i]
  BY <1>1, <1>5 DEF Tasks
<1> HIDE DEF x, in, out, ok
<1>7. /\ u \in Tasks /\ u.phase \in {"done", "gone"} /\ u.target = NoOne
      /\ heard \in Seq(ToClient) /\ Good(x, heard, out, u)
  <2> HIDE DEF t
  <2> QED BY <1>1, <1>3, <1>4, <1>5, <1>6, SettledGood
<1> HIDE DEF u, heard
<1>8. TypedExchange' /\ Exchanges'
  BY <1>1, <1>2, <1>7, ExchangeKeeps DEF IInv, x
<1>9. Entrusted(u, Queued(c)) /\ u.phase # "apply" /\ u.target \notin Conns
  BY <1>7, ControlAssumption DEF Entrusted
<1>10. Works' /\ OneEach' /\ TargetsKnown'
  BY <1>2, <1>7, <1>9, WorksKeep
<1>11. TypedTerminals' /\ Registered' /\ Asking'
  BY <1>2, TerminalsKeep
<1>12. t.previous \in Configs /\ t.request.model \in Models /\ t.request.only \in BOOLEAN
  BY <1>1, <1>3, RequestFields DEF Good, Working, Tasks
<1>13. /\ file' \in {file, RolledBack(c)}
       /\ expected' = IF ok /\ ~t.request.only THEN t.request.model ELSE expected
       /\ unsettled' = IF ok /\ ~t.request.only THEN NoOne ELSE unsettled
       /\ lock' = IF lock = c THEN NoOne ELSE lock
       /\ excused' \in {TRUE, excused}
  BY DEF Settle, ok
<1>14. TypedConfig'
  BY <1>12, <1>13 DEF IInv, TypedConfig, RolledBack
<1>15. task'[c] = u /\ \A d \in Commands : d # c => task'[d] = task[d]
  BY <1>2 DEF IInv, TypedExchange
<1>16. Locked'
  <2>1. CASE t.request.only
    <3>1. lock # c
      BY <1>3, <2>1 DEF IInv, Locked
    <3>2. lock' = lock /\ UNCHANGED <<expected, unsettled>>
         /\ (~excused' => file' = file /\ ~excused)
      BY <1>5, <1>13, <2>1, <3>1 DEF Settle, ok
    <3> QED BY <1>9, <1>15, <3>1, <3>2, ControlAssumption DEF IInv, Locked, FileIsLastSet
  <2>2. CASE ~t.request.only
    <3>1. lock = c /\ lock' = NoOne /\ NoOne \notin Commands
      BY <1>3, <1>13, <2>2, ControlAssumption DEF IInv, Locked
    <3>2. ~excused' => file'.model \in {expected', unsettled'}
      BY <1>5, <1>13, <2>2, <3>1 DEF IInv, Locked, Settle, RolledBack, ok
    <3> QED BY <1>9, <1>15, <3>1, <3>2 DEF IInv, Locked, FileIsLastSet
  <2> QED BY <1>12, <2>1, <2>2
<1> QED BY <1>2, <1>8, <1>10, <1>11, <1>14, <1>16 DEF IInv

-----------------------------------------------------------------------------
(* The queues of the connections. *)

\* What the invariant says of one connection.
LEMMA ConnTyped ==
  ASSUME IInv, NEW k \in Conns
  PROVE  /\ conn[k] \in Connections /\ conn[k].queue \in Seq(Jobs)
         /\ conn[k].phase \in {"new", "open", "closed"}
         /\ conn[k].agent \in Configs \cup {NoOne} /\ conn[k].asking \in BOOLEAN
         /\ conn[k].session \in Sessions \cup {NoOne}
         /\ conn[k].phase = "new" => conn[k] = NewConn
BY DEF IInv, TypedTerminals, Connections, Registered

\* The fields of a queued operation.
LEMMA JobFields ==
  ASSUME NEW job \in Jobs
  PROVE  /\ job.by \in Commands <=> job.type # "ask"
         /\ job.type \in {"ask", "switch", "reload"}
         /\ job.type = "switch" => job.model \in Models
         /\ job.type = "reload" => job.config \in Configs
         /\ job.required \in BOOLEAN
<1>1. CASE job = Job("ask", NoOne, NoOne, FALSE, NoOne)
  BY <1>1, ControlAssumption DEF Job
<1>2. CASE job \in [type : {"switch"}, by : Commands, model : Models, required : BOOLEAN,
                    config : {NoOne}]
  BY <1>2
<1>3. CASE job \in [type : {"reload"}, by : Commands, model : {NoOne}, required : {FALSE},
                    config : Configs]
  BY <1>3
<1> QED BY <1>1, <1>2, <1>3 DEF Jobs

\* Phases and sessions of the connections stay as they are.
LEMMA RegisteredKeeps ==
  ASSUME IInv, registry' = registry,
         \A k \in Conns : /\ conn'[k].phase = conn[k].phase
                          /\ conn'[k].session = conn[k].session
                          /\ conn[k].phase = "new" => conn'[k] = conn[k]
  PROVE  Registered'
<1>1. \A k \in Conns : Opened(k)' <=> Opened(k)
  BY DEF Opened
<1>2. \A s \in Sessions : registry[s] # NoOne => registry[s] \in Conns
  BY DEF IInv, TypedTerminals
<1>3. RegistryCurrent'
  BY <1>1, <1>2 DEF IInv, Registered, RegistryCurrent
<1> QED BY <1>1, <1>2, <1>3 DEF IInv, Registered

\* An operation joins the queues of the connections ks: where there was none for that
\* command, there is now one in each.
LEMMA EnqueueKeeps ==
  ASSUME IInv, NEW ks \in SUBSET Conns, NEW job \in Jobs, conn' = Enqueued(ks, job),
         UNCHANGED registry, \A k \in ks : conn[k].phase # "new",
         job.by \in Commands => Queued(job.by) = {}
  PROVE  /\ TypedTerminals' /\ Registered' /\ Asking' /\ OneEach'
         /\ \A c \in Commands : Queued(c)' = IF c = job.by THEN ks ELSE Queued(c)
         /\ \A k \in Conns : conn'[k].phase = conn[k].phase
<1>1. ASSUME NEW k \in Conns
      PROVE  /\ conn'[k] \in Connections
             /\ conn'[k].phase = conn[k].phase /\ conn'[k].session = conn[k].session
             /\ conn'[k].asking = conn[k].asking
             /\ conn'[k].queue = IF k \in ks THEN Append(conn[k].queue, job) ELSE conn[k].queue
             /\ k \notin ks => conn'[k] = conn[k]
  <2>1. Append(conn[k].queue, job) \in Seq(Jobs)
    BY ConnTyped
  <2>2. conn[k] \in Connections
    BY ConnTyped
  <2> QED BY <2>1, <2>2 DEF Enqueued, Connections
<1>2. TypedTerminals'
  BY <1>1 DEF IInv, TypedTerminals, Enqueued
<1>3. Registered'
  BY <1>1, RegisteredKeeps
<1>4. ASSUME NEW k \in Conns
      PROVE  /\ DOMAIN conn[k].queue = 1..Len(conn[k].queue) /\ Len(conn[k].queue) \in Nat
             /\ k \notin ks => conn'[k].queue = conn[k].queue
             /\ k \in ks =>
                  /\ DOMAIN conn'[k].queue = DOMAIN conn[k].queue \cup {Len(conn[k].queue) + 1}
                  /\ \A i \in DOMAIN conn[k].queue : conn'[k].queue[i] = conn[k].queue[i]
                  /\ conn'[k].queue[Len(conn[k].queue) + 1] = job
                  /\ conn'[k].queue # <<>>
  <2>1. conn[k].queue \in Seq(Jobs)
    BY ConnTyped
  <2>2. CASE k \in ks
    <3>1. conn'[k].queue = Append(conn[k].queue, job)
      BY <1>1, <2>2
    <3> QED BY <2>1, <2>2, <3>1, Appended
  <2>3. CASE k \notin ks
    BY <1>1, <2>1, <2>3
  <2> QED BY <2>2, <2>3
<1>5. Asking'
  <2> SUFFICES ASSUME NEW k \in Conns, conn'[k].asking
               PROVE  conn'[k].queue # <<>> /\ conn'[k].queue[1].type = "ask"
    BY DEF Asking
  <2>1. conn[k].queue # <<>> /\ conn[k].queue[1].type = "ask"
    BY <1>1 DEF IInv, Asking
  <2>2. 1 \in DOMAIN conn[k].queue
    BY <1>4, <2>1, ConnTyped
  <2> QED BY <1>4, <2>1, <2>2
<1>6. ASSUME NEW c \in Commands PROVE Queued(c)' = IF c = job.by THEN ks ELSE Queued(c)
  <2>1. CASE c = job.by
    <3>1. \A k \in Conns : \A i \in DOMAIN conn[k].queue : conn[k].queue[i].by # c
      BY <2>1 DEF Queued
    <3> QED BY <1>4, <2>1, <3>1 DEF Queued
  <2>2. CASE c # job.by
    BY <1>4, <2>2 DEF Queued
  <2> QED BY <2>1, <2>2
<1>7. OneEach'
  <2> SUFFICES ASSUME NEW k \in Conns, NEW i \in DOMAIN conn'[k].queue,
                      NEW j \in DOMAIN conn'[k].queue,
                      conn'[k].queue[i].by \in Commands,
                      conn'[k].queue[j].by = conn'[k].queue[i].by
               PROVE  i = j
    BY DEF OneEach
  <2>1. CASE k \notin ks
    BY <1>4, <2>1 DEF IInv, OneEach
  <2>2. CASE k \in ks
    <3>1. job.by \in Commands => \A m \in DOMAIN conn[k].queue : conn[k].queue[m].by # job.by
      BY DEF Queued
    <3> QED BY <1>4, <2>2, <3>1 DEF IInv, OneEach
  <2> QED BY <2>1, <2>2
<1> QED BY <1>1, <1>2, <1>3, <1>5, <1>6, <1>7

(* A command's work is queued: what its task then is. *)
LEMMA EntrustKeeps ==
  ASSUME IInv, NEW c \in Commands, NEW u \in Tasks, task' = [task EXCEPT ![c] = u],
         NEW ks \in SUBSET Conns, NEW job \in Jobs, job.by = c, conn' = Enqueued(ks, job),
         UNCHANGED registry, \A k \in ks : conn[k].phase # "new",
         Queued(c) = {}, Entrusted(u, ks),
         u.target \in Conns => conn[u.target].phase # "new"
  PROVE  TypedTerminals' /\ Registered' /\ Asking' /\ OneEach' /\ Works' /\ TargetsKnown'
<1>1. /\ TypedTerminals' /\ Registered' /\ Asking' /\ OneEach'
      /\ \A d \in Commands : Queued(d)' = IF d = c THEN ks ELSE Queued(d)
      /\ \A k \in Conns : conn'[k].phase = conn[k].phase
  BY EnqueueKeeps
<1>2. task'[c] = u /\ \A d \in Commands : d # c => task'[d] = task[d]
  BY DEF IInv, TypedExchange
<1>3. Works'
  BY <1>1, <1>2 DEF IInv, Works
<1>4. TargetsKnown'
  BY <1>1, <1>2 DEF IInv, TargetsKnown
<1> QED BY <1>1, <1>3, <1>4

\* A task that is put to work agrees with its command.
LEMMA EntrustedGood ==
  ASSUME NEW x \in Records, NEW in, NEW out, NEW t, Good(x, in, out, t),
         x.phase \notin {"new", "pick"}, NEW heard, NEW rest, NoRequests(rest),
         NEW u, u.phase \in {"lock", "apply", "reload"}, u.flow = "off", Working(x, u)
  PROVE  Good(x, heard, rest, u)
<1>1. RowShown(x) /\ Fresh(x, heard, rest, u) /\ Requested(x, rest, u)
  BY DEF RowShown, Fresh, Requested, NoRequests
<1>2. Asked(x, heard, rest, u) /\ Told(x, heard, u)
  BY DEF Good, Asked, Told
<1> QED BY <1>1, <1>2 DEF Good

\* model set: to the lock, or with --session-only straight to the terminal's queue.
LEMMA OnSetStep ==
  ASSUME IInv, NEW c \in Commands, OnSet(c) PROVE IInv'
<1> DEFINE x == cli[c]  in == inbox[c]  out == outbox[c]  t == task[c]
           request == Head(out)
           target == IF request.session = NoOne THEN NoOne ELSE registry[request.session]
           acked == Heard(x, in, t, <<Ack>>)
<1>1. /\ x \in Records /\ in \in Seq(ToClient) /\ out \in Seq(ToDaemon) /\ t \in Tasks
      /\ Good(x, in, out, t) /\ Entrusted(t, Queued(c))
      /\ inbox = [inbox EXCEPT ![c] = in]
  BY CommandTyped
<1>2. out # <<>> /\ request.kind = "set" /\ "set" \in Kinds
  BY DEF OnSet, Arrived, Kinds
<1>3. /\ request \in Requests /\ t = Idle /\ NoRequests(Tail(out))
      /\ Tail(out) \in Seq(ToDaemon) /\ x.phase \notin {"new", "pick"}
      /\ Awaits(x) => x.request = request
      /\ request.model \in Models
  BY <1>1, <1>2, Arrival
<1>4. /\ outbox' = [outbox EXCEPT ![c] = Tail(out)] /\ cli' = cli
      /\ TypedRest' /\ UNCHANGED <<registry, config>>
  BY ReceivedIsTail DEF OnSet, IInv, TypedRest
<1>5. /\ t.phase # "apply" /\ t.phase = "none" /\ NoOne \notin Conns /\ Queued(c) = {}
      /\ t.jobs = <<>> /\ t.flow = "off" /\ t.closed = FALSE
  BY <1>1, <1>3, InitialTask, ControlAssumption DEF Entrusted
<1>6. target \in Conns \cup {NoOne} /\ (target # NoOne => conn[target].phase = "open")
  BY <1>3, RequestFields DEF IInv, TypedTerminals, Registered, Opened
<1>7. <<Ack>> \in Seq(ToClient) /\ acked \in Seq(ToClient)
  <2>1. <<Ack>> \in Seq(ToClient)
    BY DEF Ack, ToClient
  <2> QED BY <1>1, <2>1, HeardTyped
<1> HIDE DEF target, acked
<1>8. CASE ~request.only
  <2> DEFINE u == [t EXCEPT !.phase = "lock", !.request = request, !.target = target]
  <2>1. task' = [task EXCEPT ![c] = u] /\ inbox' = [inbox EXCEPT ![c] = acked]
        /\ UNCHANGED terminals
    BY <1>8, RepliedIsHeard DEF OnSet, target, acked, terminals
  <2>2. /\ u \in Tasks /\ u.phase = "lock" /\ u.request = request /\ u.target = target
        /\ u.jobs = <<>> /\ u.flow = "off" /\ u.closed = FALSE
    BY <1>1, <1>3, <1>5, <1>6 DEF Tasks
  <2> HIDE DEF u, x, in, out, t
  <2>3. Working(x, u)
    BY <1>2, <1>3, <1>8, <2>2 DEF Working
  <2>4. Good(x, acked, Tail(out), u) /\ Entrusted(u, Queued(c))
    BY <1>1, <1>3, <1>5, <2>2, <2>3, EntrustedGood DEF Entrusted
  <2>5. u.target \in Conns => conn[u.target].phase # "new"
    BY <1>5, <1>6, <2>2
  <2> QED BY <1>1, <1>3, <1>4, <1>5, <1>7, <2>1, <2>2, <2>4, <2>5, TaskKeeps DEF x, t
<1>9. CASE request.only /\ target = NoOne
  <2> DEFINE said == Reply(TRUE, FALSE)
  <2>1. /\ DoneTask(t) \in Tasks /\ DoneTask(t).phase = "done" /\ DoneTask(t).target = NoOne
        /\ Heard(x, in, t, said) \in Seq(ToClient)
        /\ Good(x, Heard(x, in, t, said), Tail(out), DoneTask(t))
    <3> HIDE DEF x, in, out, t
    <3> QED BY <1>1, <1>2, FailedAtOnce
  <2>2. Entrusted(DoneTask(t), Queued(c))
    BY <2>1 DEF Entrusted
  <2>3. /\ inbox' = [inbox EXCEPT ![c] = Heard(x, in, t, said)]
        /\ task' = [task EXCEPT ![c] = DoneTask(t)] /\ UNCHANGED terminals
    BY <1>9, RepliedIsHeard DEF DoneTask, Reply, OnSet, target, terminals
  <2> HIDE DEF said, x, in, out, t
  <2> QED BY <1>1, <1>3, <1>4, <1>5, <2>1, <2>2, <2>3, TaskKeeps DEF x, in, out, t
<1>10. CASE request.only /\ target # NoOne
  <2> DEFINE u == [t EXCEPT !.phase = "apply", !.request = request, !.target = target]
             job == Job("switch", c, request.model, TRUE, NoOne)
  <2>1. /\ task' = [task EXCEPT ![c] = u] /\ inbox' = [inbox EXCEPT ![c] = acked]
        /\ conn' = Enqueued({target}, job)
    BY <1>10, RepliedIsHeard DEF OnSet, target, acked
  <2>2. /\ u \in Tasks /\ u.phase = "apply" /\ u.request = request /\ u.target = target
        /\ u.jobs = <<>> /\ u.flow = "off" /\ u.closed = FALSE
    BY <1>1, <1>3, <1>5, <1>6 DEF Tasks
  <2>3. job \in Jobs /\ job.by = c
    BY <1>3 DEF Jobs, Job
  <2> HIDE DEF u, x, in, out, t, job
  <2>4. Working(x, u)
    BY <1>2, <1>3, <1>10, <2>2 DEF Working
  <2>5. Good(x, acked, Tail(out), u)
    BY <1>1, <1>3, <2>2, <2>4, EntrustedGood
  <2>6. target \in Conns /\ Entrusted(u, {target})
    BY <1>6, <1>10, <2>2 DEF Entrusted
  <2>7. TypedExchange' /\ Exchanges'
    BY <1>1, <1>3, <1>4, <1>7, <2>1, <2>2, <2>5, ExchangeKeeps DEF IInv, x
  <2>8. TypedTerminals' /\ Registered' /\ Asking' /\ OneEach' /\ Works' /\ TargetsKnown'
    BY <1>4, <1>5, <1>6, <2>1, <2>2, <2>3, <2>6, EntrustKeeps
  <2>9. task'[c] = u /\ \A d \in Commands : d # c => task'[d] = task[d]
    BY <2>1 DEF IInv, TypedExchange
  <2>10. lock # c
    BY <1>5 DEF IInv, Locked, t
  <2>11. TypedConfig' /\ Locked'
    BY <1>4, <1>10, <2>2, <2>9, <2>10 DEF IInv, TypedConfig, Locked, FileIsLastSet, config
  <2> QED BY <1>4, <2>7, <2>8, <2>11 DEF IInv
<1> QED BY <1>8, <1>9, <1>10

\* reload: the configuration, read once, joins the queue of every connection it is for,
\* and their number is what the task waits for.
LEMMA OnReloadStep ==
  ASSUME IInv, NEW c \in Commands, OnReload(c) PROVE IInv'
<1> DEFINE x == cli[c]  in == inbox[c]  out == outbox[c]  t == task[c]
           request == Head(out)
           targets == {k \in Conns : \E s \in Sessions :
                         registry[s] = k /\ request.session \in {NoOne, s}}
<1>1. /\ x \in Records /\ in \in Seq(ToClient) /\ out \in Seq(ToDaemon) /\ t \in Tasks
      /\ Good(x, in, out, t) /\ Entrusted(t, Queued(c))
      /\ inbox = [inbox EXCEPT ![c] = in]
  BY CommandTyped
<1>2. out # <<>> /\ request.kind = "reload" /\ "reload" \in Kinds
  BY DEF OnReload, Arrived, Kinds
<1>3. /\ request \in Requests /\ t = Idle /\ NoRequests(Tail(out))
      /\ Tail(out) \in Seq(ToDaemon) /\ x.phase \notin {"new", "pick"}
      /\ Awaits(x) => x.request = request
  BY <1>1, <1>2, Arrival
<1>4. /\ outbox' = [outbox EXCEPT ![c] = Tail(out)] /\ cli' = cli
      /\ TypedRest' /\ UNCHANGED <<registry, config>>
  BY ReceivedIsTail DEF OnReload, IInv, TypedRest
<1>5. /\ t.phase # "apply" /\ t.phase = "none" /\ NoOne \notin Conns /\ Queued(c) = {}
      /\ t.jobs = <<>> /\ t.flow = "off" /\ t.closed = FALSE /\ t.target = NoOne
      /\ t.awaited = 0
  BY <1>1, <1>3, InitialTask, ControlAssumption DEF Entrusted
<1>6. targets \in SUBSET Conns /\ \A k \in targets : conn[k].phase # "new"
  BY <1>5 DEF IInv, Registered, Opened
<1>7. CASE file.model = "invalid" \/ targets = {}
  <2> DEFINE ok == file.model # "invalid"
             u == Settled(t)  heard == Heard(x, in, t, <<Result(ok)>>)
  <2>1. Answered(c, ok) /\ UNCHANGED conn
    BY <1>7 DEF OnReload
  <2>2. ok \in BOOLEAN
    OBVIOUS
  <2> HIDE DEF ok, targets
  <2>3. task' = [task EXCEPT ![c] = u] /\ inbox' = [inbox EXCEPT ![c] = heard]
    BY <2>1, AnsweredIsSettled
  <2>4. Awaits(x) => x.request.kind = "reload" /\ ~x.request.only
    BY <1>2, <1>3, RequestFields
  <2>5. (\A i \in DOMAIN t.jobs : t.jobs[i]) /\ Len(t.jobs) = t.awaited
    BY <1>5
  <2> HIDE DEF x, in, out, t
  <2>6. /\ u \in Tasks /\ u.phase \in {"done", "gone"} /\ u.target = NoOne
        /\ heard \in Seq(ToClient) /\ Good(x, heard, Tail(out), u)
    BY <1>1, <1>3, <1>5, <2>2, <2>4, <2>5, SettledGood
  <2> HIDE DEF u, heard
  <2>7. Entrusted(u, Queued(c)) /\ u.phase # "apply" /\ u.target \notin Conns
    BY <1>5, <2>6 DEF Entrusted
  <2>8. UNCHANGED <<terminals, config>>
    BY <1>4, <2>1 DEF terminals
  <2> QED BY <1>1, <1>3, <1>4, <1>5, <2>3, <2>6, <2>7, <2>8, TaskKeeps DEF x, t
<1>8. CASE ~(file.model = "invalid" \/ targets = {})
  <2> DEFINE u == [t EXCEPT !.phase = "reload", !.awaited = Cardinality(targets)]
             job == Job("reload", c, NoOne, FALSE, file)
  <2>1. /\ task' = [task EXCEPT ![c] = u] /\ inbox' = [inbox EXCEPT ![c] = in]
        /\ conn' = Enqueued(targets, job)
    BY <1>1, <1>8 DEF OnReload
  <2>2. Cardinality(targets) \in Nat
    BY <1>6, FS_Subset, FS_CardinalityType, ControlAssumption
  <2> HIDE DEF targets
  <2>3. /\ u \in Tasks /\ u.phase = "reload" /\ u.awaited = Cardinality(targets)
        /\ u.jobs = <<>> /\ u.flow = "off" /\ u.closed = FALSE /\ u.target = NoOne
    BY <1>1, <1>3, <1>5, <2>2 DEF Tasks
  <2>4. job \in Jobs /\ job.by = c
    BY DEF Jobs, Job, IInv, TypedConfig
  <2> HIDE DEF u, x, in, out, t, job
  <2>5. Working(x, u)
    BY <1>2, <1>3, <2>3 DEF Working
  <2>6. Good(x, in, Tail(out), u)
    BY <1>1, <1>3, <2>3, <2>5, EntrustedGood
  <2>7. Entrusted(u, targets)
    BY <2>2, <2>3 DEF Entrusted
  <2>8. TypedExchange' /\ Exchanges'
    BY <1>1, <1>3, <1>4, <2>1, <2>3, <2>6, ExchangeKeeps DEF IInv, x
  <2>9. TypedTerminals' /\ Registered' /\ Asking' /\ OneEach' /\ Works' /\ TargetsKnown'
    BY <1>4, <1>5, <1>6, <2>1, <2>3, <2>4, <2>7, EntrustKeeps
  <2>10. TypedConfig' /\ Locked'
    BY <1>4, <1>5, <2>1, <2>3, LockKeeps DEF t
  <2> QED BY <1>4, <2>8, <2>9, <2>10 DEF IInv
<1> QED BY <1>7, <1>8

\* Under the lock the file is patched; with a terminal to switch the lock is kept until
\* the switch has run.
LEMMA UpdateStep ==
  ASSUME IInv, NEW c \in Commands, Update(c) PROVE IInv'
<1> DEFINE x == cli[c]  in == inbox[c]  out == outbox[c]  t == task[c]
           new == [file EXCEPT !.model = t.request.model]
<1>1. /\ x \in Records /\ in \in Seq(ToClient) /\ out \in Seq(ToDaemon) /\ t \in Tasks
      /\ Good(x, in, out, t) /\ Entrusted(t, Queued(c))
      /\ t.target \in Conns => conn[t.target].phase # "new"
      /\ inbox = [inbox EXCEPT ![c] = in] /\ outbox = [outbox EXCEPT ![c] = out]
  BY CommandTyped
<1>2. t.phase = "lock" /\ NoRequests(out) /\ x.phase \notin {"new", "pick"}
  BY <1>1, NothingAsked DEF Update
<1>3. /\ t.request.kind = "set" /\ t.request.model \in Models /\ t.request.only = FALSE
      /\ Awaits(x) => x.request = t.request
      /\ t.jobs = <<>> /\ t.flow = "off" /\ Queued(c) = {} /\ t.target \in Conns \cup {NoOne}
  BY <1>1, <1>2, RequestFields DEF Good, Working, Entrusted, Tasks
<1>4. /\ outbox' = [outbox EXCEPT ![c] = out] /\ cli' = cli
      /\ TypedRest' /\ UNCHANGED registry
  BY <1>1 DEF Update, IInv, TypedRest
<1>5. lock \notin Commands /\ LockFree
  BY ControlAssumption DEF Update, LockFree
<1>6. new \in Configs /\ new.model = t.request.model
  BY <1>3 DEF IInv, TypedConfig, Configs
<1> HIDE DEF new, x, in, out, t
<1>7. ASSUME NEW ok \in BOOLEAN, Answered(c, ok), UNCHANGED conn, lock' = NoOne,
             TypedConfig', FileIsLastSet'
      PROVE  IInv'
  <2> DEFINE u == Settled(t)  heard == Heard(x, in, t, <<Result(ok)>>)
  <2>1. task' = [task EXCEPT ![c] = u] /\ inbox' = [inbox EXCEPT ![c] = heard]
    BY <1>7, AnsweredIsSettled DEF x, in, t
  <2>2. /\ u \in Tasks /\ u.phase \in {"done", "gone"} /\ u.target = NoOne
        /\ heard \in Seq(ToClient) /\ Good(x, heard, out, u)
    BY <1>1, <1>2, <1>3, <1>7, SettledGood
  <2> HIDE DEF u, heard
  <2>3. Entrusted(u, Queued(c)) /\ u.phase # "apply" /\ u.target \notin Conns
    BY <2>2, ControlAssumption DEF Entrusted
  <2>4. UNCHANGED terminals
    BY <1>4, <1>7 DEF terminals
  <2>5. TypedExchange' /\ Exchanges'
    BY <1>1, <1>4, <2>1, <2>2, ExchangeKeeps DEF IInv, x
  <2>6. Works' /\ OneEach' /\ TargetsKnown'
    BY <2>1, <2>2, <2>3, <2>4, WorksKeep
  <2>7. TypedTerminals' /\ Registered' /\ Asking'
    BY <2>4, TerminalsKeep
  <2>8. task'[c] = u /\ \A d \in Commands : d # c => task'[d] = task[d]
    BY <2>1 DEF IInv, TypedExchange
  <2>9. Locked'
    BY <1>5, <1>7, <2>3, <2>8, ControlAssumption DEF IInv, Locked
  <2> QED BY <1>4, <1>7, <2>5, <2>6, <2>7, <2>9 DEF IInv
<1>8. CASE /\ Answered(c, FALSE) /\ lock' = NoOne
           /\ UNCHANGED <<file, excused>> \/ (file' = new /\ excused' = TRUE)
           /\ UNCHANGED <<conn, expected, unsettled>>
  <2>1. TypedConfig' /\ FileIsLastSet'
    <3>1. ~excused => file.model \in {expected, unsettled}
      BY <1>5 DEF IInv, Locked, FileIsLastSet
    <3>2. CASE UNCHANGED <<file, excused>>
      BY <1>8, <3>1, <3>2 DEF IInv, TypedConfig, FileIsLastSet
    <3>3. CASE file' = new /\ excused' = TRUE
      BY <1>6, <1>8, <3>3 DEF IInv, TypedConfig, FileIsLastSet
    <3> QED BY <1>8, <3>2, <3>3
  <2> QED BY <1>7, <1>8, <2>1
<1>9. CASE /\ file' = new /\ t.target = NoOne /\ Answered(c, TRUE) /\ lock' = NoOne
           /\ expected' = new.model /\ unsettled' = NoOne /\ UNCHANGED <<conn, excused>>
  <2>1. TypedConfig' /\ FileIsLastSet'
    BY <1>3, <1>6, <1>9 DEF IInv, TypedConfig, FileIsLastSet
  <2> QED BY <1>7, <1>9, <2>1
<1>10. CASE /\ file' = new /\ t.target # NoOne
            /\ task' = [task EXCEPT ![c].phase = "apply", ![c].previous = file,
                                    ![c].wrote = file # new]
            /\ conn' = Enqueued({t.target},
                           Job("switch", c, t.request.model, FALSE, NoOne))
            /\ lock' = c /\ UNCHANGED <<inbox, expected, unsettled, excused>>
  <2> DEFINE u == [t EXCEPT !.phase = "apply", !.previous = file, !.wrote = file # new]
             job == Job("switch", c, t.request.model, FALSE, NoOne)
  <2>1. /\ task' = [task EXCEPT ![c] = u] /\ inbox' = [inbox EXCEPT ![c] = in]
        /\ conn' = Enqueued({t.target}, job)
    BY <1>1, <1>10 DEF t
  <2>2. file \in Configs /\ (file # new) \in BOOLEAN
    BY DEF IInv, TypedConfig
  <2>3. /\ u \in Tasks /\ u.phase = "apply" /\ u.request = t.request /\ u.target = t.target
        /\ u.jobs = <<>> /\ u.flow = "off" /\ u.closed = t.closed
        /\ u.previous = file /\ u.wrote = (file # new)
    BY <1>1, <1>3, <2>2 DEF Tasks
  <2>4. job \in Jobs /\ job.by = c
    BY <1>3 DEF Jobs, Job
  <2> HIDE DEF u, job
  <2>5. Working(x, u)
    BY <1>1, <1>3, <2>3 DEF Working, Good
  <2>6. Good(x, in, out, u)
    BY <1>1, <1>2, <2>3, <2>5, EntrustedGood
  <2>7. t.target \in Conns /\ Entrusted(u, {t.target}) /\ conn[t.target].phase # "new"
    BY <1>1, <1>3, <1>10, <2>3 DEF Entrusted
  <2>8. TypedExchange' /\ Exchanges'
    BY <1>1, <1>4, <2>1, <2>3, <2>6, ExchangeKeeps DEF IInv, x
  <2>9. TypedTerminals' /\ Registered' /\ Asking' /\ OneEach' /\ Works' /\ TargetsKnown'
    BY <1>3, <1>4, <2>1, <2>3, <2>4, <2>7, EntrustKeeps
  <2>10. task'[c] = u /\ \A d \in Commands : d # c => task'[d] = task[d]
    BY <2>1 DEF IInv, TypedExchange
  <2>11. TypedConfig'
    BY <1>6, <1>10 DEF IInv, TypedConfig
  <2>12. Locked'
    <3>1. \A d \in Commands : task'[d].phase = "apply" => (lock' = d <=> ~task'[d].request.only)
      <4>1. lock' = c /\ task'[c].request.only = FALSE
        BY <1>3, <1>10, <2>3, <2>10
      <4>2. \A d \in Commands : d # c /\ task[d].phase = "apply" => task[d].request.only
        BY <1>5 DEF IInv, Locked
      <4> QED BY <2>10, <4>1, <4>2
    <3>2. ~excused => file.model \in {expected, unsettled}
      BY <1>5 DEF IInv, Locked, FileIsLastSet
    <3> QED BY <1>6, <1>10, <2>3, <2>10, <3>1, <3>2 DEF Locked, FileIsLastSet
  <2> QED BY <1>4, <2>8, <2>9, <2>11, <2>12 DEF IInv
<1> QED BY <1>8, <1>9, <1>10 DEF Update, new, t

-----------------------------------------------------------------------------
(* The steps of the terminals' connections. *)

\* A step of a connection that leaves every command and task alone.
LEMMA TerminalKeeps ==
  ASSUME IInv, UNCHANGED <<client, task, config, stored>>,
         TypedTerminals', TypedRest', Registered', Asking', OneEach',
         \A c \in Commands : Queued(c)' = Queued(c),
         \A k \in Conns : conn[k].phase # "new" => conn'[k].phase # "new"
  PROVE  IInv'
<1>1. TypedExchange' /\ Exchanges'
  BY DEF IInv, TypedExchange, Exchanges, client
<1>2. TypedConfig' /\ Locked'
  BY DEF IInv, TypedConfig, Locked, FileIsLastSet, config
<1>3. Works' /\ TargetsKnown'
  BY DEF IInv, Works, TargetsKnown
<1> QED BY <1>1, <1>2, <1>3 DEF IInv

\* The queues stay as they are.
LEMMA QueuesKept ==
  ASSUME IInv, \A k \in Conns : conn'[k].queue = conn[k].queue
  PROVE  OneEach' /\ \A c \in Commands : Queued(c)' = Queued(c)
BY DEF IInv, OneEach, Queued

(* The operation at the head of a queue leaves it. *)
LEMMA TurnTaken ==
  ASSUME IInv, NEW k \in Conns, conn[k].queue # <<>>, NEW y \in Connections,
         conn' = [conn EXCEPT ![k] = y], y.queue = Tail(conn[k].queue)
  PROVE  /\ OneEach'
         /\ \A c \in Commands : Queued(c)' = IF c = conn[k].queue[1].by THEN Queued(c) \ {k}
                                             ELSE Queued(c)
<1> DEFINE q == conn[k].queue
<1>1. /\ \A i \in DOMAIN Tail(q) : i \in Nat /\ i + 1 \in DOMAIN q /\ Tail(q)[i] = q[i + 1]
      /\ \A i \in DOMAIN q : i # 1 => i - 1 \in DOMAIN Tail(q) /\ Tail(q)[i - 1] = q[i]
      /\ 1 \in DOMAIN q
  <2>1. q \in Seq(Jobs) /\ q # <<>>
    BY ConnTyped
  <2> HIDE DEF q
  <2> QED BY <2>1, Consumed
<1>2. conn'[k].queue = Tail(q) /\ \A j \in Conns : j # k => conn'[j] = conn[j]
  BY DEF IInv, TypedTerminals
<1>3. \A i, j \in DOMAIN q : q[i].by \in Commands /\ q[j].by = q[i].by => i = j
  BY DEF IInv, OneEach
<1> HIDE DEF q
<1>4. OneEach'
  <2> SUFFICES ASSUME NEW m \in Conns, NEW i \in DOMAIN conn'[m].queue,
                      NEW j \in DOMAIN conn'[m].queue,
                      conn'[m].queue[i].by \in Commands,
                      conn'[m].queue[j].by = conn'[m].queue[i].by
               PROVE  i = j
    BY DEF OneEach
  <2>1. CASE m = k
    <3>0. /\ i \in DOMAIN Tail(q) /\ j \in DOMAIN Tail(q)
          /\ Tail(q)[i].by \in Commands /\ Tail(q)[j].by = Tail(q)[i].by
      BY <1>2, <2>1
    <3>1. i + 1 = j + 1
      BY <1>1, <1>3, <3>0
    <3> QED BY <1>1, <3>0, <3>1
  <2>2. CASE m # k
    BY <1>2, <2>2 DEF IInv, OneEach
  <2> QED BY <2>1, <2>2
<1>5. ASSUME NEW c \in Commands
      PROVE  Queued(c)' = IF c = q[1].by THEN Queued(c) \ {k} ELSE Queued(c)
  <2>1. \A m \in Conns : m # k => (m \in Queued(c)' <=> m \in Queued(c))
    BY <1>2 DEF Queued
  <2>2. c = q[1].by => k \notin Queued(c)'
    <3> SUFFICES ASSUME c = q[1].by, NEW i \in DOMAIN Tail(q), Tail(q)[i].by = c PROVE FALSE
      BY <1>2 DEF Queued
    <3>1. i + 1 \in DOMAIN q /\ q[i + 1].by = c /\ i \in Nat
      BY <1>1
    <3>2. i + 1 = 1
      BY <1>1, <1>3, <3>1
    <3> QED BY <1>1, <3>1, <3>2
  <2>3. c # q[1].by => (k \in Queued(c)' <=> k \in Queued(c))
    <3>1. k \in Queued(c)' <=> \E i \in DOMAIN Tail(q) : Tail(q)[i].by = c
      BY <1>2 DEF Queued
    <3>2. k \in Queued(c) <=> \E i \in DOMAIN q : q[i].by = c
      BY DEF Queued, q
    <3> QED BY <1>1, <3>1, <3>2
  <2>4. Queued(c) \subseteq Conns /\ Queued(c)' \subseteq Conns
    BY DEF Queued
  <2>5. CASE c = q[1].by
    <3>1. \A m : m \in Queued(c)' <=> m \in Queued(c) \ {k}
      BY <2>1, <2>2, <2>4, <2>5
    <3> QED BY <2>5, <3>1
  <2>6. CASE c # q[1].by
    <3>1. \A m : m \in Queued(c)' <=> m \in Queued(c)
      BY <2>1, <2>3, <2>4, <2>6
    <3> QED BY <2>6, <3>1
  <2> QED BY <2>5, <2>6
<1> QED BY <1>4, <1>5 DEF q

\* A question joins its connection's queue.
LEMMA AskStep ==
  ASSUME IInv, NEW k \in Conns, Ask(k) PROVE IInv'
<1> DEFINE job == Job("ask", NoOne, NoOne, FALSE, NoOne)
<1>1. job \in Jobs /\ job.by \notin Commands
  BY ControlAssumption DEF Jobs, Job
<1>2. conn' = Enqueued({k}, job) /\ UNCHANGED <<client, task, registry, config, stored>>
  BY DEF Ask
<1>3. conn[k].phase # "new"
  BY DEF Ask, Opened
<1> HIDE DEF job
<1>4. /\ TypedTerminals' /\ Registered' /\ Asking' /\ OneEach'
      /\ \A c \in Commands : Queued(c)' = IF c = job.by THEN {k} ELSE Queued(c)
      /\ \A j \in Conns : conn'[j].phase = conn[j].phase
  BY <1>1, <1>2, <1>3, EnqueueKeeps
<1>5. TypedRest'
  BY DEF Ask, IInv, TypedRest, Allowances
<1> QED BY <1>1, <1>2, <1>4, <1>5, TerminalKeeps

\* An answer begins, or no agent could be built.
LEMMA StartAnswerStep ==
  ASSUME IInv, NEW k \in Conns, StartAnswer(k) PROVE IInv'
<1>1. /\ conn[k].queue # <<>> /\ conn[k].queue[1].type = "ask" /\ ~conn[k].asking
      /\ UNCHANGED <<client, task, registry, config, stored, left>>
  BY ConnTyped DEF StartAnswer, Turn
<1>2. conn[k] \in Connections /\ conn[k].queue \in Seq(Jobs) /\ conn[k].phase # "new"
  BY <1>1, ConnTyped DEF NewConn
<1>3. TypedRest'
  BY <1>1 DEF IInv, TypedRest
<1>4. CASE conn' = [conn EXCEPT ![k].asking = TRUE,
                                ![k].agent = IF @ = NoOne THEN file ELSE @]
  <2>1. PICK agent \in Configs \cup {NoOne} :
          conn' = [conn EXCEPT ![k] = [conn[k] EXCEPT !.asking = TRUE, !.agent = agent]]
    <3> DEFINE agent == IF conn[k].agent = NoOne THEN file ELSE conn[k].agent
    <3>1. agent \in Configs \cup {NoOne}
      BY <1>2 DEF IInv, TypedConfig, Connections
    <3>2. conn' = [conn EXCEPT ![k] = [conn[k] EXCEPT !.asking = TRUE, !.agent = agent]]
      BY <1>4
    <3> QED BY <3>1, <3>2
  <2> DEFINE y == [conn[k] EXCEPT !.asking = TRUE, !.agent = agent]
  <2>2. /\ y \in Connections /\ y.queue = conn[k].queue /\ y.phase = conn[k].phase
        /\ y.session = conn[k].session
    BY <1>2 DEF Connections
  <2> HIDE DEF y
  <2>3. conn'[k] = y /\ \A j \in Conns : j # k => conn'[j] = conn[j]
    BY <2>1 DEF IInv, TypedTerminals, y
  <2>4. TypedTerminals'
    BY <1>1, <2>1, <2>2 DEF IInv, TypedTerminals, y
  <2>5. Registered'
    BY <1>1, <1>2, <2>2, <2>3, RegisteredKeeps
  <2>6. Asking'
    BY <1>1, <2>2, <2>3 DEF IInv, Asking
  <2>7. OneEach' /\ \A c \in Commands : Queued(c)' = Queued(c)
    BY <2>2, <2>3, QueuesKept
  <2> QED BY <1>1, <1>3, <2>2, <2>3, <2>4, <2>5, <2>6, <2>7, TerminalKeeps
<1>5. CASE conn' = [conn EXCEPT ![k].queue = Tail(@)]
  <2> DEFINE y == [conn[k] EXCEPT !.queue = Tail(@)]
  <2>1. /\ y \in Connections /\ y.queue = Tail(conn[k].queue) /\ y.phase = conn[k].phase
        /\ y.session = conn[k].session /\ ~y.asking
    BY <1>1, <1>2, SMTT(60) DEF Connections
  <2>2. conn' = [conn EXCEPT ![k] = y]
    BY <1>5
  <2> HIDE DEF y
  <2>3. conn'[k] = y /\ \A j \in Conns : j # k => conn'[j] = conn[j]
    BY <2>2 DEF IInv, TypedTerminals
  <2>4. TypedTerminals'
    BY <1>1, <2>1, <2>2 DEF IInv, TypedTerminals
  <2>5. Registered'
    BY <1>1, <1>2, <2>1, <2>3, RegisteredKeeps
  <2>6. Asking'
    BY <2>1, <2>3 DEF IInv, Asking
  <2>7. conn[k].queue[1].by \notin Commands
    BY <1>1, <1>2, JobFields
  <2>8. OneEach' /\ \A c \in Commands : Queued(c)' = Queued(c)
    BY <1>1, <2>1, <2>2, <2>7, TurnTaken
  <2> QED BY <1>1, <1>3, <2>1, <2>3, <2>4, <2>5, <2>6, <2>8, TerminalKeeps
<1> QED BY <1>4, <1>5 DEF StartAnswer

\* An answer ends and makes room for the next operation.
LEMMA EndAnswerStep ==
  ASSUME IInv, NEW k \in Conns, EndAnswer(k) PROVE IInv'
<1>1. /\ conn[k].queue # <<>> /\ conn[k].queue[1].type = "ask"
      /\ UNCHANGED <<client, task, registry, config, stored, left>>
  BY DEF EndAnswer, IInv, Asking
<1>2. conn[k] \in Connections /\ conn[k].queue \in Seq(Jobs) /\ conn[k].phase # "new"
  BY <1>1, ConnTyped DEF NewConn
<1>3. TypedRest'
  BY <1>1 DEF IInv, TypedRest
<1> DEFINE y == [conn[k] EXCEPT !.asking = FALSE, !.queue = Tail(@)]
<1>4. /\ y \in Connections /\ y.queue = Tail(conn[k].queue) /\ y.phase = conn[k].phase
      /\ y.session = conn[k].session /\ ~y.asking
  <2>1. Tail(conn[k].queue) \in Seq(Jobs)
    BY <1>1, <1>2
  <2> QED BY <1>2, <2>1 DEF Connections
<1>5. conn' = [conn EXCEPT ![k] = y]
  BY DEF EndAnswer
<1> HIDE DEF y
<1>6. conn'[k] = y /\ \A j \in Conns : j # k => conn'[j] = conn[j]
  BY <1>5 DEF IInv, TypedTerminals
<1>7. TypedTerminals'
  BY <1>1, <1>4, <1>5 DEF IInv, TypedTerminals
<1>8. Registered'
  BY <1>1, <1>2, <1>4, <1>6, RegisteredKeeps
<1>9. Asking'
  BY <1>4, <1>6 DEF IInv, Asking
<1>10. conn[k].queue[1].by \notin Commands
  BY <1>1, <1>2, JobFields
<1>11. OneEach' /\ \A c \in Commands : Queued(c)' = Queued(c)
  BY <1>1, <1>4, <1>5, <1>10, TurnTaken
<1> QED BY <1>1, <1>3, <1>4, <1>6, <1>7, <1>8, <1>9, <1>11, TerminalKeeps

\* What switchModel and reloadFromConfig leave is an agent of some configuration, or
\* none.
LEMMA OutcomeTyped ==
  ASSUME IInv, NEW k \in Conns, NEW job \in Jobs, job.type # "ask",
         NEW outcome \in Outcomes(k, job), job.required \in BOOLEAN
  PROVE  outcome.agent \in Configs \cup {NoOne} /\ outcome.ok \in BOOLEAN
<1> DEFINE model == IF job.type = "switch" THEN job.model ELSE job.config.model
<1>1. model \in Models \cup {"invalid"}
  BY JobFields DEF Configs
<1>2. conn[k].agent \in Configs \cup {NoOne}
  BY ConnTyped
<1>3. conn[k].agent # NoOne => [conn[k].agent EXCEPT !.model = model] \in Configs
  BY <1>1, <1>2 DEF Configs
<1>4. CASE outcome = [agent |-> NoOne, ok |-> ~job.required]
  BY <1>4
<1>5. CASE outcome = [agent |-> NoOne, ok |-> TRUE]
  BY <1>5
<1>6. CASE conn[k].agent # NoOne
           /\ outcome = [agent |-> [conn[k].agent EXCEPT !.model = model], ok |-> TRUE]
  BY <1>3, <1>6
<1>7. CASE outcome = [agent |-> conn[k].agent, ok |-> FALSE]
  BY <1>2, <1>7
<1> QED BY <1>4, <1>5, <1>6, <1>7 DEF Outcomes

\* A switch or a reload has its turn: its outcome goes to the task that waits for it, if
\* that still does.
LEMMA RunControlStep ==
  ASSUME IInv, NEW k \in Conns, RunControl(k) PROVE IInv'
<1> DEFINE job == conn[k].queue[1]  c == job.by
<1>1. /\ conn[k].queue # <<>> /\ job.type # "ask"
      /\ UNCHANGED <<client, registry, config, stored, left>>
  BY ConnTyped DEF RunControl, Turn
<1>2. conn[k] \in Connections /\ conn[k].queue \in Seq(Jobs) /\ conn[k].phase # "new"
  BY <1>1, ConnTyped DEF NewConn
<1>3. job \in Jobs /\ c \in Commands /\ job.required \in BOOLEAN
  <2>1. job \in Jobs
    BY <1>1, <1>2, SMTT(60)
  <2> QED BY <1>1, <2>1, JobFields
<1>4. PICK outcome \in Outcomes(k, job) :
        /\ conn' = [conn EXCEPT ![k].agent = outcome.agent,
                                ![k].queue = Without(@, 1)]
        /\ task' = IF task[c].phase \in {"apply", "reload"}
                   THEN [task EXCEPT ![c].jobs = Append(@, outcome.ok)]
                   ELSE task
  <2>1. PICK i \in Turn(k) :
          \E outcome \in Outcomes(k, conn[k].queue[i]) :
            /\ conn' = [conn EXCEPT ![k].agent = outcome.agent,
                                    ![k].queue = Without(@, i)]
            /\ task' = IF task[conn[k].queue[i].by].phase \in {"apply", "reload"}
                       THEN [task EXCEPT ![conn[k].queue[i].by].jobs = Append(@, outcome.ok)]
                       ELSE task
    BY Zenon DEF RunControl
  <2>2. i = 1
    BY DEF Turn
  <2> QED BY <2>1, <2>2, Zenon
<1>5. outcome.agent \in Configs \cup {NoOne} /\ outcome.ok \in BOOLEAN
  BY <1>1, <1>3, OutcomeTyped, SMTT(60)
<1> DEFINE y == [conn[k] EXCEPT !.agent = outcome.agent, !.queue = Tail(@)]
<1>6. conn' = [conn EXCEPT ![k] = y]
  BY <1>1, <1>2, <1>4, TurnIsFirst
<1>7. /\ y \in Connections /\ y.queue = Tail(conn[k].queue) /\ y.phase = conn[k].phase
      /\ y.session = conn[k].session /\ y.asking = conn[k].asking
  <2>1. Tail(conn[k].queue) \in Seq(Jobs)
    BY <1>1, <1>2
  <2> QED BY <1>2, <1>5, <2>1 DEF Connections
<1> HIDE DEF y
<1>8. conn'[k] = y /\ \A j \in Conns : j # k => conn'[j] = conn[j]
  BY <1>6 DEF IInv, TypedTerminals
<1>9. TypedTerminals' /\ TypedRest'
  BY <1>1, <1>6, <1>7 DEF IInv, TypedTerminals, TypedRest
<1>10. Registered'
  BY <1>1, <1>2, <1>7, <1>8, RegisteredKeeps
<1>11. Asking'
  BY <1>1, <1>7, <1>8 DEF IInv, Asking
<1>12. /\ OneEach'
       /\ \A d \in Commands : Queued(d)' = IF d = c THEN Queued(d) \ {k} ELSE Queued(d)
  BY <1>1, <1>6, <1>7, TurnTaken
<1>13. k \in Queued(c)
  BY <1>1, <1>2 DEF Queued
<1> HIDE DEF c, job
<1> DEFINE x == cli[c]  in == inbox[c]  out == outbox[c]  t == task[c]
           u == IF t.phase \in {"apply", "reload"}
                THEN [t EXCEPT !.jobs = Append(@, outcome.ok)] ELSE t
<1>14. /\ x \in Records /\ in \in Seq(ToClient) /\ out \in Seq(ToDaemon) /\ t \in Tasks
       /\ Good(x, in, out, t) /\ Entrusted(t, Queued(c))
       /\ inbox = [inbox EXCEPT ![c] = in] /\ outbox = [outbox EXCEPT ![c] = out]
       /\ task = [task EXCEPT ![c] = t]
  BY <1>3, CommandTyped
<1>15. /\ cli' = cli /\ inbox' = [inbox EXCEPT ![c] = in]
       /\ outbox' = [outbox EXCEPT ![c] = out] /\ task' = [task EXCEPT ![c] = u]
  BY <1>1, <1>4, <1>14 DEF client
<1>16. t.phase \in {"apply", "reload", "done", "gone"}
  BY <1>13, <1>14 DEF Entrusted
<1>17. /\ u \in Tasks
       /\ u.phase = t.phase /\ u.request = t.request /\ u.previous = t.previous
       /\ u.wrote = t.wrote /\ u.closed = t.closed /\ u.target = t.target
       /\ u.awaited = t.awaited /\ u.saved = t.saved /\ u.aborted = t.aborted
       /\ u.flow = t.flow /\ u.prompts = t.prompts
       /\ t.phase \notin {"apply", "reload"} => u = t
       /\ t.phase \in {"apply", "reload"} => u.jobs = Append(t.jobs, outcome.ok)
       /\ t.jobs \in Seq(BOOLEAN)
  <2>1. t.jobs \in Seq(BOOLEAN) /\ Append(t.jobs, outcome.ok) \in Seq(BOOLEAN)
    BY <1>5, <1>14 DEF Tasks
  <2>2. CASE t.phase \in {"apply", "reload"}
    <3>1. u = [t EXCEPT !.jobs = Append(t.jobs, outcome.ok)]
      BY <2>2
    <3> HIDE DEF u, t
    <3> QED BY <1>14, <2>1, <2>2, <3>1 DEF Tasks
  <2>3. CASE t.phase \notin {"apply", "reload"}
    <3>1. u = t
      BY <2>3
    <3> HIDE DEF u, t
    <3> QED BY <1>14, <2>1, <2>3, <3>1
  <2> QED BY <2>2, <2>3
<1> HIDE DEF u, x, in, out, t
<1>18. Good(x, in, out, u)
  <2>1. RowShown(x) /\ Fresh(x, in, out, u) /\ Requested(x, out, u)
    BY <1>14, <1>16, <1>17, InitialTask DEF Good, RowShown, Fresh, Requested
  <2>2. Working(x, u) /\ Asked(x, in, out, u) /\ Told(x, in, u)
    BY <1>14, <1>16, <1>17 DEF Good, Working, Asked, Told
  <2> QED BY <2>1, <2>2 DEF Good
<1>19. TypedExchange' /\ Exchanges'
  BY <1>3, <1>14, <1>15, <1>17, <1>18, ExchangeKeeps DEF IInv, x
<1>20. Entrusted(u, Queued(c) \ {k})
  <2>1. CASE t.phase = "apply"
    <3>1. t.jobs = <<>> /\ Queued(c) = {t.target} /\ k = t.target
      BY <1>13, <1>14, <2>1 DEF Entrusted
    <3>2. Len(u.jobs) = Len(t.jobs) + 1
      BY <1>5, <1>17, <2>1
    <3>3. Len(u.jobs) = 1
      BY <3>1, <3>2
    <3> QED BY <1>14, <1>17, <2>1, <3>1, <3>3 DEF Entrusted
  <2>2. CASE t.phase = "reload"
    <3>1. IsFiniteSet(Queued(c))
      BY FS_Subset, ControlAssumption DEF Queued
    <3>2. /\ Cardinality(Queued(c) \ {k}) = Cardinality(Queued(c)) - 1
          /\ Cardinality(Queued(c)) \in Nat
      BY <1>13, <3>1, FS_RemoveElement, FS_CardinalityType
    <3>3. Len(u.jobs) = Len(t.jobs) + 1 /\ Len(t.jobs) \in Nat
      BY <1>5, <1>17, <2>2
    <3>4. Len(t.jobs) + Cardinality(Queued(c)) = t.awaited
      BY <1>14, <2>2 DEF Entrusted
    <3>5. Len(u.jobs) + Cardinality(Queued(c) \ {k}) = u.awaited
      BY <1>17, <3>2, <3>3, <3>4
    <3> QED BY <1>17, <2>2, <3>5 DEF Entrusted
  <2>3. CASE t.phase \in {"done", "gone"}
    BY <1>17, <2>3 DEF Entrusted
  <2> QED BY <1>16, <2>1, <2>2, <2>3
<1>21. task'[c] = u /\ \A d \in Commands : d # c => task'[d] = task[d]
  BY <1>3, <1>15 DEF IInv, TypedExchange
<1>22. Works'
  BY <1>12, <1>20, <1>21 DEF IInv, Works
<1>23. TargetsKnown'
  <2>1. \A j \in Conns : conn'[j].phase = conn[j].phase
    BY <1>7, <1>8
  <2> QED BY <1>3, <1>17, <1>21, <2>1 DEF IInv, TargetsKnown, t
<1>24. TypedConfig' /\ Locked'
  <2>1. UNCHANGED config /\ u.phase = task[c].phase /\ u.request = task[c].request
        /\ u.previous = task[c].previous /\ u.wrote = task[c].wrote
    BY <1>1, <1>17 DEF t
  <2> QED BY <1>3, <1>15, <2>1, LockKeeps
<1> QED BY <1>9, <1>10, <1>11, <1>12, <1>19, <1>22, <1>23, <1>24, SMTT(60) DEF IInv

\* A terminal says hello: the registry names its newest connection.
LEMMA HelloStep ==
  ASSUME IInv, NEW k \in Conns, NEW s \in Sessions, Hello(k, s) PROVE IInv'
<1> DEFINE y == [conn[k] EXCEPT !.phase = "open", !.session = s]
<1>1. /\ conn' = [conn EXCEPT ![k] = y] /\ registry' = [registry EXCEPT ![s] = k]
      /\ conn[k].phase = "new" /\ \A j \in Conns : j < k => conn[j].phase # "new"
      /\ UNCHANGED <<client, task, config, stored>>
  BY DEF Hello
<1>2. /\ y \in Connections /\ y.phase = "open" /\ y.session = s
      /\ y.queue = conn[k].queue /\ y.asking = conn[k].asking
  BY ConnTyped DEF Connections
<1> HIDE DEF y
<1>3. conn'[k] = y /\ \A j \in Conns : j # k => conn'[j] = conn[j]
  BY <1>1 DEF IInv, TypedTerminals
<1>4. registry'[s] = k /\ \A r \in Sessions : r # s => registry'[r] = registry[r]
  BY <1>1 DEF IInv, TypedTerminals
<1>5. TypedTerminals'
  BY <1>1, <1>2 DEF IInv, TypedTerminals
<1>6. TypedRest'
  BY DEF Hello, IInv, TypedRest, Allowances
<1>7. OneEach' /\ \A c \in Commands : Queued(c)' = Queued(c)
  BY <1>2, <1>3, QueuesKept
<1>8. Asking'
  BY <1>2, <1>3 DEF IInv, Asking
<1>9. Registered'
  <2>1. \A j \in Conns : j > k => conn[j] = NewConn /\ conn[j].session = NoOne
    <3> SUFFICES ASSUME NEW j \in Conns, j > k
                 PROVE  conn[j] = NewConn /\ conn[j].session = NoOne
      OBVIOUS
    <3>1. k \in Nat /\ j \in Nat
      BY ControlAssumption
    <3>2. k < j
      BY <3>1
    <3>3. conn[k].phase = "new"
      BY <1>1
    <3>4. conn[j].phase = "new"
      BY <3>2, <3>3 DEF IInv, Registered
    <3>5. conn[j] = NewConn
      BY <3>4 DEF IInv, Registered
    <3> QED BY <3>5 DEF NewConn
  <2>2. \A r \in Sessions : registry[r] # NoOne =>
          /\ registry[r] \in Conns /\ registry[r] # k
          /\ conn[registry[r]].phase = "open" /\ conn[registry[r]].session = r
    BY <1>1 DEF IInv, TypedTerminals, Registered, Opened
  <2>3. \A r \in Sessions : registry'[r] # NoOne =>
          Opened(registry[r])' /\ conn'[registry'[r]].session = r
    BY <1>2, <1>3, <1>4, <2>2 DEF Opened
  <2>4. \A j \in Conns : /\ conn'[j].phase = "new" => conn'[j] = NewConn
                         /\ Opened(j)' => conn'[j].session \in Sessions
    BY <1>2, <1>3 DEF IInv, Registered, Opened
  <2>5. \A i, j \in Conns : i < j /\ conn'[i].phase = "new" => conn'[j].phase = "new"
    <3> SUFFICES ASSUME NEW i \in Conns, NEW j \in Conns, i < j, conn'[i].phase = "new"
                 PROVE  conn'[j].phase = "new"
      OBVIOUS
    <3>1. i # k /\ conn[i].phase = "new"
      BY <1>2, <1>3
    <3>2. j # k
      BY <1>1, <3>1
    <3> QED BY <1>3, <3>1, <3>2 DEF IInv, Registered
  <2>6. RegistryCurrent'
    <3> SUFFICES ASSUME NEW i \in Conns, Opened(i)',
                        \A j \in Conns : j > i => conn'[j].session # conn'[i].session
                 PROVE  registry'[conn'[i].session] = i
      BY <2>3 DEF RegistryCurrent
    <3>1. CASE i = k
      BY <1>2, <1>3, <1>4, <3>1
    <3>2. CASE i # k
      <4>1. Opened(i) /\ conn'[i] = conn[i] /\ conn[i].session \in Sessions
        BY <1>3, <3>2 DEF Opened, IInv, Registered
      <4>2. i < k
        <5>1. ~(i > k)
          BY <2>1, <4>1 DEF Opened, NewConn
        <5>2. i \in Nat /\ k \in Nat
          BY ControlAssumption
        <5> QED BY <3>2, <5>1, <5>2
      <4>3. conn[i].session # s
        BY <1>2, <1>3, <4>1, <4>2
      <4>4. \A j \in Conns : j > i => conn[j].session # conn[i].session
        <5> SUFFICES ASSUME NEW j \in Conns, j > i PROVE conn[j].session # conn[i].session
          OBVIOUS
        <5>1. CASE j = k
          BY <1>1, <4>1, <5>1, ControlAssumption DEF IInv, Registered, NewConn
        <5>2. CASE j # k
          BY <1>3, <4>1, <5>2
        <5> QED BY <5>1, <5>2
      <4> QED BY <1>4, <4>1, <4>3, <4>4 DEF IInv, Registered, RegistryCurrent
    <3> QED BY <3>1, <3>2
  <2> QED BY <2>3, <2>4, <2>5, <2>6 DEF Registered
<1>10. \A j \in Conns : conn[j].phase # "new" => conn'[j].phase # "new"
  BY <1>2, <1>3
<1> QED BY <1>1, <1>5, <1>6, <1>7, <1>8, <1>9, <1>10, TerminalKeeps

\* A connection closes: the registry loses its entry only while that is its own.
LEMMA CloseConnStep ==
  ASSUME IInv, NEW k \in Conns, CloseConn(k) PROVE IInv'
<1> DEFINE y == [conn[k] EXCEPT !.phase = "closed", !.agent = NoOne]  s == conn[k].session
<1>1. /\ conn' = [conn EXCEPT ![k] = y]
      /\ registry' = [registry EXCEPT ![s] = IF @ = k THEN NoOne ELSE @]
      /\ conn[k].phase = "open" /\ s \in Sessions
      /\ UNCHANGED <<client, task, config, stored, left>>
  <2>1. /\ conn' = [conn EXCEPT ![k].phase = "closed", ![k].agent = NoOne]
        /\ registry' = Unregistered(k) /\ conn[k].phase = "open"
        /\ UNCHANGED <<client, task, config, stored, left>>
    BY DEF CloseConn, Opened
  <2>2. s \in Sessions
    <3>1. \A j \in Conns : conn[j].phase = "open" => conn[j].session \in Sessions
      BY DEF IInv, Registered, Opened
    <3> QED BY <2>1, <3>1
  <2>3. conn' = [conn EXCEPT ![k] = y]
    BY <2>1
  <2>4. registry' = [registry EXCEPT ![s] = IF @ = k THEN NoOne ELSE @]
    BY <2>1 DEF Unregistered
  <2> QED BY <2>1, <2>2, <2>3, <2>4
<1>2. /\ y \in Connections /\ y.phase = "closed" /\ y.session = s
      /\ y.queue = conn[k].queue /\ y.asking = conn[k].asking
  BY ConnTyped DEF Connections
<1> HIDE DEF y
<1>3. conn'[k] = y /\ \A j \in Conns : j # k => conn'[j] = conn[j]
  BY <1>1 DEF IInv, TypedTerminals
<1>4. /\ registry'[s] = IF registry[s] = k THEN NoOne ELSE registry[s]
      /\ \A r \in Sessions : r # s => registry'[r] = registry[r]
  BY <1>1 DEF IInv, TypedTerminals
<1>5. TypedTerminals'
  BY <1>1, <1>2 DEF IInv, TypedTerminals
<1>6. TypedRest'
  BY <1>1 DEF IInv, TypedRest
<1>7. OneEach' /\ \A c \in Commands : Queued(c)' = Queued(c)
  BY <1>2, <1>3, QueuesKept
<1>8. Asking'
  BY <1>2, <1>3 DEF IInv, Asking
<1>9. Registered'
  <2>1. \A r \in Sessions : registry[r] # NoOne =>
          /\ registry[r] \in Conns
          /\ conn[registry[r]].phase = "open" /\ conn[registry[r]].session = r
    BY DEF IInv, TypedTerminals, Registered, Opened
  <2>2. \A r \in Sessions : registry'[r] # NoOne =>
          registry'[r] = registry[r] /\ registry'[r] # k
    BY <1>4, <2>1
  <2>3. \A r \in Sessions : registry'[r] # NoOne =>
          Opened(registry[r])' /\ conn'[registry'[r]].session = r
    BY <1>3, <2>1, <2>2 DEF Opened
  <2>4. \A j \in Conns : /\ conn'[j].phase = "new" => conn'[j] = NewConn
                         /\ Opened(j)' => conn'[j].session \in Sessions
    BY <1>2, <1>3 DEF IInv, Registered, Opened
  <2>5. \A i, j \in Conns : i < j /\ conn'[i].phase = "new" => conn'[j].phase = "new"
    <3> SUFFICES ASSUME NEW i \in Conns, NEW j \in Conns, i < j, conn'[i].phase = "new"
                 PROVE  conn'[j].phase = "new"
      OBVIOUS
    <3>1. i # k /\ conn[i].phase = "new"
      BY <1>2, <1>3
    <3>2. conn[j].phase = "new"
      BY <3>1 DEF IInv, Registered
    <3> QED BY <1>1, <1>3, <3>2
  <2>6. RegistryCurrent'
    <3> SUFFICES ASSUME NEW i \in Conns, Opened(i)',
                        \A j \in Conns : j > i => conn'[j].session # conn'[i].session
                 PROVE  registry'[conn'[i].session] = i
      BY <2>3 DEF RegistryCurrent
    <3>1. i # k
      BY <1>2, <1>3 DEF Opened
    <3>2. Opened(i) /\ conn'[i] = conn[i] /\ conn[i].session \in Sessions
      BY <1>3, <3>1 DEF Opened, IInv, Registered
    <3>3. \A j \in Conns : conn'[j].session = conn[j].session
      BY <1>2, <1>3
    <3>4. registry[conn[i].session] = i
      BY <3>2, <3>3 DEF IInv, Registered, RegistryCurrent
    <3> QED BY <1>4, <3>1, <3>2, <3>4
  <2> QED BY <2>3, <2>4, <2>5, <2>6 DEF Registered
<1>10. \A j \in Conns : conn[j].phase # "new" => conn'[j].phase # "new"
  BY <1>2, <1>3
<1> QED BY <1>1, <1>5, <1>6, <1>7, <1>8, <1>9, <1>10, TerminalKeeps

-----------------------------------------------------------------------------
(* What others do. *)

\* koshell.toml is edited by hand.
LEMMA EditStep ==
  ASSUME IInv, NEW new \in left.edits, Edit(new) PROVE IInv'
<1>1. new \in Configs
  BY DEF IInv, TypedRest, Allowances
<1>2. /\ TypedExchange' /\ Exchanges'
  BY DEF Edit, IInv, TypedExchange, Exchanges, client
<1>3. /\ TypedTerminals' /\ Registered' /\ Asking'
  BY TerminalsKeep DEF Edit
<1>4. Works' /\ OneEach' /\ TargetsKnown'
  BY DEF Edit, IInv, Works, OneEach, TargetsKnown, Queued, terminals
<1>5. TypedConfig' /\ TypedRest'
  BY <1>1 DEF Edit, IInv, TypedConfig, TypedRest, Allowances, Configs
<1>6. Locked'
  BY ControlAssumption DEF Edit, IInv, Locked, FileIsLastSet
<1> QED BY <1>2, <1>3, <1>4, <1>5, <1>6 DEF IInv

\* The daemon dies: tasks and queues are gone, the lock is stale, the commands are left
\* waiting.
LEMMA CrashStep ==
  ASSUME IInv, Crash PROVE IInv'
<1>1. ASSUME NEW c \in Commands
      PROVE  /\ cli'[c] = cli[c] /\ inbox'[c] = inbox[c] /\ outbox'[c] = <<>>
             /\ task'[c] \in Tasks /\ task'[c].target = NoOne /\ task'[c].flow = "off"
             /\ task'[c].phase \in {"none", "dead"} /\ task'[c].closed = task[c].closed
             /\ task[c].phase = "none" /\ outbox[c] = <<>> =>
                  task'[c] = Idle /\ task[c] = Idle
             /\ ~(task[c].phase = "none" /\ outbox[c] = <<>>) => task'[c].phase = "dead"
  <2>1. task[c] \in Tasks /\ Good(cli[c], inbox[c], outbox[c], task[c])
    BY CommandTyped
  <2>2. CASE task[c].phase = "none" /\ outbox[c] = <<>>
    BY <2>1, <2>2, InitialTask DEF Crash, Good, Fresh
  <2>3. CASE ~(task[c].phase = "none" /\ outbox[c] = <<>>)
    <3> DEFINE u == [task[c] EXCEPT !.phase = "dead", !.flow = "off", !.previous = Initial,
                                    !.wrote = FALSE, !.target = NoOne]
    <3>1. task'[c] = u
      BY <2>3 DEF Crash
    <3>2. /\ u \in Tasks /\ u.phase = "dead" /\ u.flow = "off" /\ u.target = NoOne
          /\ u.closed = task[c].closed
      BY <2>1, InitialTask DEF Tasks
    <3> QED BY <2>3, <3>1, <3>2 DEF Crash
  <2> QED BY <2>2, <2>3
<1>2. TypedExchange'
  <2>1. cli' = cli /\ inbox' = inbox /\ outbox' \in [Commands -> Seq(ToDaemon)]
    <3>1. <<>> \in Seq(ToDaemon)
      OBVIOUS
    <3> QED BY <3>1 DEF Crash
  <2>2. task' \in [Commands -> Tasks]
    BY <1>1 DEF Crash
  <2> QED BY <2>1, <2>2 DEF IInv, TypedExchange
<1>3. Exchanges'
  <2> SUFFICES ASSUME NEW c \in Commands
               PROVE  Good(cli'[c], inbox'[c], outbox'[c], task'[c])
    BY DEF Exchanges
  <2> DEFINE x == cli[c]  in == inbox[c]  u == task'[c]
  <2>1. Good(x, in, outbox[c], task[c])
    BY CommandTyped
  <2>2. cli'[c] = x /\ inbox'[c] = in /\ outbox'[c] = <<>>
    BY <1>1
  <2>3. RowShown(x) /\ Fresh(x, in, <<>>, u) /\ Requested(x, <<>>, u)
    BY <1>1, <2>1, InitialTask DEF Good, RowShown, Fresh, Requested
  <2>4. Working(x, u) /\ Asked(x, in, <<>>, u) /\ Told(x, in, u)
    BY <1>1, <2>1 DEF Good, Working, Asked, Told
  <2> QED BY <2>2, <2>3, <2>4 DEF Good
<1>4. ASSUME NEW k \in Conns
      PROVE  /\ conn'[k] \in Connections
             /\ conn'[k].phase \in {"new", "closed"} /\ conn'[k].queue = <<>>
             /\ conn'[k].asking = FALSE /\ DOMAIN conn'[k].queue = {}
             /\ conn'[k].phase = "new" <=> conn[k].phase = "new"
             /\ conn'[k].phase = "new" => conn'[k] = NewConn
  <2>1. <<>> \in Seq(Jobs) /\ DOMAIN <<>> = {} /\ conn[k].session \in Sessions \cup {NoOne}
    BY ConnTyped
  <2>2. NewConn \in Connections
    BY <2>1 DEF NewConn, Connections
  <2> QED BY <2>1, <2>2 DEF Crash, NewConn, Connections
<1>5. TypedTerminals'
  BY <1>4 DEF Crash, TypedTerminals
<1>6. \A s \in Sessions : registry'[s] = NoOne
  BY DEF Crash
<1>7. Registered'
  <2>1. RegistryCurrent'
    BY <1>4, <1>6 DEF RegistryCurrent, Opened
  <2> QED BY <1>4, <1>6, <2>1 DEF IInv, Registered, Opened
<1>8. Asking' /\ OneEach'
  BY <1>4 DEF Asking, OneEach
<1>9. \A c \in Commands : Queued(c)' = {}
  BY <1>4 DEF Queued
<1>10. Works' /\ TargetsKnown'
  BY <1>1, <1>9, ControlAssumption DEF Works, Entrusted, TargetsKnown
<1>11. lock' \notin Commands /\ file' = file /\ excused' = excused /\ lock' \in {NoOne, "stale"}
  BY ControlAssumption DEF Crash
<1>12. TypedConfig'
  BY <1>11 DEF Crash, IInv, TypedConfig, Configs
<1>13. Locked'
  <2>1. ~excused => file.model \in {expected', unsettled'}
    BY DEF Crash, IInv, Locked, FileIsLastSet
  <2> QED BY <1>1, <1>11, <2>1 DEF Locked, FileIsLastSet
<1>14. TypedRest'
  <2>1. /\ left.crashes > 0 /\ left' = [left EXCEPT !.crashes = @ - 1] /\ stored' = stored
    BY DEF Crash
  <2> QED BY <2>1 DEF IInv, TypedRest, Allowances
<1> QED BY <1>2, <1>3, <1>5, <1>7, <1>8, <1>10, <1>12, <1>13, <1>14 DEF IInv

\* The invariant holds initially.
LEMMA InitInvariant == Init => IInv
<1> SUFFICES ASSUME Init PROVE IInv
  OBVIOUS
<1> DEFINE x == [phase |-> "new", request |-> NoRequest, shown |-> <<>>, selected |-> 0,
                 prompt |-> 0]
<1>1. /\ \A c \in Commands : /\ cli[c] = x /\ inbox[c] = <<>> /\ outbox[c] = <<>>
                             /\ task[c] = Idle
      /\ \A k \in Conns : conn[k] = NewConn
      /\ \A s \in Sessions : registry[s] = NoOne
  BY DEF Init
<1>2. x \in Records
  <2>1. <<>> \in Seq(Models) /\ 0 \in Nat /\ 0 \in 0..MaxPrompts
    BY ControlAssumption
  <2> QED BY <2>1, InitialTask DEF Records
<1>3. TypedExchange
  <2>1. <<>> \in Seq(ToClient) /\ <<>> \in Seq(ToDaemon)
    OBVIOUS
  <2> QED BY <1>2, <2>1, InitialTask DEF Init, TypedExchange
<1>4. TypedTerminals
  <2>1. NewConn \in Connections
    BY DEF NewConn, Connections
  <2> QED BY <2>1 DEF Init, TypedTerminals
<1>5. TypedConfig /\ TypedRest
  BY InitialTask, BoundsAssumption DEF Init, TypedConfig, TypedRest, Initial, Configs
<1>6. Exchanges
  <2>1. RowShown(x) /\ Fresh(x, <<>>, <<>>, Idle) /\ Requested(x, <<>>, Idle)
    BY DEF RowShown, Fresh, Requested
  <2>2. Working(x, Idle) /\ Asked(x, <<>>, <<>>, Idle) /\ Told(x, <<>>, Idle)
    BY InitialTask DEF Working, Asked, Told
  <2> QED BY <1>1, <2>1, <2>2 DEF Exchanges, Good
<1>7. OneEach /\ Asking /\ \A c \in Commands : Queued(c) = {}
  BY <1>1 DEF OneEach, Asking, Queued, NewConn
<1>8. Works /\ TargetsKnown
  BY <1>1, <1>7, InitialTask, ControlAssumption DEF Works, Entrusted, TargetsKnown
<1>9. Locked
  BY <1>1, InitialTask, ControlAssumption DEF Init, Locked, FileIsLastSet
<1>10. Registered
  <2>1. \A k \in Conns : conn[k].phase = "new" /\ ~Opened(k)
    BY <1>1 DEF Opened, NewConn
  <2>2. RegistryCurrent
    BY <1>1, <2>1 DEF RegistryCurrent
  <2> QED BY <1>1, <2>1, <2>2 DEF Registered
<1> QED BY <1>3, <1>4, <1>5, <1>6, <1>7, <1>8, <1>9, <1>10 DEF IInv

\* Every step keeps the invariant.
LEMMA StepInvariant == IInv /\ [Next]_vars => IInv'
<1> SUFFICES ASSUME IInv, [Next]_vars PROVE IInv'
  OBVIOUS
<1>1. ASSUME NEW c \in Commands, OfClient(c) \/ OfDaemon(c) PROVE IInv'
  BY <1>1, ClientStep, OnImmediateStep, OnSetStep, OnReloadStep, OnLoginStep, OnAnswerStep,
     LockBusyStep, UpdateStep, SettleStep, ReplyReloadStep, PromptStep, LoginTimeoutStep,
     LoginEndsStep, SeesCloseStep DEF OfDaemon
<1>2. ASSUME NEW k \in Conns, OfTerminal(k) PROVE IInv'
  BY <1>2, HelloStep, CloseConnStep, AskStep, StartAnswerStep, EndAnswerStep, RunControlStep
     DEF OfTerminal
<1>3. CASE UNCHANGED vars
  <2>1. UNCHANGED <<client, task, terminals, config, stored, left>>
    BY <1>3 DEF vars
  <2>2. TypedExchange' /\ Exchanges'
    BY <2>1 DEF IInv, TypedExchange, Exchanges, client
  <2>3. TypedTerminals' /\ Registered' /\ Asking'
    BY <2>1, TerminalsKeep
  <2>4. Works' /\ OneEach' /\ TargetsKnown'
    BY <2>1 DEF IInv, Works, OneEach, TargetsKnown, Queued, terminals
  <2>5. TypedConfig' /\ Locked' /\ TypedRest'
    BY <2>1 DEF IInv, TypedConfig, TypedRest, Locked, FileIsLastSet, config
  <2> QED BY <2>2, <2>3, <2>4, <2>5 DEF IInv
<1> QED BY <1>1, <1>2, <1>3, EditStep, CrashStep DEF Next

\* The invariant holds in every state: command line, daemon and terminals agree in the
\* sense of IInv (server.ts, model-service.ts, auth-flow.ts and the *_cli.rs commands).
THEOREM InvariantAlways == Spec => []IInv
BY InitInvariant, StepInvariant, PTL DEF Spec

-----------------------------------------------------------------------------
(* The theorems. *)

\* The registry always names the newest connection of a session that is open, so that a
\* command reaches the terminal it was typed in (registerSession, unregisterSession of
\* server.ts); and everything keeps its type, the picker's selected row among the rows
\* drawn.
THEOREM RoutingAlwaysSound == Spec => []RoutingSound
<1>1. IInv => RoutingSound
  <2> SUFFICES ASSUME IInv PROVE RoutingSound
    OBVIOUS
  <2>1. RegistryCurrent
    BY DEF IInv, Registered
  <2>2. ASSUME NEW c \in Commands
        PROVE  /\ cli[c].phase \in {"new", "pick", "asked", "acked", "prompt", "done"}
               /\ \A i \in DOMAIN inbox[c] : inbox[c][i] \in ToClient
               /\ \A i \in DOMAIN outbox[c] : outbox[c][i] \in ToDaemon
               /\ task[c].phase \in {"none", "lock", "apply", "reload", "login", "done",
                                     "gone", "dead"}
               /\ task[c].flow \in {"off", "running", "prompt", "cancelled"}
    BY CommandTyped DEF Records, Tasks
  <2>3. ASSUME NEW c \in Commands, cli[c].phase = "pick"
        PROVE  IF cli[c].shown = <<>> THEN cli[c].selected = 0
               ELSE cli[c].selected \in FirstRow(cli[c].selected)..
                      (FirstRow(cli[c].selected) + Rows - 1) \cap DOMAIN cli[c].shown
    <3>1. /\ IF cli[c].shown = <<>> THEN cli[c].selected = 0
             ELSE cli[c].selected \in 1..Len(cli[c].shown)
          /\ cli[c].shown \in Seq(Models) /\ cli[c].selected \in Nat
      BY <2>3, CommandTyped DEF Good, RowShown, Records
    <3>2. cli[c].selected # 0 => cli[c].selected \in FirstRow(cli[c].selected)..
                      (FirstRow(cli[c].selected) + Rows - 1)
      BY <3>1, ControlAssumption DEF FirstRow
    <3> QED BY <3>1, <3>2
  <2>4. \A k \in Conns : conn[k].agent \in Configs \cup {NoOne}
    BY ConnTyped
  <2>5. /\ file \in Configs /\ lock \in Commands \cup {NoOne, "stale"} /\ stored \in BOOLEAN
        /\ unsettled \in Models \cup {"invalid", NoOne}
    BY DEF IInv, TypedConfig, TypedRest
  <2>6. TypeOK
    BY <2>2, <2>3, <2>4, <2>5 DEF TypeOK
  <2> QED BY <2>1, <2>6 DEF RoutingSound
<1> QED BY <1>1, InvariantAlways, PTL

\* Whenever nobody holds the lock, koshell.toml names the model that the last successful
\* `koshell model set` or edit gave it, but for the failures that are excused
\* (updateDefaultModel of model-service.ts).
THEOREM FileAlwaysLastSet == Spec => []FileIsLastSet
<1>1. IInv => FileIsLastSet
  BY DEF IInv, Locked
<1> QED BY <1>1, InvariantAlways, PTL

\* A command is told the truth: success only when every conversation of a reload has its
\* configuration, the switch was made, the credential saved; and of a login that failed
\* nothing was saved (handleModelSet, handleReload and handleAuthLogin of server.ts).
THEOREM AlwaysToldTruth == Spec => []ToldTruth
<1>1. IInv => ToldTruth
  <2> SUFFICES ASSUME IInv, NEW c \in Commands, Waiting(c), task[c].phase = "done"
               PROVE  LET told == inbox[c][Len(inbox[c])].ok
                          made == \A i \in DOMAIN task[c].jobs : task[c].jobs[i]
                          kind == cli[c].request.kind
                      IN /\ told /\ kind = "reload" => made /\ Len(task[c].jobs) = task[c].awaited
                         /\ told /\ cli[c].request.only => made /\ task[c].jobs # <<>>
                         /\ kind = "login" => told = task[c].saved
    BY DEF ToldTruth
  <2>1. Told(cli[c], inbox[c], task[c])
    BY CommandTyped DEF Good
  <2> QED BY <2>1 DEF Told, Awaits, Waiting
<1> QED BY <1>1, InvariantAlways, PTL

\* Whoever waits waits for something that is still to come: a command for a task that is
\* not over, a switch and a reload for operations that are queued, a question of a login
\* for its answer, the lock for a switch.
THEOREM NobodyEverWaitsForNothing == Spec => []NobodyWaitsForNothing
<1>1. IInv => NobodyWaitsForNothing
  <2> SUFFICES ASSUME IInv PROVE NobodyWaitsForNothing
    OBVIOUS
  <2>1. ASSUME NEW c \in Commands
        PROVE  /\ cli[c].phase = "acked" =>
                    inbox[c] # <<>>
                    \/ task[c].phase \in {"lock", "apply", "reload", "login", "dead"}
               /\ task[c].phase = "apply" /\ task[c].jobs = <<>> => task[c].target \in Queued(c)
               /\ task[c].phase = "reload" =>
                    Len(task[c].jobs) + Cardinality(Queued(c)) = task[c].awaited
    <3>1. /\ Good(cli[c], inbox[c], outbox[c], task[c]) /\ task[c] \in Tasks
          /\ Entrusted(task[c], Queued(c))
      BY CommandTyped
    <3>2. cli[c].phase = "acked" => task[c].phase \notin {"none", "gone"}
      BY <3>1 DEF Good, Fresh, Working
    <3>3. cli[c].phase = "acked" /\ task[c].phase = "done" => inbox[c] # <<>>
      BY <3>1 DEF Good, Told, Awaits
    <3>4. task[c].phase = "apply" /\ task[c].jobs = <<>> => task[c].target \in Queued(c)
      BY <3>1 DEF Entrusted
    <3>5. task[c].phase = "reload" =>
            Len(task[c].jobs) + Cardinality(Queued(c)) = task[c].awaited
      BY <3>1 DEF Entrusted
    <3>6. task[c].phase \in {"none", "lock", "apply", "reload", "login", "done", "gone", "dead"}
      BY <3>1 DEF Tasks
    <3> QED BY <3>2, <3>3, <3>4, <3>5, <3>6
  <2>2. ASSUME NEW c \in Commands, task[c].flow = "prompt"
        PROVE  /\ ~task[c].aborted
               /\ \/ cli[c].phase = "done"
                  \/ cli[c].phase = "prompt" /\ cli[c].prompt = task[c].prompts
                  \/ \E i \in DOMAIN inbox[c] : inbox[c][i].kind = "prompt"
                                              /\ inbox[c][i].id = task[c].prompts
                  \/ \E i \in DOMAIN outbox[c] : outbox[c][i].kind = "answer"
                                               /\ outbox[c][i].id = task[c].prompts
    BY <2>2, CommandTyped DEF Good, Asked
  <2>3. lock \in Commands => task[lock].phase = "apply"
    BY DEF IInv, Locked
  <2> QED BY <2>1, <2>2, <2>3 DEF NobodyWaitsForNothing
<1> QED BY <1>1, InvariantAlways, PTL

\* While a connection is giving an answer its agent stays the one the answer began with:
\* switches and reloads wait in the queue behind it (enqueue of server.ts).
THEOREM AnswersKeepTheirModel == Spec => AnswerKeepsModel
<1> DEFINE A == \A k \in Conns :
                  conn[k].asking /\ conn'[k].asking /\ conn'[k].phase = "open"
                  => conn'[k].agent = conn[k].agent
<1>1. IInv /\ [Next]_vars => [A]_vars
  <2> SUFFICES ASSUME IInv, Next, NEW k \in Conns,
                      conn[k].asking, conn'[k].asking, conn'[k].phase = "open"
               PROVE  conn'[k].agent = conn[k].agent
    OBVIOUS
  <2>0. conn \in [Conns -> Connections] /\ conn[k].queue # <<>> /\ conn[k].queue[1].type = "ask"
    BY DEF IInv, TypedTerminals, Asking
  <2>1. ASSUME NEW c \in Commands, OfClient(c) PROVE conn' = conn
    BY <2>1 DEF OfClient, Start, OpenPicker, Unreachable, PickQuery, PickMove, PickEnter,
       PickCancel, ReadAck, ReadResult, ReadPrompt, AnswerPrompt, GiveUp, Interrupt, Lost,
       terminals
  <2>2. ASSUME NEW c \in Commands, OfDaemon(c) PROVE conn'[k].agent = conn[k].agent
    <3>1. ASSUME NEW ks, NEW job, conn' = Enqueued(ks, job) PROVE conn'[k].agent = conn[k].agent
      BY <2>0, <3>1 DEF Enqueued
    <3>2. CASE OnSet(c)
      BY <3>1, <3>2 DEF OnSet
    <3>3. CASE OnReload(c)
      BY <3>1, <3>3 DEF OnReload
    <3>4. CASE Update(c)
      BY <3>1, <3>4 DEF Update
    <3>5. CASE \/ OnImmediate(c) \/ OnLogin(c) \/ OnAnswer(c) \/ LockBusy(c) \/ Settle(c)
               \/ ReplyReload(c) \/ Prompt(c) \/ LoginTimeout(c) \/ LoginEnds(c)
               \/ SeesClose(c)
      BY <3>5 DEF OnImmediate, OnLogin, OnAnswer, LockBusy, Settle, ReplyReload, Prompt,
         LoginTimeout, LoginEnds, SeesClose, terminals
    <3> QED BY <2>2, <3>2, <3>3, <3>4, <3>5 DEF OfDaemon
  <2>3. ASSUME NEW j \in Conns, OfTerminal(j) PROVE conn'[k].agent = conn[k].agent
    <3>1. CASE j # k
      BY <2>0, <2>3, <3>1 DEF OfTerminal, Hello, CloseConn, Ask, StartAnswer, EndAnswer,
         RunControl, Enqueued
    <3>2. CASE j = k
      <4>1. CASE \E s \in Sessions : Hello(k, s)
        <5>1. conn[k].phase = "new"
          BY <4>1 DEF Hello
        <5> QED BY <2>0, <5>1 DEF IInv, Registered, NewConn
      <4>5. CASE Ask(k)
        <5>1. \E job \in {Job("ask", NoOne, NoOne, FALSE, NoOne)} : conn' = Enqueued({k}, job)
          BY <4>5 DEF Ask
        <5>2. PICK job : conn' = Enqueued({k}, job)
          BY <5>1
        <5>3. conn'[k] = [conn[k] EXCEPT !.queue = Append(@, job)]
          BY <5>2 DEF Enqueued
        <5> QED BY <2>0, <5>3 DEF Connections
      <4>3. CASE CloseConn(k)
        BY <2>0, <4>3 DEF CloseConn
      <4>4. CASE EndAnswer(k)
        BY <2>0, <4>4 DEF EndAnswer
      <4>2. CASE StartAnswer(k) \/ RunControl(k)
        BY <2>0, <4>2 DEF StartAnswer, RunControl, Turn
      <4> QED BY <2>3, <3>2, <4>1, <4>2, <4>3, <4>4, <4>5 DEF OfTerminal
    <3> QED BY <3>1, <3>2, SMTT(60)
  <2>4. CASE \E new \in left.edits : Edit(new)
    BY <2>4 DEF Edit, terminals
  <2>5. CASE Crash
    BY <2>0, <2>5 DEF Crash, NewConn
  <2> QED BY <2>1, <2>2, <2>3, <2>4, <2>5 DEF Next
<1>2. AnswerKeepsModel <=> [][A]_vars
  BY DEF AnswerKeepsModel
<1> QED BY <1>1, <1>2, InvariantAlways, PTL DEF Spec
====
