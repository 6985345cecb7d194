----------------------- MODULE DaemonLifecycleProofs -----------------------
(***************************************************************************)
(* Theorems about DaemonLifecycle, for any number of daemons, terminals,   *)
(* connections and crashes.  First, on the invariant IInv: daemons started *)
(* together converge on one, and the idle timer of each runs exactly while *)
(* no terminal is attached.  Then, on the larger invariant that adds what  *)
(* is written on each connection: a question reaches at most one daemon,   *)
(* once, and its user is told what became of it.                           *)
(***************************************************************************)
EXTENDS DaemonLifecycle, FiniteSetTheorems, TLAPS

States == {"unborn", "probe", "unlink", "bind", "raced", "bound", "up", "closing", "dead"}
Lines == Int \cup {Nobody}
ConnType ==
  [by : Terminals \cup Nat, to : Daemons, stage : {"backlog", "accepted", "closed", "reset"},
   open : BOOLEAN, wrote : Seq(Lines), read : Nat]
AtType ==
  [Terminals -> [step : {"idle", "connect", "retry", "line", "newline"},
                 request : Requests \cup {Nobody}, attempt : Nat]]

Types ==
  /\ path \in Daemons \cup {Absent, Junk}
  /\ proc \in [Daemons -> States]
  /\ timer \in [Daemons -> BOOLEAN]
  /\ conns \in Seq(ConnType)
  /\ at \in AtType

(* Both properties are inductive once the variables are typed. *)
IInv == Types /\ SingleInstance /\ IdleTimerExact

-----------------------------------------------------------------------------
(* Connections *)

(* The connections changed in nothing that says who accepted them. *)
SameAccepted ==
  /\ conns' \in Seq(ConnType)
  /\ \A e \in Daemons : Accepted(e)' = Accepted(e)

(* A daemon has finitely many connections, so counting them is sound. *)
LEMMA AcceptedFinite ==
  ASSUME conns \in Seq(ConnType), NEW d
  PROVE  IsFiniteSet(Accepted(d)) /\ Cardinality(Accepted(d)) \in Nat
<1>1. Len(conns) \in Nat /\ DOMAIN conns = 1..Len(conns)
  OBVIOUS
<1>2. IsFiniteSet(1..Len(conns))
  BY <1>1, FS_Interval
<1>3. Accepted(d) \in SUBSET (1..Len(conns))
  BY <1>1 DEF Accepted
<1>4. IsFiniteSet(Accepted(d))
  BY <1>2, <1>3, FS_Subset
<1> QED BY <1>4, FS_CardinalityType

(* A connection to whoever accepts at the path is well typed. *)
LEMMA ConnectionType ==
  ASSUME Accepting(path), NEW who \in Terminals \cup Nat, NEW first \in Seq(Lines)
  PROVE  /\ Connection(who, first) \in ConnType
         /\ [Connection(who, first) EXCEPT !.open = FALSE] \in ConnType
         /\ Connection(who, first).stage = "backlog"
         /\ [Connection(who, first) EXCEPT !.open = FALSE].stage = "backlog"
BY DEF Connection, ConnType, Accepting

(* What a process writes before anything else. *)
LEMMA FirstLines ==
  /\ << >> \in Seq(Lines) /\ <<Hello>> \in Seq(Lines) /\ <<StatusRequest>> \in Seq(Lines)
BY DEF Lines, Hello, StatusRequest

(* A new connection is in the backlog: nobody has accepted it yet. *)
LEMMA AppendKeeps ==
  ASSUME conns \in Seq(ConnType), NEW c \in ConnType, c.stage = "backlog",
         conns' = Append(conns, c)
  PROVE  SameAccepted
<1>1. conns' \in Seq(ConnType) /\ Len(conns') = Len(conns) + 1
  OBVIOUS
<1>2. /\ DOMAIN conns = 1..Len(conns) /\ DOMAIN conns' = 1..(Len(conns) + 1)
      /\ Len(conns) \in Nat
      /\ \A i \in 1..Len(conns) : conns'[i] = conns[i]
      /\ conns'[Len(conns) + 1] = c
  OBVIOUS
<1>3. \A e \in Daemons : Accepted(e)' = Accepted(e)
  BY <1>2 DEF Accepted
<1> QED BY <1>1, <1>3 DEF SameAccepted

(* A connection replaced by one that differs in what was written, read or  *)
(* whether its client is still there.                                      *)
LEMMA UpdateKeeps ==
  ASSUME conns \in Seq(ConnType), NEW j, NEW c,
         j \in DOMAIN conns => /\ c \in ConnType
                               /\ c.to = conns[j].to /\ c.stage = conns[j].stage,
         conns' = [conns EXCEPT ![j] = c]
  PROVE  SameAccepted
<1>1. DOMAIN conns = 1..Len(conns) /\ Len(conns) \in Nat
  OBVIOUS
<1>2. /\ DOMAIN conns' = DOMAIN conns
      /\ \A i \in DOMAIN conns : conns'[i] = IF i = j THEN c ELSE conns[i]
  OBVIOUS
<1>3. conns' \in Seq(ConnType)
  <2>1. CASE j \in DOMAIN conns
    BY <1>1, <2>1
  <2>2. CASE j \notin DOMAIN conns
    <3>1. \A i \in 1..Len(conns) : conns'[i] = conns[i]
      BY <1>1, <1>2, <2>2
    <3>2. conns' = conns
      BY <1>1, <1>2, <3>1
    <3> QED BY <3>2
  <2> QED BY <2>1, <2>2
<1>4. \A e \in Daemons : Accepted(e)' = Accepted(e)
  BY <1>2 DEF Accepted
<1> QED BY <1>3, <1>4 DEF SameAccepted

(* The kernel's reset of a daemon's connections touches nobody else's. *)
LEMMA ResetKeeps ==
  ASSUME conns \in Seq(ConnType), NEW d, NEW stages
  PROVE  /\ ResetStages(d, stages) \in Seq(ConnType)
         /\ DOMAIN ResetStages(d, stages) = DOMAIN conns
         /\ \A i \in DOMAIN conns :
              /\ ResetStages(d, stages)[i].to = conns[i].to
              /\ (conns[i].to = d /\ conns[i].stage \in stages)
                 => ResetStages(d, stages)[i].stage = "reset"
              /\ ~(conns[i].to = d /\ conns[i].stage \in stages)
                 => ResetStages(d, stages)[i] = conns[i]
<1> DEFINE R == ResetStages(d, stages)
<1>1. DOMAIN conns = 1..Len(conns) /\ Len(conns) \in Nat
  OBVIOUS
<1>2. DOMAIN R = DOMAIN conns
  BY DEF ResetStages
<1>3. ASSUME NEW i \in DOMAIN conns
      PROVE  /\ R[i] \in ConnType /\ R[i].to = conns[i].to
             /\ (conns[i].to = d /\ conns[i].stage \in stages) => R[i].stage = "reset"
             /\ ~(conns[i].to = d /\ conns[i].stage \in stages) => R[i] = conns[i]
  <2>1. conns[i] \in ConnType
    OBVIOUS
  <2>2. [conns[i] EXCEPT !.stage = "reset"] \in ConnType
    BY <2>1 DEF ConnType
  <2>3. /\ [conns[i] EXCEPT !.stage = "reset"].to = conns[i].to
        /\ [conns[i] EXCEPT !.stage = "reset"].stage = "reset"
    BY <2>1 DEF ConnType
  <2> QED BY <2>1, <2>2, <2>3 DEF ResetStages
<1>4. R \in Seq(ConnType)
  BY <1>1, <1>2, <1>3 DEF ResetStages
<1> HIDE DEF R
<1>5. QED BY <1>2, <1>3, <1>4 DEF R

-----------------------------------------------------------------------------
(* Steps *)

PathStep == UNCHANGED <<path, robbed>> \/ \E who : Remove(who)

(* Taking the file away robs the running daemon that had it, and puts it   *)
(* on record: a daemon that runs is still reached, or was robbed.          *)
LEMMA PathStepSound ==
  ASSUME IInv, PathStep, proc' \in [Daemons -> States],
         \A e \in Daemons : proc'[e] \in Running => proc[e] \in Running
  PROVE  path' \in Daemons \cup {Absent, Junk} /\ SingleInstance'
<1>1. CASE UNCHANGED <<path, robbed>>
  BY <1>1 DEF IInv, Types, SingleInstance
<1>2. ASSUME NEW who, Remove(who)
      PROVE  path' \in Daemons \cup {Absent, Junk} /\ SingleInstance'
  <2>1. path' = Absent /\ robbed \subseteq robbed'
    BY <1>2 DEF Remove
  <2>2. ASSUME NEW e \in Daemons, proc'[e] \in Running
        PROVE  \E pair \in robbed' : pair[2] = e
    <3>1. proc[e] \in Running
      BY <2>2
    <3>2. CASE path = e
      <4>1. Accepting(path)
        BY <3>1, <3>2 DEF Accepting
      <4>2. <<who, path>> \in robbed'
        BY <1>2, <4>1 DEF Remove
      <4> QED BY <3>2, <4>2
    <3>3. CASE \E pair \in robbed : pair[2] = e
      BY <2>1, <3>3
    <3> QED BY <3>1, <3>2, <3>3 DEF IInv, SingleInstance
  <2> QED BY <2>1, <2>2 DEF SingleInstance
<1> QED BY <1>1, <1>2 DEF PathStep

(* Every step in which no daemon starts to run, accepts or loses a         *)
(* connection, and no timer is armed.                                      *)
LEMMA StepSound ==
  ASSUME IInv, PathStep,
         proc' \in [Daemons -> States], timer' \in [Daemons -> BOOLEAN],
         conns' \in Seq(ConnType), at' \in AtType,
         \A e \in Daemons :
           /\ proc'[e] \in Running => proc'[e] = proc[e]
           /\ timer'[e] => timer[e]
           /\ Accepted(e)' \subseteq Accepted(e)
           /\ proc'[e] = "up" => timer'[e] = timer[e] /\ Accepted(e)' = Accepted(e)
  PROVE  IInv'
<1>1. path' \in Daemons \cup {Absent, Junk} /\ SingleInstance'
  <2>1. \A e \in Daemons : proc'[e] \in Running => proc[e] \in Running
    OBVIOUS
  <2> QED BY <2>1, PathStepSound
<1>2. IdleTimerExact'
  <2> SUFFICES ASSUME NEW d \in Daemons
               PROVE  /\ timer'[d] => Accepted(d)' = {}
                      /\ proc'[d] = "up" /\ Accepted(d)' = {} => timer'[d]
    BY DEF IdleTimerExact
  <2>1. /\ timer[d] => Accepted(d) = {}
        /\ proc[d] = "up" /\ Accepted(d) = {} => timer[d]
    BY DEF IInv, IdleTimerExact
  <2>2. timer'[d] => Accepted(d)' = {}
    BY <2>1
  <2>3. proc'[d] = "up" => proc[d] = "up"
    BY DEF Running
  <2> QED BY <2>1, <2>2, <2>3
<1> QED BY <1>1, <1>2 DEF IInv, Types

(* A step that leaves every daemon alone.                                  *)
LEMMA QuietSound ==
  ASSUME IInv, SameAccepted, UNCHANGED <<proc, timer>>, PathStep, at' \in AtType
  PROVE  IInv'
<1>1. proc \in [Daemons -> States] /\ timer \in [Daemons -> BOOLEAN]
  BY DEF IInv, Types
<1> QED BY <1>1, StepSound DEF SameAccepted

(* A step of one daemon that does not run afterwards, with its timer off   *)
(* or as it was.                                                           *)
LEMMA NotRunningSound ==
  ASSUME IInv, NEW d \in Daemons, NEW s \in States \ Running,
         proc' = [proc EXCEPT ![d] = s],
         timer' = timer \/ timer' = [timer EXCEPT ![d] = FALSE],
         conns' \in Seq(ConnType),
         \A e \in Daemons : Accepted(e)' \subseteq Accepted(e),
         \A e \in Daemons \ {d} : Accepted(e)' = Accepted(e),
         PathStep, at' \in AtType
  PROVE  IInv'
<1>1. proc \in [Daemons -> States] /\ timer \in [Daemons -> BOOLEAN]
  BY DEF IInv, Types
<1>2. /\ proc' \in [Daemons -> States] /\ timer' \in [Daemons -> BOOLEAN]
      /\ proc'[d] = s
      /\ \A e \in Daemons \ {d} : proc'[e] = proc[e] /\ timer'[e] = timer[e]
      /\ timer'[d] => timer[d]
  BY <1>1
<1>3. s \notin Running /\ s # "up"
  BY DEF Running
<1>4. \A e \in Daemons :
        /\ proc'[e] \in Running => proc'[e] = proc[e]
        /\ timer'[e] => timer[e]
        /\ proc'[e] = "up" => timer'[e] = timer[e] /\ Accepted(e)' = Accepted(e)
  BY <1>2, <1>3
<1> QED BY <1>2, <1>4, StepSound

(* What a daemon's system calls leave of its timer and its connections.    *)
LEMMA SameConnections ==
  ASSUME IInv, UNCHANGED conns
  PROVE  SameAccepted
BY DEF IInv, Types, SameAccepted, Accepted

(* A daemon that exits.                                                    *)
LEMMA GoesSound ==
  ASSUME IInv, NEW d \in Daemons, NEW s \in States \ Running, Goes(d, s)
  PROVE  IInv'
<1>1. SameAccepted
  BY SameConnections DEF Goes
<1> QED BY <1>1, NotRunningSound DEF Goes, SameAccepted, PathStep, terminalVars, IInv, Types

(* A daemon that finds another one answering exits.                        *)
LEMMA FindsAliveSound ==
  ASSUME IInv, NEW d \in Daemons, FindsAlive(d)
  PROVE  IInv'
<1>1. d \in Terminals \cup Nat
  BY DEF Daemons
<1>2. Probed(d) \in ConnType /\ Probed(d).stage = "backlog"
  BY <1>1, FirstLines, ConnectionType DEF Probed, FindsAlive
<1>3. SameAccepted
  BY <1>2, AppendKeeps DEF FindsAlive, IInv, Types
<1>4. "dead" \in States \ Running
  BY DEF States, Running
<1> QED BY <1>3, <1>4, NotRunningSound DEF FindsAlive, SameAccepted, PathStep, terminalVars,
                                           IInv, Types

(* bind is exclusive: the one who binds finds no file, so every daemon     *)
(* that runs already has been robbed of its own.                           *)
LEMMA BindSound ==
  ASSUME IInv, NEW d \in Daemons, Bind(d)
  PROVE  IInv'
<1>1. CASE AddressInUse
  <2>1. "raced" \in States \ Running
    BY DEF States, Running
  <2> QED BY <1>1, <2>1, GoesSound DEF Bind
<1>2. CASE ~AddressInUse
  <2>1. /\ proc \in [Daemons -> States] /\ timer \in [Daemons -> BOOLEAN]
        /\ conns \in Seq(ConnType) /\ at \in AtType
    BY DEF IInv, Types
  <2>2. /\ path = Absent /\ path' = d /\ proc' = [proc EXCEPT ![d] = "bound"]
        /\ UNCHANGED <<timer, conns, robbed, at>>
    BY <1>2 DEF Bind, AddressInUse, terminalVars
  <2>3. Types'
    BY <2>1, <2>2 DEF Types, States
  <2>4. SingleInstance'
    <3>1. \A e \in Daemons : path # e
      BY <2>2, LifecycleAssumption DEF Daemons
    <3>2. \A e \in Daemons \ {d} : proc'[e] = proc[e]
      BY <2>1, <2>2
    <3> QED BY <2>2, <3>1, <3>2 DEF IInv, SingleInstance
  <2>5. IdleTimerExact'
    <3>1. \A e \in Daemons : Accepted(e)' = Accepted(e)
      BY <2>2 DEF Accepted
    <3>2. \A e \in Daemons : proc'[e] = "up" => proc[e] = "up"
      BY <2>1, <2>2
    <3> QED BY <2>2, <3>1, <3>2 DEF IInv, IdleTimerExact
  <2> QED BY <2>3, <2>4, <2>5 DEF IInv
<1> QED BY <1>1, <1>2

(* The step of a daemon that is running, and stays so, on its own          *)
(* connections: only its own timer is to be looked at.                     *)
LEMMA RunningSound ==
  ASSUME IInv, NEW d \in Daemons, NEW s \in Running, NEW b \in BOOLEAN,
         proc[d] \in Running, proc' = [proc EXCEPT ![d] = s],
         timer' = [timer EXCEPT ![d] = b],
         conns' \in Seq(ConnType),
         \A e \in Daemons \ {d} : Accepted(e)' = Accepted(e),
         b => Accepted(d)' = {},
         s = "up" /\ Accepted(d)' = {} => b,
         UNCHANGED <<path, robbed, at>>
  PROVE  IInv'
<1>1. /\ proc \in [Daemons -> States] /\ timer \in [Daemons -> BOOLEAN]
      /\ path \in Daemons \cup {Absent, Junk} /\ at \in AtType
  BY DEF IInv, Types
<1>2. s \in States
  BY DEF Running, States
<1>3. /\ proc' \in [Daemons -> States] /\ timer' \in [Daemons -> BOOLEAN]
      /\ proc'[d] = s /\ timer'[d] = b
      /\ \A e \in Daemons \ {d} : proc'[e] = proc[e] /\ timer'[e] = timer[e]
  BY <1>1, <1>2
<1>4. Types'
  BY <1>1, <1>3 DEF Types
<1>5. SingleInstance'
  BY <1>3 DEF IInv, SingleInstance
<1>6. IdleTimerExact'
  BY <1>3 DEF IInv, IdleTimerExact
<1> QED BY <1>4, <1>5, <1>6 DEF IInv

(* The callback of listen arms the timer only if nobody has connected by   *)
(* then.                                                                   *)
LEMMA ListeningSound ==
  ASSUME IInv, NEW d \in Daemons, Listening(d)
  PROVE  IInv'
<1> DEFINE n == Cardinality(Accepted(d))
           b == ArmedIdle(d, n)
<1>1. /\ conns \in Seq(ConnType) /\ timer \in [Daemons -> BOOLEAN]
      /\ timer[d] => Accepted(d) = {}
  BY DEF IInv, Types, IdleTimerExact
<1>2. n \in Nat /\ (n = 0 <=> Accepted(d) = {})
  BY <1>1, AcceptedFinite, FS_EmptySet
<1>3. b \in BOOLEAN /\ (b => Accepted(d) = {}) /\ (Accepted(d) = {} => b)
  <2>1. CASE n > 0
    <3>1. b = timer[d] /\ Accepted(d) # {}
      BY <1>2, <2>1 DEF ArmedIdle
    <3> QED BY <1>1, <3>1
  <2>2. CASE ~(n > 0)
    <3>1. b = TRUE /\ Accepted(d) = {}
      BY <1>2, <2>2 DEF ArmedIdle
    <3> QED BY <3>1
  <2> QED BY <2>1, <2>2
<1>4. SameAccepted
  BY SameConnections DEF Listening
<1>5. /\ proc[d] \in Running /\ "up" \in Running
      /\ proc' = [proc EXCEPT ![d] = "up"] /\ timer' = [timer EXCEPT ![d] = b]
      /\ UNCHANGED <<path, robbed, at>>
  BY DEF Listening, Running, terminalVars
<1> HIDE DEF b
<1>6. b => Accepted(d)' = {}
  BY <1>3, <1>4 DEF SameAccepted
<1>7. Accepted(d)' = {} => b
  BY <1>3, <1>4 DEF SameAccepted
<1> QED BY <1>3, <1>4, <1>5, <1>6, <1>7, RunningSound DEF SameAccepted

(* The event loop takes a connection and turns the timer off.              *)
LEMMA AcceptSound ==
  ASSUME IInv, NEW d \in Daemons, NEW i \in DOMAIN conns, Accept(d, i)
  PROVE  IInv'
<1> DEFINE c == [conns[i] EXCEPT !.stage = "accepted"]
<1>1. /\ conns \in Seq(ConnType) /\ proc \in [Daemons -> States]
      /\ timer \in [Daemons -> BOOLEAN] /\ conns[i] \in ConnType
  BY DEF IInv, Types
<1>2. /\ conns' = [conns EXCEPT ![i] = c] /\ c \in ConnType
      /\ c.to = d /\ c.stage = "accepted"
  BY <1>1 DEF Accept, ConnType
<1> HIDE DEF c
<1>3. /\ conns' \in Seq(ConnType) /\ DOMAIN conns' = DOMAIN conns
      /\ \A j \in DOMAIN conns : conns'[j] = IF j = i THEN c ELSE conns[j]
  BY <1>1, <1>2
<1>4. i \in Accepted(d)'
  BY <1>2, <1>3 DEF Accepted
<1>5. \A e \in Daemons \ {d} : Accepted(e)' = Accepted(e)
  BY <1>2, <1>3 DEF Accepted, Accept
<1>6. /\ proc[d] \in Running /\ proc' = [proc EXCEPT ![d] = proc[d]]
      /\ timer' = [timer EXCEPT ![d] = FALSE] /\ UNCHANGED <<path, robbed, at>>
  BY <1>1 DEF Accept, terminalVars
<1> QED BY <1>3, <1>4, <1>5, <1>6, RunningSound

(* The close of the last connection arms it again.                         *)
LEMMA ClosedSound ==
  ASSUME IInv, NEW d \in Daemons, NEW i \in DOMAIN conns, Closed(d, i)
  PROVE  IInv'
<1> DEFINE c == [conns[i] EXCEPT !.stage = "closed"]
           n == Cardinality(Accepted(d))
           b == ArmedIdle(d, n - 1)
<1>1. /\ conns \in Seq(ConnType) /\ proc \in [Daemons -> States]
      /\ timer \in [Daemons -> BOOLEAN] /\ conns[i] \in ConnType
      /\ i \in Accepted(d) /\ timer[d] = FALSE
  BY DEF IInv, Types, Closed, IdleTimerExact
<1>2. /\ conns' = [conns EXCEPT ![i] = c] /\ c \in ConnType
      /\ c.to = d /\ c.stage = "closed" /\ conns[i].to = d
  BY <1>1 DEF Closed, ConnType, Accepted
<1> HIDE DEF c
<1>3. /\ conns' \in Seq(ConnType) /\ DOMAIN conns' = DOMAIN conns
      /\ \A j \in DOMAIN conns : conns'[j] = IF j = i THEN c ELSE conns[j]
  BY <1>1, <1>2
<1>4. Accepted(d)' = Accepted(d) \ {i}
  BY <1>2, <1>3 DEF Accepted
<1>5. \A e \in Daemons \ {d} : Accepted(e)' = Accepted(e)
  BY <1>2, <1>3 DEF Accepted
<1>6. n \in Nat /\ (n - 1 = 0 <=> Accepted(d)' = {}) /\ n - 1 \in Nat
  <2>1. IsFiniteSet(Accepted(d)) /\ n \in Nat
    BY <1>1, AcceptedFinite
  <2>2. IsFiniteSet(Accepted(d) \ {i}) /\ Cardinality(Accepted(d) \ {i}) = n - 1
    BY <1>1, <2>1, FS_RemoveElement
  <2>3. n - 1 \in Nat
    BY <2>2, FS_CardinalityType
  <2> QED BY <1>4, <2>1, <2>2, <2>3, FS_EmptySet
<1>7. b \in BOOLEAN /\ (b => Accepted(d)' = {}) /\ (Accepted(d)' = {} => b)
  <2>1. CASE n - 1 > 0
    <3>1. b = FALSE /\ Accepted(d)' # {}
      BY <1>1, <1>6, <2>1 DEF ArmedIdle
    <3> QED BY <3>1
  <2>2. CASE ~(n - 1 > 0)
    <3>1. b = TRUE /\ Accepted(d)' = {}
      BY <1>6, <2>2 DEF ArmedIdle
    <3> QED BY <3>1
  <2> QED BY <2>1, <2>2
<1>8. /\ proc[d] \in Running /\ proc' = [proc EXCEPT ![d] = proc[d]]
      /\ timer' = [timer EXCEPT ![d] = b] /\ UNCHANGED <<path, robbed, at>>
  BY <1>1 DEF Closed, terminalVars
<1> HIDE DEF b
<1> QED BY <1>3, <1>5, <1>7, <1>8, RunningSound

(* Reading a line accepts nobody.                                          *)
LEMMA ReadLineSound ==
  ASSUME IInv, NEW d \in Daemons, NEW i \in DOMAIN conns, ReadLine(d, i)
  PROVE  IInv'
<1> DEFINE n == conns[i].read + 1
           c == [conns[i] EXCEPT !.read = n]
<1>1. conns \in Seq(ConnType) /\ conns[i] \in ConnType /\ at \in AtType
  BY DEF IInv, Types
<1>2. conns' = [conns EXCEPT ![i] = c]
  BY <1>1 DEF ReadLine
<1>n. n \in Nat
  BY <1>1 DEF ConnType
<1> HIDE DEF n
<1>3. c \in ConnType /\ c.to = conns[i].to /\ c.stage = conns[i].stage
  BY <1>1, <1>n DEF ConnType
<1> HIDE DEF c
<1>4. SameAccepted
  BY <1>1, <1>2, <1>3, UpdateKeeps
<1> QED BY <1>1, <1>4, QuietSound DEF ReadLine, PathStep, terminalVars

(* Connections reset with a listener or a process: the daemon's own may be *)
(* among those lost, nobody else's.                                        *)
LEMMA ResetAccepted ==
  ASSUME IInv, NEW d \in Daemons, NEW stages, conns' = ResetStages(d, stages)
  PROVE  /\ conns' \in Seq(ConnType)
         /\ \A e \in Daemons : Accepted(e)' \subseteq Accepted(e)
         /\ \A e \in Daemons \ {d} : Accepted(e)' = Accepted(e)
<1>1. conns \in Seq(ConnType)
  BY DEF IInv, Types
<1> QED BY <1>1, ResetKeeps DEF Accepted

(* The idle exit, SIGTERM and the crash.                                   *)
LEMMA EndSound ==
  ASSUME IInv, NEW d \in Daemons, NEW s \in {"closing", "dead"}, NEW stages,
         proc' = [proc EXCEPT ![d] = s], conns' = ResetStages(d, stages),
         timer' = timer \/ timer' = [timer EXCEPT ![d] = FALSE],
         PathStep, UNCHANGED at
  PROVE  IInv'
<1>1. s \in States \ Running
  BY DEF States, Running
<1>2. at' \in AtType
  BY DEF IInv, Types
<1> QED BY <1>1, <1>2, ResetAccepted, NotRunningSound

(* Every step of a daemon, from its probe to its end.                      *)
LEMMA DaemonSound ==
  ASSUME IInv, NEW d \in Daemons, Daemon(d) \/ Crash(d)
  PROVE  IInv'
<1>1. \A s \in {"bind", "unlink", "raced", "dead", "probe"} : s \in States \ Running
  BY DEF States, Running
<1>2. CASE Probe(d)
  BY <1>1, <1>2, FindsAliveSound, GoesSound DEF Probe
<1>3. CASE UnlinkStale(d)
  <2>1. CASE path = Absent
    BY <1>1, <1>3, <2>1, GoesSound DEF UnlinkStale
  <2>2. CASE path # Absent
    <3>1. /\ Remove(d) /\ proc' = [proc EXCEPT ![d] = "bind"]
          /\ UNCHANGED <<timer, conns, at>>
      BY <1>3, <2>2 DEF UnlinkStale, terminalVars
    <3>2. SameAccepted /\ PathStep /\ at' \in AtType
      BY <3>1, SameConnections DEF PathStep, IInv, Types
    <3> QED BY <1>1, <3>1, <3>2, NotRunningSound DEF SameAccepted
  <2> QED BY <2>1, <2>2
<1>4. CASE Bind(d)
  BY <1>4, BindSound
<1>5. CASE Raced(d)
  BY <1>1, <1>5, FindsAliveSound, GoesSound DEF Raced
<1>6. CASE Listening(d)
  BY <1>6, ListeningSound
<1>7. CASE IdleFires(d)
  BY <1>7, EndSound DEF IdleFires, CloseServer, PathStep, terminalVars
<1>8. CASE Stop(d)
  <2>1. PathStep
    BY <1>8 DEF Stop, PathStep
  <2> QED BY <1>8, <2>1, EndSound DEF Stop, terminalVars
<1>9. CASE Crash(d)
  BY <1>9, EndSound DEF Crash, PathStep, terminalVars
<1>10. CASE \E i \in DOMAIN conns : Accept(d, i) \/ ReadLine(d, i) \/ Closed(d, i)
  BY <1>10, AcceptSound, ReadLineSound, ClosedSound
<1> QED BY <1>2, <1>3, <1>4, <1>5, <1>6, <1>7, <1>8, <1>9, <1>10 DEF Daemon

-----------------------------------------------------------------------------
(* Where a terminal is in its dispatch stays typed.                        *)
LEMMA AtSteps ==
  ASSUME at \in AtType, NEW t \in Terminals
  PROVE  /\ \A step \in {"idle", "connect", "retry", "line", "newline"} :
              [at EXCEPT ![t].step = step] \in AtType
         /\ [at EXCEPT ![t].step = "connect", ![t].attempt = 2] \in AtType
         /\ \A r \in Requests :
              [at EXCEPT ![t] = [step |-> "connect", request |-> r, attempt |-> 1]] \in AtType
         /\ [at EXCEPT ![t] = Idle] \in AtType
         /\ at[t].request \in Lines
<1> DEFINE Place == [step : {"idle", "connect", "retry", "line", "newline"},
                     request : Requests \cup {Nobody}, attempt : Nat]
<1>1. at[t] \in Place
  BY DEF AtType
<1>2. ASSUME NEW p \in Place PROVE [at EXCEPT ![t] = p] \in AtType
  BY <1>2 DEF AtType
<1>3. \A step \in {"idle", "connect", "retry", "line", "newline"} :
         [at EXCEPT ![t].step = step] \in AtType
  <2> SUFFICES ASSUME NEW step \in {"idle", "connect", "retry", "line", "newline"}
               PROVE  [at EXCEPT ![t].step = step] \in AtType
    OBVIOUS
  <2>1. [at[t] EXCEPT !.step = step] \in Place
    BY <1>1
  <2>2. [at EXCEPT ![t].step = step] = [at EXCEPT ![t] = [at[t] EXCEPT !.step = step]]
    BY DEF AtType
  <2> HIDE DEF Place
  <2> QED BY <1>2, <2>1, <2>2
<1>4. [at EXCEPT ![t].step = "connect", ![t].attempt = 2] \in AtType
  <2> DEFINE p == [at[t] EXCEPT !.step = "connect", !.attempt = 2]
  <2>1. p \in Place
    BY <1>1
  <2>2. [at EXCEPT ![t].step = "connect", ![t].attempt = 2] = [at EXCEPT ![t] = p]
    BY DEF AtType
  <2> HIDE DEF Place, p
  <2> QED BY <1>2, <2>1, <2>2
<1>5. \A r \in Requests :
        [at EXCEPT ![t] = [step |-> "connect", request |-> r, attempt |-> 1]] \in AtType
  BY <1>2
<1>6. [at EXCEPT ![t] = Idle] \in AtType
  BY <1>2 DEF Idle
<1>7. at[t].request \in Lines
  BY <1>1 DEF Lines, Requests
<1> QED BY <1>3, <1>4, <1>5, <1>6, <1>7

(* A client that hangs up changes nothing a daemon has accepted.           *)
LEMMA DroppedKeeps ==
  ASSUME conns \in Seq(ConnType), NEW j, conns' = Dropped(j)
  PROVE  SameAccepted
<1> DEFINE c == [conns[j] EXCEPT !.open = FALSE]
<1>1. conns' = [conns EXCEPT ![j] = c]
  BY DEF Dropped
<1>2. j \in DOMAIN conns => c \in ConnType /\ c.to = conns[j].to /\ c.stage = conns[j].stage
  <2>1. j \in DOMAIN conns => conns[j] \in ConnType
    OBVIOUS
  <2> QED BY <2>1 DEF ConnType
<1> HIDE DEF c
<1> QED BY <1>1, <1>2, UpdateKeeps

(* A terminal connects and says hello.                                     *)
LEMMA ConnectSound ==
  ASSUME IInv, NEW t \in Terminals, Connect(t)
  PROVE  IInv'
<1>1. conns \in Seq(ConnType) /\ at \in AtType
  BY DEF IInv, Types
<1>2. SameAccepted
  BY <1>1, FirstLines, ConnectionType, AppendKeeps DEF Connect
<1>3. at' \in AtType
  BY <1>1, AtSteps DEF Connect, Moves, Settles
<1> QED BY <1>2, <1>3, QuietSound DEF Connect, PathStep

(* A terminal writes its question.                                         *)
LEMMA SendSound ==
  ASSUME IInv, NEW t \in Terminals, SendFails(t) \/ SendLine(t) \/ SendNewline(t)
  PROVE  IInv'
<1>1. conns \in Seq(ConnType) /\ at \in AtType
  BY DEF IInv, Types
<1>2. CASE SendFails(t)
  <2>1. SameAccepted
    BY <1>1, <1>2, DroppedKeeps DEF SendFails
  <2>2. at' \in AtType
    BY <1>1, <1>2, AtSteps DEF SendFails, Settles
  <2> QED BY <1>2, <2>1, <2>2, QuietSound DEF SendFails, PathStep
<1>3. CASE SendLine(t)
  <2>1. SameAccepted /\ at' \in AtType
    BY <1>1, <1>3, AtSteps, SameConnections DEF SendLine, Moves
  <2> QED BY <1>3, <2>1, QuietSound DEF SendLine, PathStep
<1>4. CASE SendNewline(t)
  <2> DEFINE j == held[t]
             w == Append(conns[j].wrote, at[t].request)
             c == [conns[j] EXCEPT !.wrote = w]
  <2>1. conns' = [conns EXCEPT ![j] = c]
    BY <1>4 DEF SendNewline
  <2>2. j \in DOMAIN conns => conns[j] \in ConnType
    BY <1>1
  <2>3. j \in DOMAIN conns => w \in Seq(Lines)
    <3>1. at[t].request \in Lines
      BY <1>1, AtSteps
    <3>2. j \in DOMAIN conns => conns[j].wrote \in Seq(Lines)
      BY <2>2 DEF ConnType
    <3> QED BY <3>1, <3>2
  <2> HIDE DEF w
  <2>4. j \in DOMAIN conns => c \in ConnType /\ c.to = conns[j].to /\ c.stage = conns[j].stage
    BY <2>2, <2>3 DEF ConnType
  <2> HIDE DEF c, j
  <2>5. SameAccepted
    BY <1>1, <2>1, <2>4, UpdateKeeps
  <2>6. at' \in AtType
    BY <1>1, <1>4, AtSteps DEF SendNewline, Settles
  <2> QED BY <1>4, <2>5, <2>6, QuietSound DEF SendNewline, PathStep
<1> QED BY <1>2, <1>3, <1>4

(* A process that is started is not running yet.                           *)
LEMMA SpawnedSound ==
  ASSUME IInv, NEW d \in Daemons, Spawned(d), SameAccepted, UNCHANGED <<timer, path, robbed>>,
         at' \in AtType
  PROVE  IInv'
<1>1. "probe" \in States \ Running
  BY DEF States, Running
<1> QED BY <1>1, NotRunningSound DEF Spawned, SameAccepted, PathStep

(* Every step of a terminal.                                               *)
LEMMA TerminalSound ==
  ASSUME IInv, NEW t \in Terminals,
         \/ Dispatch(t) \/ DropDead(t) \/ Leave(t) \/ CoolsDown(t)
         \/ \E r \in Requests : Ask(t, r)
  PROVE  IInv'
<1>1. conns \in Seq(ConnType) /\ at \in AtType
  BY DEF IInv, Types
<1>2. CASE (\E r \in Requests : Ask(t, r)) \/ Reuse(t) \/ GiveUp(t) \/ CoolsDown(t)
  <2>1. SameAccepted
    BY <1>2, SameConnections DEF Ask, Reuse, GiveUp, CoolsDown
  <2>2. at' \in AtType
    <3>1. CASE \E r \in Requests : Ask(t, r)
      <4>1. PICK r \in Requests : Ask(t, r)
        BY <3>1
      <4>2. at' = [at EXCEPT ![t] = [step |-> "connect", request |-> r, attempt |-> 1]]
        BY <4>1 DEF Ask
      <4> QED BY <1>1, <4>2, AtSteps
    <3>2. CASE Reuse(t) \/ GiveUp(t)
      BY <1>1, <3>2, AtSteps DEF Reuse, GiveUp, Moves, Settles
    <3>3. CASE CoolsDown(t)
      BY <1>1, <3>3 DEF CoolsDown
    <3> QED BY <1>2, <3>1, <3>2, <3>3
  <2> QED BY <1>2, <2>1, <2>2, QuietSound DEF Ask, Reuse, GiveUp, CoolsDown, PathStep
<1>3. CASE DropDead(t) \/ Leave(t)
  <2>1. SameAccepted
    BY <1>1, <1>3, DroppedKeeps DEF DropDead, Leave
  <2>2. at' \in AtType
    BY <1>1, <1>3 DEF DropDead, Leave
  <2> QED BY <1>3, <2>1, <2>2, QuietSound DEF DropDead, Leave, PathStep
<1>4. CASE Spawn(t)
  <2>1. SameAccepted
    BY <1>4, SameConnections DEF Spawn
  <2>2. at' \in AtType
    BY <1>1, <1>4, AtSteps DEF Spawn, Moves, Settles
  <2>3. CASE \E d \in Unborn : Spawned(d)
    BY <1>4, <2>1, <2>2, <2>3, SpawnedSound DEF Spawn, Unborn
  <2>4. CASE UNCHANGED proc
    BY <1>4, <2>1, <2>2, <2>4, QuietSound DEF Spawn, PathStep
  <2> QED BY <1>4, <2>3, <2>4 DEF Spawn
<1> QED BY <1>2, <1>3, <1>4, ConnectSound, SendSound DEF Dispatch

(* Every step of the stop, status and start commands.                      *)
LEMMA CliSound ==
  ASSUME IInv, Cli
  PROVE  IInv'
<1>1. conns \in Seq(ConnType) /\ at \in AtType /\ at' \in AtType
  BY DEF IInv, Types, Cli, CliStop, CliRemoveStale, CliSignal, CliGone, CliStatus, CliStart,
         terminalVars
<1>2. CASE CliStop \/ CliStatus
  <2>1. SameAccepted
    <3>1. CASE UNCHANGED conns
      BY <3>1, SameConnections
    <3>2. CASE ~UNCHANGED conns
      <4>1. 0 \in Terminals \cup Nat
        OBVIOUS
      <4> QED BY <1>1, <1>2, <3>2, <4>1, FirstLines, ConnectionType, AppendKeeps
              DEF CliStop, CliStatus
    <3> QED BY <3>1, <3>2
  <2> QED BY <1>1, <1>2, <2>1, QuietSound DEF CliStop, CliStatus, PathStep
<1>3. CASE CliRemoveStale
  <2>1. SameAccepted
    BY <1>3, SameConnections DEF CliRemoveStale
  <2>2. PathStep
    BY <1>3 DEF CliRemoveStale, PathStep
  <2> QED BY <1>1, <1>3, <2>1, <2>2, QuietSound DEF CliRemoveStale
<1>4. CASE CliSignal
  <2> DEFINE i == cli.about
             d == conns[i].to
             R == ResetStages(d, {"backlog"})
  <2>1. CASE conns[i].read = 1 /\ proc[d] \in Running
    <3>1. /\ proc' = [proc EXCEPT ![d] = "closing"] /\ timer' = [timer EXCEPT ![d] = FALSE]
          /\ conns' = [R EXCEPT ![i].open = FALSE]
          /\ UNCHANGED <<path, robbed>>
      BY <1>4, <2>1 DEF CliSignal
    <3>2. R \in Seq(ConnType) /\ DOMAIN R = DOMAIN conns
      BY <1>1, ResetKeeps
    <3>3. \A j \in DOMAIN conns :
            /\ R[j].to = conns[j].to
            /\ conns[j].stage = "backlog" /\ conns[j].to = d => R[j].stage = "reset"
            /\ ~(conns[j].stage = "backlog" /\ conns[j].to = d) => R[j] = conns[j]
      BY <1>1, ResetKeeps
    <3> HIDE DEF R
    <3>4. /\ conns' \in Seq(ConnType) /\ DOMAIN conns' = DOMAIN conns
          /\ \A j \in DOMAIN conns :
               conns'[j].to = R[j].to /\ conns'[j].stage = R[j].stage
      <4> DEFINE c == [R[i] EXCEPT !.open = FALSE]
      <4>1. conns' = [R EXCEPT ![i] = c]
        BY <3>1
      <4>2. i \in DOMAIN R => c \in ConnType /\ c.to = R[i].to /\ c.stage = R[i].stage
        <5>1. i \in DOMAIN R => R[i] \in ConnType
          BY <3>2
        <5> QED BY <5>1 DEF ConnType
      <4> HIDE DEF c
      <4>3. CASE i \in DOMAIN R
        BY <3>2, <4>1, <4>2, <4>3
      <4>4. CASE i \notin DOMAIN R
        <5>1. \A j \in DOMAIN R : conns'[j] = R[j]
          BY <3>2, <4>1, <4>4
        <5>2. conns' = R
          BY <3>2, <4>1, <5>1
        <5> QED BY <3>2, <5>2
      <4> QED BY <4>3, <4>4
    <3>5. \A e \in Daemons : Accepted(e)' = Accepted(e)
      BY <3>3, <3>4 DEF Accepted
    <3>6. CASE d \in Daemons
      <4>1. "closing" \in States \ Running
        BY DEF States, Running
      <4> QED BY <1>1, <3>1, <3>4, <3>5, <3>6, <4>1, NotRunningSound DEF PathStep
    <3>7. CASE d \notin Daemons
      <4>1. proc' = proc /\ timer' = timer
        BY <3>1, <3>7 DEF IInv, Types
      <4> QED BY <1>1, <3>1, <3>4, <3>5, <4>1, QuietSound DEF SameAccepted, PathStep
    <3> QED BY <3>6, <3>7
  <2>2. CASE ~(conns[i].read = 1 /\ proc[d] \in Running)
    <3>1. SameAccepted
      BY <1>1, <1>4, <2>2, DroppedKeeps DEF CliSignal
    <3> QED BY <1>1, <1>4, <2>2, <3>1, QuietSound DEF CliSignal, PathStep
  <2> QED BY <2>1, <2>2
<1>5. CASE CliGone \/ CliStart
  <2>1. SameAccepted
    BY <1>5, SameConnections DEF CliGone, CliStart
  <2>2. CASE \E d \in Unborn : Spawned(d)
    BY <1>1, <1>5, <2>1, <2>2, SpawnedSound DEF CliGone, CliStart, Unborn
  <2>3. CASE UNCHANGED proc
    BY <1>1, <1>5, <2>1, <2>3, QuietSound DEF CliGone, CliStart, PathStep
  <2> QED BY <1>5, <2>2, <2>3 DEF CliGone, CliStart
<1> QED BY <1>2, <1>3, <1>4, <1>5 DEF Cli

-----------------------------------------------------------------------------
(* Nothing has been started.                                               *)
LEMMA InitInvariant == Init => IInv
<1> SUFFICES ASSUME Init PROVE IInv
  OBVIOUS
<1>1. conns = << >> /\ conns \in Seq(ConnType)
  BY DEF Init
<1>2. at \in AtType
  BY DEF Init, AtType, Idle
<1>3. Types
  BY <1>1, <1>2 DEF Init, Types, States
<1>4. \A d \in Daemons : Accepted(d) = {} /\ proc[d] = "unborn" /\ timer[d] = FALSE
  BY <1>1 DEF Init, Accepted
<1>5. SingleInstance /\ IdleTimerExact
  BY <1>4 DEF SingleInstance, IdleTimerExact, Running
<1> QED BY <1>3, <1>5 DEF IInv

(* The parts together: IInv is inductive.                                  *)
LEMMA StepInvariant == IInv /\ [Next]_vars => IInv'
<1> SUFFICES ASSUME IInv, [Next]_vars PROVE IInv'
  OBVIOUS
<1>1. CASE \E d \in Daemons : Daemon(d) \/ Crash(d)
  BY <1>1, DaemonSound
<1>2. CASE \/ \E t \in Terminals : Dispatch(t) \/ DropDead(t) \/ Leave(t) \/ CoolsDown(t)
           \/ \E t \in Terminals, r \in Requests : Ask(t, r)
  BY <1>2, TerminalSound
<1>3. CASE Cli
  BY <1>3, CliSound
<1>4. CASE UNCHANGED vars
  <2>1. SameAccepted /\ PathStep /\ UNCHANGED <<proc, timer>> /\ at' \in AtType
    BY <1>4, SameConnections DEF vars, PathStep, IInv, Types
  <2> QED BY <2>1, QuietSound
<1> QED BY <1>1, <1>2, <1>3, <1>4 DEF Next

(* However many daemons are started together, and whatever crashes, exits  *)
(* or is stopped meanwhile, a daemon that runs (index.ts: probe, unlink,   *)
(* bind) is the one terminals reach, unless its socket was unlinked.       *)
THEOREM OneInstanceAlways == Spec => []SingleInstance
<1>1. IInv => SingleInstance
  BY DEF IInv
<1> QED BY <1>1, InitInvariant, StepInvariant, PTL DEF Spec

(* The idle timer of server.ts never runs under a terminal that is         *)
(* attached, and always runs when none is, for any number of connections   *)
(* that come, go or are reset in any order.                                *)
THEOREM IdleTimerAlwaysExact == Spec => []IdleTimerExact
<1>1. IInv => IdleTimerExact
  BY DEF IInv
<1> QED BY <1>1, InitInvariant, StepInvariant, PTL DEF Spec

-----------------------------------------------------------------------------
(* Questions, from the terminal to the daemon and back to its user.        *)

Places == [step : {"idle", "connect", "retry", "line", "newline"},
           request : Requests \cup {Nobody}, attempt : Nat]
CliType == [step : {"idle", "query", "stale", "gone"}, about : Nat \cup {Nobody}]
Told == {"unasked", "asking", "sent", "unavailable"}

(* What a client wrote on one connection: a hello and questions, or the    *)
(* status request of the command alone, or nothing.                        *)
Wire(c) ==
  /\ c.read <= Len(c.wrote)
  /\ Len(c.wrote) > 0 => c.wrote[1] \in {Hello, StatusRequest}
  /\ Len(c.wrote) > 1 => c.wrote[1] = Hello

Wires(C) == C \in Seq(ConnType) /\ \A i \in DOMAIN C : Wire(C[i])

(* Question r is line k of connection i.                                   *)
On(C, i, k, r) == i \in DOMAIN C /\ k \in DOMAIN C[i].wrote /\ C[i].wrote[k] = r

(* A question is written in one place at most, and then its user was told  *)
(* that it was sent.                                                       *)
Delivered(C, T) ==
  \A r \in Requests : \A i, j, k, l :
    On(C, i, k, r) => /\ T[r] = "sent"
                      /\ On(C, j, l, r) => i = j /\ k = l

(* A terminal at place a of its dispatch that holds connection h: what it  *)
(* holds said hello and nothing else if it was made for the second         *)
(* attempt.                                                                *)
Stands(C, h, a, T) ==
  /\ a.step = "idle" => a = Idle
  /\ a.step # "idle" =>
       a.request \in Requests /\ T[a.request] = "asking" /\ a.attempt \in {1, 2}
  /\ a.step = "retry" => h = Nobody
  /\ a.step = "connect" /\ a.attempt = 2 => h = Nobody
  /\ a.step \in {"line", "newline"} => h # Nobody
  /\ h # Nobody => /\ h \in DOMAIN C /\ Len(C[h].wrote) > 0 /\ C[h].wrote[1] = Hello
                   /\ a.attempt = 2 => C[h].wrote = <<Hello>>

(* Two terminals share neither a connection nor a question.                *)
Apart(H, A) ==
  \A t, u \in Terminals :
    t # u => /\ H[t] = H[u] => H[t] = Nobody
             /\ A[t].request = A[u].request => A[t].step = "idle"

(* Open is what a terminal or the command holds, and they share nothing.   *)
Opened(C, H, Q) ==
  /\ Q.step = "query" => /\ Q.about \in DOMAIN C
                         /\ \A t \in Terminals : H[t] # Q.about
  /\ Q.step # "query" => Q.about = Nobody
  /\ \A i \in DOMAIN C :
       C[i].open <=> (\E t \in Terminals : H[t] = i) \/ Q = [step |-> "query", about |-> i]

(* Connections C, what terminals hold H, where they are A, what users were *)
(* told T and the command Q agree with each other.                         *)
Tidy(C, H, A, T, Q) ==
  /\ H \in [Terminals -> Nat \cup {Nobody}]
  /\ A \in [Terminals -> Places]
  /\ T \in [Requests -> Told]
  /\ Q \in CliType
  /\ Wires(C)
  /\ Delivered(C, T)
  /\ \A t \in Terminals : Stands(C, H[t], A[t], T)
  /\ Apart(H, A)
  /\ Opened(C, H, Q)

Agreed == Tidy(conns, held, at, told, cli)

Limits ==
  /\ plan \in Plans /\ cooling \in [Terminals -> BOOLEAN]
  /\ crashes \in 0..MaxCrashes /\ commands \in 0..MaxCli
  /\ robbed \subseteq (0..MaxDaemons) \X Daemons

RInv == IInv /\ Agreed /\ Limits

-----------------------------------------------------------------------------
(* What one step of a party does to Tidy *)

(* A question is neither the hello, the status request nor the absent      *)
(* one.                                                                    *)
LEMMA NobodyApart ==
  /\ Nobody \notin Nat
  /\ \A r \in Requests : r \in Nat /\ r # Hello /\ r # StatusRequest /\ r # Nobody
BY LifecycleAssumption DEF Requests, Hello, StatusRequest

(* Where a terminal is between questions.                                  *)
LEMMA IdlePlace ==
  Idle \in Places /\ Idle.step = "idle" /\ Idle.request = Nobody /\ Idle.attempt = 0
BY DEF Idle, Places

(* A terminal moves on in its dispatch.                                    *)
LEMMA MoveTidy ==
  ASSUME NEW C, NEW H, NEW A, NEW T, NEW Q, Tidy(C, H, A, T, Q),
         NEW t \in Terminals, NEW p \in Places,
         Stands(C, H[t], p, T),
         p.request = A[t].request, A[t].step # "idle"
  PROVE  Tidy(C, H, [A EXCEPT ![t] = p], T, Q)
<1> DEFINE B == [A EXCEPT ![t] = p]
<1>1. B \in [Terminals -> Places] /\ B[t] = p /\ \A u \in Terminals \ {t} : B[u] = A[u]
  BY DEF Tidy
<1> HIDE DEF B
<1>2. \A u \in Terminals : Stands(C, H[u], B[u], T)
  BY <1>1 DEF Tidy
<1>3. Apart(H, B)
  <2> SUFFICES ASSUME NEW u \in Terminals, NEW v \in Terminals, u # v
               PROVE  /\ H[u] = H[v] => H[u] = Nobody
                      /\ B[u].request = B[v].request => B[u].step = "idle"
    BY DEF Apart
  <2>1. /\ H[u] = H[v] => H[u] = Nobody
        /\ A[u].request = A[v].request => A[u].step = "idle"
        /\ A[u].request = A[v].request => A[v].step = "idle"
    BY DEF Tidy, Apart
  <2> QED BY <1>1, <2>1
<1> QED BY <1>1, <1>2, <1>3 DEF Tidy, B

(* A question is settled: its terminal is idle and its user told.          *)
LEMMA SettleTidy ==
  ASSUME NEW C, NEW H, NEW A, NEW T, NEW Q, Tidy(C, H, A, T, Q),
         NEW t \in Terminals, A[t].step # "idle", NEW answer \in Told
  PROVE  Tidy(C, H, [A EXCEPT ![t] = Idle], [T EXCEPT ![A[t].request] = answer], Q)
<1> DEFINE r == A[t].request
           B == [A EXCEPT ![t] = Idle]
           U == [T EXCEPT ![r] = answer]
<1>1. r \in Requests /\ T[r] = "asking"
  BY DEF Tidy, Stands
<1>2. B \in [Terminals -> Places] /\ B[t] = Idle /\ \A u \in Terminals \ {t} : B[u] = A[u]
  BY IdlePlace DEF Tidy
<1>3. U \in [Requests -> Told] /\ \A q \in Requests \ {r} : U[q] = T[q]
  BY DEF Tidy
<1> HIDE DEF B, U
<1>4. \A u \in Terminals : Stands(C, H[u], B[u], U)
  <2> SUFFICES ASSUME NEW u \in Terminals PROVE Stands(C, H[u], B[u], U)
    OBVIOUS
  <2>1. Stands(C, H[u], A[u], T)
    BY DEF Tidy
  <2>2. CASE u = t
    BY <1>2, <2>1, <2>2, IdlePlace DEF Stands
  <2>3. CASE u # t
    <3>1. A[u].request = r => A[u].step = "idle"
      BY <2>3 DEF Tidy, Apart
    <3> QED BY <1>2, <1>3, <2>1, <2>3, <3>1 DEF Stands
  <2> QED BY <2>2, <2>3
<1>5. Apart(H, B)
  <2> SUFFICES ASSUME NEW u \in Terminals, NEW v \in Terminals, u # v
               PROVE  /\ H[u] = H[v] => H[u] = Nobody
                      /\ B[u].request = B[v].request => B[u].step = "idle"
    BY DEF Apart
  <2>1. /\ H[u] = H[v] => H[u] = Nobody
        /\ A[u].request = A[v].request => A[u].step = "idle"
        /\ A[u].step # "idle" => A[u].request # Nobody
    BY NobodyApart DEF Tidy, Apart, Stands
  <2> QED BY <1>2, <2>1, IdlePlace
<1>6. Delivered(C, U)
  <2> SUFFICES ASSUME NEW q \in Requests, NEW i, NEW j, NEW k, NEW l, On(C, i, k, q)
               PROVE  U[q] = "sent" /\ (On(C, j, l, q) => i = j /\ k = l)
    BY DEF Delivered
  <2>1. T[q] = "sent" /\ (On(C, j, l, q) => i = j /\ k = l)
    BY DEF Tidy, Delivered
  <2> QED BY <1>1, <1>3, <2>1
<1> QED BY <1>2, <1>3, <1>4, <1>5, <1>6 DEF Tidy, B, U

(* A question fires.                                                       *)
LEMMA AskTidy ==
  ASSUME NEW C, NEW H, NEW A, NEW T, NEW Q, Tidy(C, H, A, T, Q),
         NEW t \in Terminals, A[t] = Idle, NEW r \in Requests, T[r] = "unasked"
  PROVE  Tidy(C, H, [A EXCEPT ![t] = [step |-> "connect", request |-> r, attempt |-> 1]],
              [T EXCEPT ![r] = "asking"], Q)
<1> DEFINE p == [step |-> "connect", request |-> r, attempt |-> 1]
           B == [A EXCEPT ![t] = p]
           U == [T EXCEPT ![r] = "asking"]
<1>1. p \in Places
  BY DEF Places
<1>2. B \in [Terminals -> Places] /\ B[t] = p /\ \A u \in Terminals \ {t} : B[u] = A[u]
  BY <1>1 DEF Tidy
<1>3. U \in [Requests -> Told] /\ U[r] = "asking" /\ \A q \in Requests \ {r} : U[q] = T[q]
  BY DEF Tidy, Told
<1>4. \A u \in Terminals : A[u].step # "idle" => A[u].request # r
  BY DEF Tidy, Stands
<1> HIDE DEF B, U
<1>5. \A u \in Terminals : Stands(C, H[u], B[u], U)
  <2> SUFFICES ASSUME NEW u \in Terminals PROVE Stands(C, H[u], B[u], U)
    OBVIOUS
  <2>1. Stands(C, H[u], A[u], T)
    BY DEF Tidy
  <2>2. CASE u = t
    BY <1>2, <1>3, <2>1, <2>2 DEF Stands
  <2>3. CASE u # t
    BY <1>2, <1>3, <1>4, <2>1, <2>3 DEF Stands
  <2> QED BY <2>2, <2>3
<1>6. Apart(H, B)
  <2> SUFFICES ASSUME NEW u \in Terminals, NEW v \in Terminals, u # v
               PROVE  /\ H[u] = H[v] => H[u] = Nobody
                      /\ B[u].request = B[v].request => B[u].step = "idle"
    BY DEF Apart
  <2>1. /\ H[u] = H[v] => H[u] = Nobody
        /\ A[u].request = A[v].request => A[u].step = "idle"
        /\ A[v].step = "idle" => A[v].request = Nobody
    BY IdlePlace DEF Tidy, Apart, Stands
  <2> QED BY <1>2, <1>4, <2>1, NobodyApart
<1>7. Delivered(C, U)
  <2> SUFFICES ASSUME NEW q \in Requests, NEW i, NEW j, NEW k, NEW l, On(C, i, k, q)
               PROVE  U[q] = "sent" /\ (On(C, j, l, q) => i = j /\ k = l)
    BY DEF Delivered
  <2>1. T[q] = "sent" /\ (On(C, j, l, q) => i = j /\ k = l)
    BY DEF Tidy, Delivered
  <2> QED BY <1>3, <2>1
<1> QED BY <1>2, <1>3, <1>5, <1>6, <1>7 DEF Tidy, B, U

(* Connections are made, read, reset, accepted and closed without a change *)
(* to what was written on them or who holds them.                          *)
LEMMA SameTidy ==
  ASSUME NEW C, NEW H, NEW A, NEW T, NEW Q, Tidy(C, H, A, T, Q),
         NEW D \in Seq(ConnType), DOMAIN D = DOMAIN C,
         \A i \in DOMAIN C : /\ D[i].wrote = C[i].wrote /\ D[i].open = C[i].open
                             /\ D[i].read <= Len(D[i].wrote)
  PROVE  Tidy(D, H, A, T, Q)
<1>1. Wires(D)
  BY DEF Tidy, Wires, Wire
<1>2. \A i, k, r : On(D, i, k, r) <=> On(C, i, k, r)
  BY DEF On
<1>3. Delivered(D, T)
  BY <1>2 DEF Tidy, Delivered
<1>4. \A t \in Terminals : Stands(D, H[t], A[t], T)
  BY DEF Tidy, Stands
<1>5. Opened(D, H, Q)
  BY DEF Tidy, Opened
<1> QED BY <1>1, <1>3, <1>4, <1>5 DEF Tidy

(* A sequence with one more element.                                       *)
LEMMA Appended ==
  ASSUME NEW S, NEW C \in Seq(S), NEW c \in S
  PROVE  /\ Append(C, c) \in Seq(S) /\ Len(C) \in Nat /\ Len(C) + 1 \in Nat
         /\ Len(C) + 1 \notin DOMAIN C
         /\ DOMAIN Append(C, c) = DOMAIN C \cup {Len(C) + 1}
         /\ Len(Append(C, c)) = Len(C) + 1
         /\ \A i \in DOMAIN C : Append(C, c)[i] = C[i]
         /\ Append(C, c)[Len(C) + 1] = c
OBVIOUS

(* A connection on which at most the first line was written.               *)
First(c) ==
  /\ c \in ConnType /\ c.read = 0
  /\ c.wrote \in {<< >>, <<Hello>>, <<StatusRequest>>}

(* Such a connection is well formed.                                       *)
LEMMA FirstWire ==
  ASSUME NEW c, First(c)
  PROVE  /\ Wire(c) /\ \A k \in DOMAIN c.wrote : c.wrote[k] \notin Requests
<1>1. CASE c.wrote = << >>
  BY <1>1 DEF First, Wire
<1>2. ASSUME NEW line \in {Hello, StatusRequest}, c.wrote = <<line>>
      PROVE  Wire(c) /\ \A k \in DOMAIN c.wrote : c.wrote[k] \notin Requests
  <2>1. Len(c.wrote) = 1 /\ DOMAIN c.wrote = {1} /\ c.wrote[1] = line
    BY <1>2
  <2> QED BY <1>2, <2>1, NobodyApart DEF First, Wire
<1> QED BY <1>1, <1>2 DEF First

(* What a new connection leaves alone.                                     *)
LEMMA NewTidy ==
  ASSUME NEW C, NEW H, NEW A, NEW T, NEW Q, Tidy(C, H, A, T, Q), NEW c, First(c)
  PROVE  LET D == Append(C, c)
         IN /\ Wires(D) /\ Delivered(D, T)
            /\ \A t \in Terminals : Stands(D, H[t], A[t], T)
<1> DEFINE D == Append(C, c)
<1>1. C \in Seq(ConnType) /\ c \in ConnType
  BY DEF Tidy, Wires, First
<1>2. /\ D \in Seq(ConnType) /\ DOMAIN D = DOMAIN C \cup {Len(C) + 1}
      /\ \A i \in DOMAIN C : D[i] = C[i]
      /\ D[Len(C) + 1] = c /\ Len(C) + 1 \notin DOMAIN C
  BY <1>1, Appended
<1> HIDE DEF D
<1>3. Wires(D)
  BY <1>2, FirstWire DEF Tidy, Wires
<1>4. \A r \in Requests : \A i, k : On(D, i, k, r) <=> On(C, i, k, r)
  BY <1>2, FirstWire DEF On
<1>5. Delivered(D, T)
  BY <1>4 DEF Tidy, Delivered
<1>6. \A t \in Terminals : Stands(D, H[t], A[t], T)
  BY <1>2 DEF Tidy, Stands
<1> QED BY <1>3, <1>5, <1>6 DEF D

(* A connection nobody holds: a probe's, the status command's, one that    *)
(* could not be set up.                                                    *)
LEMMA ProbedTidy ==
  ASSUME NEW C, NEW H, NEW A, NEW T, NEW Q, Tidy(C, H, A, T, Q), NEW c, First(c), ~c.open
  PROVE  Tidy(Append(C, c), H, A, T, Q)
<1> DEFINE D == Append(C, c)
           n == Len(C) + 1
<1>1. C \in Seq(ConnType) /\ c \in ConnType
  BY DEF Tidy, Wires, First
<1>2. /\ DOMAIN D = DOMAIN C \cup {n} /\ \A i \in DOMAIN C : D[i] = C[i]
      /\ D[n] = c /\ n \notin DOMAIN C /\ n \in Nat
  BY <1>1, Appended
<1>3. \A t \in Terminals : H[t] # n
  BY <1>2, NobodyApart DEF Tidy, Stands
<1>4. Q # [step |-> "query", about |-> n]
  BY <1>2 DEF Tidy, Opened
<1>5. Wires(D) /\ Delivered(D, T) /\ \A t \in Terminals : Stands(D, H[t], A[t], T)
  BY NewTidy
<1> HIDE DEF D, n
<1>6. Opened(D, H, Q)
  BY <1>2, <1>3, <1>4 DEF Tidy, Opened
<1> QED BY <1>5, <1>6 DEF Tidy, D

(* The command's connection for the status request.                        *)
LEMMA QueryTidy ==
  ASSUME NEW C, NEW H, NEW A, NEW T, NEW Q, Tidy(C, H, A, T, Q), Q.step # "query",
         NEW c, First(c), c.open
  PROVE  Tidy(Append(C, c), H, A, T, [step |-> "query", about |-> Len(C) + 1])
<1> DEFINE D == Append(C, c)
           n == Len(C) + 1
           R == [step |-> "query", about |-> n]
<1>1. C \in Seq(ConnType) /\ c \in ConnType
  BY DEF Tidy, Wires, First
<1>2. /\ DOMAIN D = DOMAIN C \cup {n} /\ \A i \in DOMAIN C : D[i] = C[i]
      /\ D[n] = c /\ n \notin DOMAIN C /\ n \in Nat
  BY <1>1, Appended
<1>3. \A t \in Terminals : H[t] # n
  BY <1>2, NobodyApart DEF Tidy, Stands
<1>4. R \in CliType
  BY <1>2 DEF CliType
<1>5. Wires(D) /\ Delivered(D, T) /\ \A t \in Terminals : Stands(D, H[t], A[t], T)
  BY NewTidy
<1>6. R.step = "query" /\ R.about = n /\ \A i : R = [step |-> "query", about |-> i] <=> i = n
  OBVIOUS
<1>7. \A i \in DOMAIN C : C[i].open <=> \E t \in Terminals : H[t] = i
  BY DEF Tidy, Opened
<1> HIDE DEF D, n, R
<1>8. Opened(D, H, R)
  BY <1>2, <1>3, <1>6, <1>7 DEF Opened
<1> QED BY <1>4, <1>5, <1>8 DEF Tidy, D, R, n

(* A terminal takes a connection of its own, after the hello.              *)
LEMMA HoldTidy ==
  ASSUME NEW C, NEW H, NEW A, NEW T, NEW Q, Tidy(C, H, A, T, Q),
         NEW t \in Terminals, H[t] = Nobody, A[t].step \in {"connect", "retry"},
         NEW c, First(c), c.open, c.wrote = <<Hello>>
  PROVE  Tidy(Append(C, c), [H EXCEPT ![t] = Len(C) + 1], [A EXCEPT ![t].step = "line"], T, Q)
<1> DEFINE D == Append(C, c)
           n == Len(C) + 1
           G == [H EXCEPT ![t] = n]
           p == [A[t] EXCEPT !.step = "line"]
           B == [A EXCEPT ![t] = p]
<1>1. C \in Seq(ConnType) /\ c \in ConnType
  BY DEF Tidy, Wires, First
<1>2. /\ DOMAIN D = DOMAIN C \cup {n} /\ \A i \in DOMAIN C : D[i] = C[i]
      /\ D[n] = c /\ n \notin DOMAIN C /\ n \in Nat
  BY <1>1, Appended
<1>3. \A u \in Terminals : H[u] # n
  BY <1>2, NobodyApart DEF Tidy, Stands
<1>4. Q # [step |-> "query", about |-> n] /\ (Q.step = "query" => Q.about # n)
  BY <1>2 DEF Tidy, Opened
<1>5. Wires(D) /\ Delivered(D, T) /\ \A u \in Terminals : Stands(D, H[u], A[u], T)
  BY NewTidy
<1>6. /\ G \in [Terminals -> Nat \cup {Nobody}] /\ G[t] = n
      /\ \A u \in Terminals \ {t} : G[u] = H[u]
  BY <1>2 DEF Tidy
<1>7. A[t] \in Places
  BY DEF Tidy
<1>8. /\ p \in Places /\ p.step = "line" /\ p.request = A[t].request
      /\ p.attempt = A[t].attempt
  BY <1>7 DEF Places
<1>9. [A EXCEPT ![t].step = "line"] = B
  BY DEF Tidy
<1> HIDE DEF p
<1>10. B \in [Terminals -> Places] /\ B[t] = p /\ \A u \in Terminals \ {t} : B[u] = A[u]
  BY <1>8 DEF Tidy
<1> HIDE DEF D, n, G, B
<1>11. \A u \in Terminals : Stands(D, G[u], B[u], T)
  <2>1. Stands(D, G[t], B[t], T)
    <3>1. A[t].request \in Requests /\ T[A[t].request] = "asking" /\ A[t].attempt \in {1, 2}
      BY DEF Tidy, Stands
    <3>2. /\ Len(D[n].wrote) > 0 /\ D[n].wrote[1] = Hello /\ D[n].wrote = <<Hello>>
          /\ n \in DOMAIN D
      <4>1. D[n].wrote = <<Hello>> /\ n \in DOMAIN D
        BY <1>2
      <4>2. Len(<<Hello>>) > 0 /\ <<Hello>>[1] = Hello
        OBVIOUS
      <4> QED BY <4>1, <4>2, Zenon
    <3>3. n # Nobody
      BY <1>2, NobodyApart
    <3>4. Stands(D, n, p, T)
      BY <1>8, <3>1, <3>2, <3>3 DEF Stands
    <3> QED BY <1>6, <1>10, <3>4
  <2> QED BY <1>5, <1>6, <1>10, <2>1
<1>12. Apart(G, B)
  <2> SUFFICES ASSUME NEW u \in Terminals, NEW v \in Terminals, u # v
               PROVE  /\ G[u] = G[v] => G[u] = Nobody
                      /\ B[u].request = B[v].request => B[u].step = "idle"
    BY DEF Apart
  <2>1. /\ H[u] = H[v] => H[u] = Nobody
        /\ A[u].request = A[v].request => A[u].step = "idle"
        /\ A[u].request = A[v].request => A[v].step = "idle"
    BY DEF Tidy, Apart
  <2>2. G[u] = G[v] => G[u] = Nobody
    BY <1>3, <1>6, <2>1
  <2>3. B[u].request = B[v].request => B[u].step = "idle"
    BY <1>8, <1>10, <2>1
  <2> QED BY <2>2, <2>3
<1>13. Opened(D, G, Q)
  <2>1. Q.step = "query" => Q.about \in DOMAIN D /\ \A u \in Terminals : G[u] # Q.about
    BY <1>2, <1>4, <1>6 DEF Tidy, Opened
  <2>2. \A i \in DOMAIN D : D[i].open <=> \/ \E u \in Terminals : G[u] = i
                                          \/ Q = [step |-> "query", about |-> i]
    <3>1. CASE TRUE
      <4>1. D[n].open /\ G[t] = n
        BY <1>2, <1>6
      <4>2. ASSUME NEW i \in DOMAIN C
            PROVE  (\E u \in Terminals : G[u] = i) <=> (\E u \in Terminals : H[u] = i)
        BY <1>2, <1>6, NobodyApart DEF Tidy, Stands, Wires
      <4> QED BY <1>2, <4>1, <4>2 DEF Tidy, Opened
    <3> QED BY <3>1
  <2> QED BY <2>1, <2>2 DEF Tidy, Opened
<1> QED BY <1>5, <1>6, <1>9, <1>10, <1>11, <1>12, <1>13 DEF Tidy, D, G, n

(* One element replaced by another.                                        *)
LEMMA Replaced ==
  ASSUME NEW S, NEW C \in Seq(S), NEW h \in DOMAIN C, NEW c \in S
  PROVE  /\ [C EXCEPT ![h] = c] \in Seq(S)
         /\ DOMAIN [C EXCEPT ![h] = c] = DOMAIN C
         /\ [C EXCEPT ![h] = c][h] = c
         /\ \A i \in DOMAIN C \ {h} : [C EXCEPT ![h] = c][i] = C[i]
OBVIOUS

(* A client hangs up: nothing changes but that one connection is not open. *)
LEMMA HangUpSame ==
  ASSUME NEW C \in Seq(ConnType), NEW h \in DOMAIN C
  PROVE  LET D == [C EXCEPT ![h].open = FALSE]
         IN /\ D \in Seq(ConnType) /\ DOMAIN D = DOMAIN C
            /\ ~D[h].open /\ \A i \in DOMAIN C \ {h} : D[i] = C[i]
            /\ \A i \in DOMAIN C : D[i].wrote = C[i].wrote /\ D[i].read = C[i].read
<1> DEFINE c == [C[h] EXCEPT !.open = FALSE]
           D == [C EXCEPT ![h] = c]
<1>1. C[h] \in ConnType
  OBVIOUS
<1>2. c \in ConnType /\ ~c.open /\ c.wrote = C[h].wrote /\ c.read = C[h].read
  BY <1>1 DEF ConnType
<1>3. [C EXCEPT ![h].open = FALSE] = D
  OBVIOUS
<1> HIDE DEF c
<1>4. /\ D \in Seq(ConnType) /\ DOMAIN D = DOMAIN C
      /\ D[h] = c /\ \A i \in DOMAIN C \ {h} : D[i] = C[i]
  BY <1>2, Replaced
<1> QED BY <1>2, <1>3, <1>4

(* What a client that hangs up leaves alone.                               *)
LEMMA HangUpTidy ==
  ASSUME NEW C, NEW H, NEW A, NEW T, NEW Q, Tidy(C, H, A, T, Q), NEW h \in DOMAIN C
  PROVE  LET D == [C EXCEPT ![h].open = FALSE]
         IN /\ Wires(D) /\ Delivered(D, T)
            /\ \A t \in Terminals : Stands(D, H[t], A[t], T)
<1> DEFINE D == [C EXCEPT ![h].open = FALSE]
<1>1. C \in Seq(ConnType)
  BY DEF Tidy, Wires
<1>2. /\ D \in Seq(ConnType) /\ DOMAIN D = DOMAIN C
      /\ \A i \in DOMAIN C : D[i].wrote = C[i].wrote /\ D[i].read = C[i].read
  BY <1>1, HangUpSame
<1> HIDE DEF D
<1>3. Wires(D)
  BY <1>2 DEF Tidy, Wires, Wire
<1>4. \A i, k, r : On(D, i, k, r) <=> On(C, i, k, r)
  BY <1>2 DEF On
<1>5. Delivered(D, T)
  BY <1>4 DEF Tidy, Delivered
<1>6. \A t \in Terminals : Stands(D, H[t], A[t], T)
  BY <1>2 DEF Tidy, Stands
<1> QED BY <1>3, <1>5, <1>6 DEF D

(* A terminal that is not in the middle of a write drops its connection.   *)
LEMMA DropTidy ==
  ASSUME NEW C, NEW H, NEW A, NEW T, NEW Q, Tidy(C, H, A, T, Q),
         NEW t \in Terminals, H[t] # Nobody, A[t].step \notin {"line", "newline"}
  PROVE  Tidy([C EXCEPT ![H[t]].open = FALSE], [H EXCEPT ![t] = Nobody], A, T, Q)
<1> DEFINE h == H[t]
           D == [C EXCEPT ![h].open = FALSE]
           G == [H EXCEPT ![t] = Nobody]
<1>1. C \in Seq(ConnType) /\ h \in DOMAIN C
  BY DEF Tidy, Wires, Stands
<1>2. DOMAIN D = DOMAIN C /\ ~D[h].open /\ \A i \in DOMAIN C \ {h} : D[i] = C[i]
  BY <1>1, HangUpSame
<1>3. Wires(D) /\ Delivered(D, T) /\ \A u \in Terminals : Stands(D, H[u], A[u], T)
  BY <1>1, HangUpTidy
<1>4. /\ G \in [Terminals -> Nat \cup {Nobody}] /\ G[t] = Nobody
      /\ \A u \in Terminals \ {t} : G[u] = H[u]
  BY DEF Tidy
<1>5. \A u \in Terminals \ {t} : H[u] # h
  BY DEF Tidy, Apart
<1>6. h # Nobody
  OBVIOUS
<1>7. Q # [step |-> "query", about |-> h]
  BY DEF Tidy, Opened
<1> HIDE DEF D, G
<1>8. \A u \in Terminals : Stands(D, G[u], A[u], T)
  BY <1>3, <1>4 DEF Stands
<1>9. Apart(G, A)
  BY <1>4 DEF Tidy, Apart
<1>10. Opened(D, G, Q)
  <2>1. \A i \in DOMAIN C :
          (\E u \in Terminals : G[u] = i) <=> i # h /\ \E u \in Terminals : H[u] = i
    <3>1. \A i \in DOMAIN C : i # Nobody
      BY <1>1, NobodyApart
    <3> QED BY <1>4, <1>5, <3>1
  <2>2. Q.step = "query" => Q.about \in DOMAIN D /\ \A u \in Terminals : G[u] # Q.about
    <3>1. Q.step = "query" => Q.about \in DOMAIN C /\ Q.about # Nobody
      BY <1>1, NobodyApart DEF Tidy, Opened
    <3> QED BY <1>2, <1>4, <3>1 DEF Tidy, Opened
  <2>3. \A i \in DOMAIN D : D[i].open <=> \/ \E u \in Terminals : G[u] = i
                                          \/ Q = [step |-> "query", about |-> i]
    BY <1>2, <1>7, <2>1 DEF Tidy, Opened
  <2> QED BY <2>2, <2>3 DEF Tidy, Opened
<1> HIDE DEF h
<1> QED BY <1>3, <1>4, <1>8, <1>9, <1>10 DEF Tidy, D, G, h

(* The command has its answer, or lost its connection.                     *)
LEMMA AnsweredTidy ==
  ASSUME NEW C, NEW H, NEW A, NEW T, NEW Q, Tidy(C, H, A, T, Q), Q.step = "query",
         NEW step \in {"idle", "gone"}
  PROVE  Tidy([C EXCEPT ![Q.about].open = FALSE], H, A, T, [step |-> step, about |-> Nobody])
<1> DEFINE h == Q.about
           D == [C EXCEPT ![h].open = FALSE]
           R == [step |-> step, about |-> Nobody]
<1>1. C \in Seq(ConnType) /\ h \in DOMAIN C /\ \A t \in Terminals : H[t] # h
  BY DEF Tidy, Wires, Opened
<1>2. DOMAIN D = DOMAIN C /\ ~D[h].open /\ \A i \in DOMAIN C \ {h} : D[i] = C[i]
  BY <1>1, HangUpSame
<1>3. Wires(D) /\ Delivered(D, T) /\ \A u \in Terminals : Stands(D, H[u], A[u], T)
  BY <1>1, HangUpTidy
<1>4. R \in CliType /\ R.step # "query" /\ R.about = Nobody
  BY DEF CliType
<1>5. Q \in CliType
  BY DEF Tidy
<1>6. \A i : /\ R # [step |-> "query", about |-> i]
             /\ i # h => Q # [step |-> "query", about |-> i]
  <2>1. \A i : /\ [step |-> "query", about |-> i].step = "query"
               /\ [step |-> "query", about |-> i].about = i
    OBVIOUS
  <2> QED BY <1>4, <2>1
<1> HIDE DEF D, R
<1>7. Opened(D, H, R)
  <2>1. \A i \in DOMAIN D : D[i].open <=> \/ \E u \in Terminals : H[u] = i
                                          \/ R = [step |-> "query", about |-> i]
    BY <1>1, <1>2, <1>6 DEF Tidy, Opened
  <2> QED BY <1>4, <2>1 DEF Opened
<1> QED BY <1>3, <1>4, <1>7 DEF Tidy, D, R

(* The command between its steps, without a connection.                    *)
LEMMA CliTidy ==
  ASSUME NEW C, NEW H, NEW A, NEW T, NEW Q, Tidy(C, H, A, T, Q), Q.step # "query",
         NEW step \in {"idle", "stale", "gone"}
  PROVE  Tidy(C, H, A, T, [step |-> step, about |-> Nobody])
<1> DEFINE R == [step |-> step, about |-> Nobody]
<1>1. R \in CliType /\ R.step # "query" /\ R.about = Nobody
  BY DEF CliType
<1>2. \A i : R # [step |-> "query", about |-> i] /\ Q # [step |-> "query", about |-> i]
  <2>1. \A i : [step |-> "query", about |-> i].step = "query"
    OBVIOUS
  <2> QED BY <1>1, <2>1
<1> HIDE DEF R
<1>3. Opened(C, H, R)
  BY <1>1, <1>2 DEF Tidy, Opened
<1> QED BY <1>1, <1>3 DEF Tidy, R

(* A connection with something else written on it.                         *)
LEMMA Rewritten ==
  ASSUME NEW c \in ConnType
  PROVE  /\ c.wrote \in Seq(Lines) /\ c.read \in Nat
         /\ \A w \in Seq(Lines) :
              /\ [c EXCEPT !.wrote = w] \in ConnType
              /\ [c EXCEPT !.wrote = w].wrote = w
              /\ [c EXCEPT !.wrote = w].read = c.read
              /\ [c EXCEPT !.wrote = w].open = c.open
BY DEF ConnType

(* A question that is in no connection yet is written on one.              *)
LEMMA WriteTidy ==
  ASSUME NEW C, NEW H, NEW A, NEW T, NEW Q, Tidy(C, H, A, T, Q),
         NEW t \in Terminals, H[t] # Nobody, A[t] = Idle,
         NEW r \in Requests, T[r] = "sent", \A i, k : ~On(C, i, k, r)
  PROVE  Tidy([C EXCEPT ![H[t]].wrote = Append(@, r)], H, A, T, Q)
<1> DEFINE h == H[t]
           w == Append(C[h].wrote, r)
           c == [C[h] EXCEPT !.wrote = w]
           D == [C EXCEPT ![h] = c]
<1>1. /\ C \in Seq(ConnType) /\ h \in DOMAIN C /\ Wire(C[h])
      /\ Len(C[h].wrote) > 0 /\ C[h].wrote[1] = Hello
  BY DEF Tidy, Wires, Stands
<1>2. [C EXCEPT ![h].wrote = Append(@, r)] = D
  BY <1>1
<1>3. C[h] \in ConnType
  BY <1>1
<1>4. C[h].wrote \in Seq(Lines) /\ r \in Lines /\ C[h].read \in Nat
  <2>1. C[h].wrote \in Seq(Lines) /\ C[h].read \in Nat
    BY <1>3, Rewritten
  <2>2. r \in Lines
    BY NobodyApart DEF Lines
  <2> QED BY <2>1, <2>2
<1>5. /\ w \in Seq(Lines) /\ DOMAIN w = DOMAIN C[h].wrote \cup {Len(C[h].wrote) + 1}
      /\ Len(w) = Len(C[h].wrote) + 1
      /\ \A k \in DOMAIN C[h].wrote : w[k] = C[h].wrote[k]
      /\ w[Len(C[h].wrote) + 1] = r
      /\ Len(C[h].wrote) + 1 \notin DOMAIN C[h].wrote
  BY <1>4, Appended, SMTT(30)
<1> HIDE DEF w
<1>6. c \in ConnType /\ c.wrote = w /\ c.read = C[h].read /\ c.open = C[h].open
  BY <1>3, <1>5, Rewritten
<1>7. Wire(c)
  <2>1. Len(C[h].wrote) \in Nat /\ 1 \in DOMAIN C[h].wrote
    BY <1>1, <1>4
  <2>2. w[1] = Hello
    BY <1>1, <1>5, <2>1
  <2> QED BY <1>1, <1>4, <1>5, <1>6, <2>1, <2>2, SMTT(30) DEF Wire
<1> HIDE DEF c
<1>8. /\ D \in Seq(ConnType) /\ DOMAIN D = DOMAIN C /\ D[h] = c
      /\ \A i \in DOMAIN C \ {h} : D[i] = C[i]
  BY <1>1, <1>6, Replaced
<1> HIDE DEF D
<1>9. Wires(D)
  BY <1>7, <1>8 DEF Tidy, Wires
<1>10. \A i, k, q : On(D, i, k, q) => \/ On(C, i, k, q)
                                      \/ i = h /\ k = Len(C[h].wrote) + 1 /\ q = r
  BY <1>1, <1>5, <1>6, <1>8 DEF On
<1>11. Delivered(D, T)
  <2> SUFFICES ASSUME NEW q \in Requests, NEW i, NEW j, NEW k, NEW l, On(D, i, k, q)
               PROVE  T[q] = "sent" /\ (On(D, j, l, q) => i = j /\ k = l)
    BY DEF Delivered
  <2>1. CASE q = r
    BY <1>10, <2>1
  <2>2. CASE q # r
    <3>1. On(C, i, k, q) /\ (On(D, j, l, q) => On(C, j, l, q))
      BY <1>10, <2>2
    <3> QED BY <3>1 DEF Tidy, Delivered
  <2> QED BY <2>1, <2>2
<1>12. \A u \in Terminals : Stands(D, H[u], A[u], T)
  <2> SUFFICES ASSUME NEW u \in Terminals PROVE Stands(D, H[u], A[u], T)
    OBVIOUS
  <2>1. Stands(C, H[u], A[u], T)
    BY DEF Tidy
  <2>2. CASE u = t
    <3>1. Len(D[h].wrote) > 0 /\ D[h].wrote[1] = Hello
      <4>1. Len(C[h].wrote) \in Nat /\ 1 \in DOMAIN C[h].wrote
        BY <1>1, <1>4
      <4>2. Len(w) > 0 /\ w[1] = Hello
        BY <1>1, <1>5, <4>1
      <4> QED BY <1>6, <1>8, <4>2
    <3> QED BY <1>1, <1>8, <2>1, <2>2, <3>1, IdlePlace DEF Stands
  <2>3. CASE u # t
    <3>1. H[u] # Nobody => H[u] # h
      BY <2>3 DEF Tidy, Apart
    <3> QED BY <1>8, <2>1, <3>1 DEF Stands
  <2> QED BY <2>2, <2>3
<1>13. Opened(D, H, Q)
  <2>1. \A i \in DOMAIN C : D[i].open = C[i].open
    BY <1>6, <1>8
  <2> QED BY <1>8, <2>1 DEF Tidy, Opened
<1> HIDE DEF h
<1> QED BY <1>2, <1>9, <1>11, <1>12, <1>13 DEF Tidy, D, h, c, w

-----------------------------------------------------------------------------
(* Steps *)

(* Connections to the daemon at the path begin with their first line.      *)
LEMMA ConnectionFirst ==
  ASSUME Accepting(path), NEW who \in Terminals \cup Nat,
         NEW first \in {<< >>, <<Hello>>, <<StatusRequest>>}
  PROVE  LET c == Connection(who, first)
             d == [c EXCEPT !.open = FALSE]
         IN /\ First(c) /\ c.open /\ c.wrote = first
            /\ First(d) /\ ~d.open /\ d.wrote = first
<1>1. first \in Seq(Lines)
  BY FirstLines
<1>2. /\ Connection(who, first) \in ConnType
      /\ [Connection(who, first) EXCEPT !.open = FALSE] \in ConnType
  BY <1>1, ConnectionType
<1>3. /\ Connection(who, first).open /\ Connection(who, first).wrote = first
      /\ Connection(who, first).read = 0
  BY DEF Connection
<1>4. LET d == [Connection(who, first) EXCEPT !.open = FALSE]
      IN ~d.open /\ d.wrote = first /\ d.read = 0
  BY DEF Connection
<1> QED BY <1>2, <1>3, <1>4 DEF First

(* The daemons' own steps.                                                 *)
LEMMA DaemonAgreed ==
  ASSUME RInv, NEW d \in Daemons, Daemon(d) \/ Crash(d)
  PROVE  Agreed'
<1>1. conns \in Seq(ConnType) /\ conns' \in Seq(ConnType)
  <2>1. IInv'
    BY DaemonSound DEF RInv
  <2> QED BY <2>1 DEF RInv, IInv, Types
<1>2. Tidy(conns, held, at, told, cli)
  BY DEF RInv, Agreed
<1>3. UNCHANGED <<held, at, told, cli>>
  BY DEF Daemon, Crash, Probe, FindsAlive, Goes, UnlinkStale, Bind, Raced, Listening,
         IdleFires, CloseServer, Stop, Accept, ReadLine, Closed, terminalVars, cliVars
<1>4. CASE FindsAlive(d)
  <2>1. d \in Terminals \cup Nat
    BY DEF Daemons
  <2>2. First(Probed(d)) /\ ~Probed(d).open
    BY <1>4, <2>1, ConnectionFirst DEF Probed, FindsAlive
  <2> QED BY <1>2, <1>3, <1>4, <2>2, ProbedTidy DEF FindsAlive, Agreed
<1>5. CASE /\ DOMAIN conns' = DOMAIN conns
           /\ \A i \in DOMAIN conns : /\ conns'[i].wrote = conns[i].wrote
                                      /\ conns'[i].open = conns[i].open
                                      /\ conns'[i].read <= Len(conns'[i].wrote)
  BY <1>1, <1>2, <1>3, <1>5, SameTidy DEF Agreed
<1>6. \A i \in DOMAIN conns : conns[i] \in ConnType /\ conns[i].read <= Len(conns[i].wrote)
  BY <1>1, <1>2 DEF Tidy, Wires, Wire
<1>7. CASE UNCHANGED conns
  BY <1>5, <1>6, <1>7
<1>8. ASSUME NEW stages, conns' = ResetStages(d, stages)
      PROVE  Agreed'
  <2>1. DOMAIN conns' = DOMAIN conns
    BY <1>8 DEF ResetStages
  <2>2. ASSUME NEW i \in DOMAIN conns
        PROVE  /\ conns'[i].wrote = conns[i].wrote /\ conns'[i].open = conns[i].open
               /\ conns'[i].read = conns[i].read
    <3>1. conns'[i] \in {conns[i], [conns[i] EXCEPT !.stage = "reset"]}
      BY <1>8 DEF ResetStages
    <3> QED BY <1>6, <3>1 DEF ConnType
  <2> QED BY <1>5, <1>6, <2>1, <2>2
<1>9. ASSUME NEW i \in DOMAIN conns, Accept(d, i) \/ ReadLine(d, i) \/ Closed(d, i)
      PROVE  Agreed'
  <2>1. /\ conns[i] \in ConnType /\ conns[i].read <= Len(conns[i].wrote)
        /\ conns[i].read \in Nat /\ Len(conns[i].wrote) \in Nat
    BY <1>6 DEF ConnType
  <2>2. PICK c : /\ conns' = [conns EXCEPT ![i] = c]
                 /\ c.wrote = conns[i].wrote /\ c.open = conns[i].open
                 /\ c.read <= Len(conns[i].wrote)
    <3>1. CASE Accept(d, i)
      <4> WITNESS [conns[i] EXCEPT !.stage = "accepted"]
      <4> QED BY <2>1, <3>1 DEF Accept, ConnType
    <3>2. CASE ReadLine(d, i)
      <4>1. conns[i].read + 1 <= Len(conns[i].wrote)
        BY <2>1, <3>2 DEF ReadLine
      <4> WITNESS [conns[i] EXCEPT !.read = @ + 1]
      <4> QED BY <2>1, <3>2, <4>1 DEF ReadLine, ConnType
    <3>3. CASE Closed(d, i)
      <4> WITNESS [conns[i] EXCEPT !.stage = "closed"]
      <4> QED BY <2>1, <3>3 DEF Closed, ConnType
    <3> QED BY <1>9, <3>1, <3>2, <3>3
  <2>3. /\ DOMAIN conns' = DOMAIN conns
        /\ \A j \in DOMAIN conns : conns'[j] = IF j = i THEN c ELSE conns[j]
    BY <2>2
  <2> QED BY <1>5, <1>6, <2>2, <2>3
<1> QED BY <1>4, <1>7, <1>8, <1>9 DEF Daemon, Crash, Probe, Goes, UnlinkStale, Bind, Raced,
                                      Listening, IdleFires, CloseServer, Stop

(* A terminal sets out for a daemon: to reuse, make or give up a           *)
(* connection.                                                             *)
LEMMA DispatchAgreed ==
  ASSUME RInv, NEW t \in Terminals, Reuse(t) \/ Connect(t) \/ Spawn(t) \/ GiveUp(t)
  PROVE  Agreed'
<1>1. /\ Tidy(conns, held, at, told, cli) /\ at[t] \in Places
      /\ Stands(conns, held[t], at[t], told)
  BY DEF RInv, Agreed, Tidy
<1>2. ASSUME at[t].step # "idle", NEW step \in {"connect", "retry", "line", "newline"},
             step = "retry" \/ (step = "connect" /\ at[t].attempt = 2) => held[t] = Nobody,
             step \in {"line", "newline"} => held[t] # Nobody
      PROVE  Tidy(conns, held, [at EXCEPT ![t].step = step], told, cli)
  <2> DEFINE p == [at[t] EXCEPT !.step = step]
  <2>1. p \in Places /\ p.step = step /\ p.request = at[t].request /\ p.attempt = at[t].attempt
    BY <1>1 DEF Places
  <2>2. [at EXCEPT ![t].step = step] = [at EXCEPT ![t] = p]
    BY <1>1 DEF Tidy
  <2> HIDE DEF p
  <2>3. Stands(conns, held[t], p, told)
    BY <1>1, <1>2, <2>1 DEF Stands
  <2> QED BY <1>1, <1>2, <2>1, <2>2, <2>3, MoveTidy
<1>3. ASSUME at[t].step # "idle", NEW answer \in Told, Settles(t, answer),
             UNCHANGED <<conns, held, cli>>
      PROVE  Agreed'
  BY <1>1, <1>3, SettleTidy DEF Settles, Agreed
<1>4. CASE Reuse(t)
  <2>1. Tidy(conns, held, [at EXCEPT ![t].step = "line"], told, cli)
    BY <1>2, <1>4 DEF Reuse
  <2> QED BY <1>4, <2>1 DEF Reuse, Moves, Agreed, cliVars
<1>5. CASE Connect(t)
  <2> DEFINE c == Connection(t, <<Hello>>)
             d == [c EXCEPT !.open = FALSE]
  <2>1. First(c) /\ c.open /\ c.wrote = <<Hello>> /\ First(d) /\ ~d.open
    BY <1>5, ConnectionFirst DEF Connect
  <2>2. held[t] = Nobody /\ at[t].step \in {"connect", "retry"} /\ cli' = cli
    BY <1>5 DEF Connect, cliVars
  <2> HIDE DEF c, d
  <2>3. CASE /\ conns' = Append(conns, c) /\ held' = [held EXCEPT ![t] = Len(conns) + 1]
             /\ Moves(t, "line") /\ UNCHANGED told
    BY <1>1, <2>1, <2>2, <2>3, HoldTidy DEF Moves, Agreed
  <2>4. CASE conns' = Append(conns, d) /\ UNCHANGED held /\ Settles(t, "unavailable")
    <3>1. Tidy(conns', held, at, told, cli)
      BY <1>1, <2>1, <2>4, ProbedTidy
    <3>2. "unavailable" \in Told /\ at[t].step # "idle"
      BY <2>2 DEF Told
    <3> QED BY <2>2, <2>4, <3>1, <3>2, SettleTidy DEF Settles, Agreed
  <2> QED BY <1>5, <2>3, <2>4 DEF Connect, c, d
<1>6. "unavailable" \in Told
  BY DEF Told
<1>7. CASE Spawn(t)
  <2>1. at[t].step = "connect" /\ held[t] = Nobody /\ UNCHANGED <<conns, held, cli>>
    BY <1>7 DEF Spawn, cliVars
  <2>2. CASE Moves(t, "retry") /\ UNCHANGED told
    <3>1. Tidy(conns, held, [at EXCEPT ![t].step = "retry"], told, cli)
      BY <1>2, <2>1
    <3> QED BY <2>1, <2>2, <3>1 DEF Moves, Agreed
  <2>3. CASE Settles(t, "unavailable")
    BY <1>3, <1>6, <2>1, <2>3
  <2> QED BY <1>7, <2>2, <2>3 DEF Spawn
<1>8. CASE GiveUp(t)
  BY <1>3, <1>6, <1>8 DEF GiveUp, cliVars
<1> QED BY <1>4, <1>5, <1>7, <1>8

(* A terminal writes its question, in two parts, or finds the connection   *)
(* dead.                                                                   *)
LEMMA SendAgreed ==
  ASSUME RInv, NEW t \in Terminals, SendFails(t) \/ SendLine(t) \/ SendNewline(t)
  PROVE  Agreed'
<1> DEFINE h == held[t]
           r == at[t].request
<1>1. /\ Tidy(conns, held, at, told, cli) /\ at[t] \in Places /\ Stands(conns, h, at[t], told)
      /\ at[t].step \in {"line", "newline"} /\ at \in [Terminals -> Places]
      /\ held \in [Terminals -> Nat \cup {Nobody}] /\ told \in [Requests -> Told]
  BY DEF RInv, Agreed, Tidy, SendFails, SendLine, SendNewline
<1>2. h # Nobody /\ r \in Requests /\ told[r] = "asking" /\ at[t].attempt \in {1, 2}
  BY <1>1 DEF Stands
<1>3. CASE SendFails(t)
  <2>1. /\ held' = [held EXCEPT ![t] = Nobody] /\ conns' = [conns EXCEPT ![h].open = FALSE]
        /\ cli' = cli
    BY <1>3 DEF SendFails, HeldAfterFailure, Dropped, cliVars
  <2>2. CASE at[t].attempt = 1
    <3> DEFINE p == [at[t] EXCEPT !.step = "connect"]
               q == [at[t] EXCEPT !.step = "connect", !.attempt = 2]
               B == [at EXCEPT ![t] = p]
    <3>1. /\ p \in Places /\ p.step = "connect" /\ p.request = r /\ p.attempt = 1
          /\ q \in Places /\ q.step = "connect" /\ q.request = r /\ q.attempt = 2
      BY <1>1, <2>2 DEF Places
    <3> HIDE DEF p, q
    <3>2. Stands(conns, held[t], p, told)
      BY <1>1, <3>1 DEF Stands
    <3>3. Tidy(conns, held, B, told, cli)
      BY <1>1, <3>1, <3>2, MoveTidy
    <3>4. B[t] = p /\ [B EXCEPT ![t] = q] = [at EXCEPT ![t] = q]
      BY <1>1
    <3> HIDE DEF B
    <3>5. Tidy(conns', held', B, told, cli)
      BY <1>2, <2>1, <3>1, <3>3, <3>4, DropTidy
    <3>6. held'[t] = Nobody
      BY <1>1, <2>1
    <3>7. Stands(conns', held'[t], q, told)
      BY <1>2, <3>1, <3>6 DEF Stands
    <3>8. Tidy(conns', held', [B EXCEPT ![t] = q], told, cli)
      BY <3>1, <3>4, <3>5, <3>7, MoveTidy
    <3>9. at' = [at EXCEPT ![t] = q] /\ told' = told
      BY <1>1, <1>3, <2>2 DEF SendFails, q
    <3> QED BY <2>1, <3>4, <3>8, <3>9 DEF Agreed
  <2>3. CASE at[t].attempt # 1
    <3>1. Settles(t, "unavailable")
      BY <1>3, <2>3 DEF SendFails
    <3>2. "unavailable" \in Told
      BY DEF Told
    <3>3. Tidy(conns, held, at', told', cli)
      BY <1>1, <3>1, <3>2, SettleTidy DEF Settles
    <3>4. at'[t] = Idle
      BY <1>1, <3>1 DEF Settles
    <3> QED BY <1>2, <2>1, <3>3, <3>4, DropTidy, IdlePlace DEF Agreed
  <2> QED BY <2>2, <2>3
<1>4. CASE SendLine(t)
  <2> DEFINE p == [at[t] EXCEPT !.step = "newline"]
  <2>1. /\ p \in Places /\ p.step = "newline" /\ p.request = at[t].request
        /\ p.attempt = at[t].attempt
    BY <1>1 DEF Places
  <2>2. at' = [at EXCEPT ![t] = p] /\ UNCHANGED <<conns, held, told, cli>>
    BY <1>1, <1>4 DEF SendLine, Moves, cliVars
  <2> HIDE DEF p
  <2>3. Stands(conns, held[t], p, told)
    BY <1>1, <1>2, <2>1 DEF Stands
  <2>4. Tidy(conns, held, [at EXCEPT ![t] = p], told, cli)
    BY <1>1, <2>1, <2>3, MoveTidy
  <2> QED BY <2>2, <2>4 DEF Agreed
<1>5. CASE SendNewline(t)
  <2>1. /\ conns' = [conns EXCEPT ![h].wrote = Append(@, r)]
        /\ Settles(t, "sent") /\ UNCHANGED <<held, cli>>
    BY <1>5 DEF SendNewline, cliVars
  <2>2. Tidy(conns, held, at', told', cli)
    <3>1. "sent" \in Told
      BY DEF Told
    <3> QED BY <1>1, <2>1, <3>1, SettleTidy DEF Settles
  <2>3. at'[t] = Idle /\ told'[r] = "sent"
    BY <1>1, <1>2, <2>1 DEF Settles
  <2>4. \A i, k : ~On(conns, i, k, r)
    BY <1>1, <1>2 DEF Tidy, Delivered
  <2>5. Tidy([conns EXCEPT ![held[t]].wrote = Append(@, r)], held, at', told', cli)
    BY <1>2, <2>2, <2>3, <2>4, WriteTidy
  <2> QED BY <2>1, <2>5 DEF Agreed
<1> QED BY <1>3, <1>4, <1>5

(* Every step of a terminal keeps the parties in agreement.                *)
LEMMA TerminalAgreed ==
  ASSUME RInv, NEW t \in Terminals,
         \/ Dispatch(t) \/ DropDead(t) \/ Leave(t) \/ CoolsDown(t)
         \/ \E r \in Requests : Ask(t, r)
  PROVE  Agreed'
<1>1. Tidy(conns, held, at, told, cli)
  BY DEF RInv, Agreed
<1>2. ASSUME NEW r \in Requests, Ask(t, r)
      PROVE  Agreed'
  BY <1>1, <1>2, AskTidy DEF Ask, Agreed, cliVars
<1>3. CASE DropDead(t) \/ Leave(t)
  <2>1. /\ at[t].step = "idle" /\ held[t] # Nobody
        /\ conns' = [conns EXCEPT ![held[t]].open = FALSE]
        /\ held' = [held EXCEPT ![t] = Nobody] /\ UNCHANGED <<at, told, cli>>
    BY <1>3, IdlePlace DEF DropDead, Leave, Dropped, cliVars
  <2> QED BY <1>1, <2>1, DropTidy DEF Agreed
<1>4. CASE CoolsDown(t)
  BY <1>1, <1>4 DEF CoolsDown, Agreed, cliVars
<1> QED BY <1>2, <1>3, <1>4, DispatchAgreed, SendAgreed DEF Dispatch

(* Every step of the stop, status and start commands keeps them in         *)
(* agreement.                                                              *)
LEMMA CliAgreed ==
  ASSUME RInv, Cli
  PROVE  Agreed'
<1>1. /\ Tidy(conns, held, at, told, cli) /\ UNCHANGED <<held, at, told>>
      /\ conns \in Seq(ConnType)
  BY DEF RInv, Agreed, IInv, Types, Cli, CliStop, CliRemoveStale, CliSignal, CliGone,
         CliStatus, CliStart, terminalVars
<1>2. ASSUME Accepting(path)
      PROVE  LET c == Connection(0, <<StatusRequest>>)
                 d == [c EXCEPT !.open = FALSE]
             IN First(c) /\ c.open /\ First(d) /\ ~d.open
  <2>1. 0 \in Terminals \cup Nat
    OBVIOUS
  <2> QED BY <1>2, <2>1, ConnectionFirst
<1>3. CASE CliStop
  <2>1. cli.step # "query"
    BY <1>3 DEF CliStop
  <2>2. CASE /\ Accepting(path) /\ conns' = Append(conns, Connection(0, <<StatusRequest>>))
             /\ CliGoes("query", Len(conns) + 1)
    BY <1>1, <1>2, <2>1, <2>2, QueryTidy DEF CliGoes, Agreed
  <2>3. CASE CliGoes("stale", Nobody) /\ UNCHANGED conns
    BY <1>1, <2>1, <2>3, CliTidy DEF CliGoes, Agreed
  <2> QED BY <1>3, <2>2, <2>3 DEF CliStop
<1>4. CASE CliRemoveStale \/ CliGone
  <2>1. cli.step # "query" /\ CliGoes("idle", Nobody) /\ UNCHANGED conns
    BY <1>4 DEF CliRemoveStale, CliGone
  <2> QED BY <1>1, <2>1, CliTidy DEF CliGoes, Agreed
<1>5. CASE CliSignal
  <2> DEFINE i == cli.about
             d == conns[i].to
             R == ResetStages(d, {"backlog"})
  <2>1. cli.step = "query" /\ i \in DOMAIN conns
    BY <1>1, <1>5 DEF CliSignal, Tidy, Opened
  <2>2. CASE CliGoes("idle", Nobody) /\ conns' = Dropped(i)
    BY <1>1, <2>1, <2>2, AnsweredTidy DEF CliGoes, Dropped, Agreed
  <2>3. CASE CliGoes("gone", Nobody) /\ conns' = [R EXCEPT ![i].open = FALSE]
    <3>1. R \in Seq(ConnType) /\ DOMAIN R = DOMAIN conns
      BY <1>1, ResetKeeps
    <3>2. ASSUME NEW j \in DOMAIN conns
          PROVE  /\ R[j].wrote = conns[j].wrote /\ R[j].open = conns[j].open
                 /\ R[j].read <= Len(R[j].wrote)
      <4>1. R[j] \in {conns[j], [conns[j] EXCEPT !.stage = "reset"]}
        BY DEF ResetStages
      <4>2. conns[j] \in ConnType /\ conns[j].read <= Len(conns[j].wrote)
        BY <1>1 DEF Tidy, Wires, Wire
      <4>3. /\ R[j].wrote = conns[j].wrote /\ R[j].open = conns[j].open
            /\ R[j].read = conns[j].read
        BY <4>1, <4>2 DEF ConnType
      <4> QED BY <4>2, <4>3
    <3> HIDE DEF R
    <3>3. Tidy(R, held, at, told, cli)
      BY <1>1, <3>1, <3>2, SameTidy
    <3> QED BY <1>1, <2>1, <2>3, <3>3, AnsweredTidy DEF CliGoes, Agreed
  <2> QED BY <1>5, <2>2, <2>3 DEF CliSignal
<1>6. CASE CliStatus
  BY <1>1, <1>2, <1>6, ProbedTidy DEF CliStatus, Agreed
<1>7. CASE CliStart
  BY <1>1, <1>7 DEF CliStart, Agreed
<1> QED BY <1>3, <1>4, <1>5, <1>6, <1>7 DEF Cli

-----------------------------------------------------------------------------
(* Removing the file at the path robs a running daemon, if anyone.         *)
LEMMA RemoveLimits ==
  ASSUME Limits, NEW who \in 0..MaxDaemons, Remove(who)
  PROVE  robbed' \subseteq (0..MaxDaemons) \X Daemons
BY DEF Limits, Remove, Accepting

(* No step goes over the bounds on daemons, crashes, commands and          *)
(* questions.                                                              *)
LEMMA StepLimits ==
  ASSUME Limits, [Next]_vars
  PROVE  Limits'
<1>1. MaxDaemons \in Nat /\ MaxCrashes \in Nat /\ MaxCli \in Nat
  BY LifecycleAssumption
<1>2. 0 \in 0..MaxDaemons /\ \A d \in Daemons : d \in 0..MaxDaemons
  BY <1>1 DEF Daemons
<1>3. ASSUME NEW d \in Daemons, Daemon(d) \/ Crash(d)
      PROVE  Limits'
  <2>1. UNCHANGED <<plan, cooling, commands>>
    BY <1>3 DEF Daemon, Crash, Probe, FindsAlive, Goes, UnlinkStale, Bind, Raced, Listening,
                IdleFires, CloseServer, Stop, Accept, ReadLine, Closed, terminalVars, cliVars
  <2>2. robbed' \subseteq (0..MaxDaemons) \X Daemons
    <3>1. UNCHANGED robbed \/ Remove(d)
      BY <1>3 DEF Daemon, Crash, Probe, FindsAlive, Goes, UnlinkStale, Bind, Raced, Listening,
                  IdleFires, CloseServer, Stop, Accept, ReadLine, Closed
    <3> QED BY <1>2, <3>1, RemoveLimits DEF Limits
  <2>3. crashes' \in 0..MaxCrashes
    <3>1. UNCHANGED crashes \/ (crashes < MaxCrashes /\ crashes' = crashes + 1)
      BY <1>3 DEF Daemon, Crash, Probe, FindsAlive, Goes, UnlinkStale, Bind, Raced, Listening,
                  IdleFires, CloseServer, Stop, Accept, ReadLine, Closed, cliVars
    <3> QED BY <1>1, <3>1 DEF Limits
  <2> QED BY <2>1, <2>2, <2>3 DEF Limits
<1>4. ASSUME NEW t \in Terminals,
             \/ Dispatch(t) \/ DropDead(t) \/ Leave(t) \/ CoolsDown(t)
             \/ \E r \in Requests : Ask(t, r)
      PROVE  Limits'
  <2>1. UNCHANGED <<plan, crashes, commands, robbed>>
    BY <1>4 DEF Dispatch, Reuse, Connect, Spawn, GiveUp, SendFails, SendLine, SendNewline,
                DropDead, Leave, CoolsDown, Ask, cliVars
  <2>2. cooling' \in [Terminals -> BOOLEAN]
    <3>1. \/ UNCHANGED cooling
          \/ \E b \in BOOLEAN : cooling' = [cooling EXCEPT ![t] = b]
      BY <1>4 DEF Dispatch, Reuse, Connect, Spawn, GiveUp, SendFails, SendLine, SendNewline,
                  DropDead, Leave, CoolsDown, Ask
    <3> QED BY <3>1 DEF Limits
  <2> QED BY <2>1, <2>2 DEF Limits
<1>5. CASE Cli
  <2>1. UNCHANGED <<plan, cooling, crashes>>
    BY <1>5 DEF Cli, CliStop, CliRemoveStale, CliSignal, CliGone, CliStatus, CliStart, CliGoes,
                terminalVars
  <2>2. robbed' \subseteq (0..MaxDaemons) \X Daemons
    <3>1. UNCHANGED robbed \/ Remove(0)
      BY <1>5 DEF Cli, CliStop, CliRemoveStale, CliSignal, CliGone, CliStatus, CliStart
    <3> QED BY <1>2, <3>1, RemoveLimits DEF Limits
  <2>3. commands' \in 0..MaxCli
    <3>1. UNCHANGED commands \/ (commands < MaxCli /\ commands' = commands + 1)
      BY <1>5 DEF Cli, CliStop, CliRemoveStale, CliSignal, CliGone, CliStatus, CliStart
    <3> QED BY <1>1, <3>1 DEF Limits
  <2> QED BY <2>1, <2>2, <2>3 DEF Limits
<1>6. CASE UNCHANGED vars
  BY <1>6 DEF vars, Limits
<1> QED BY <1>3, <1>4, <1>5, <1>6 DEF Next

(* Nothing has been started, connected or asked.                           *)
LEMMA InitRequests == Init => RInv
<1> SUFFICES ASSUME Init PROVE RInv
  OBVIOUS
<1>1. conns = << >> /\ conns \in Seq(ConnType) /\ DOMAIN conns = {}
  BY DEF Init
<1>2. at \in [Terminals -> Places] /\ \A t \in Terminals : at[t] = Idle /\ held[t] = Nobody
  BY IdlePlace DEF Init
<1>3. cli \in CliType /\ cli.step = "idle" /\ cli.about = Nobody
  BY DEF Init, CliType
<1>4. held \in [Terminals -> Nat \cup {Nobody}] /\ told \in [Requests -> Told]
  BY DEF Init, Told
<1>5. Wires(conns) /\ Delivered(conns, told) /\ Opened(conns, held, cli)
  BY <1>1, <1>3 DEF Wires, Delivered, On, Opened
<1>6. (\A t \in Terminals : Stands(conns, held[t], at[t], told)) /\ Apart(held, at)
  BY <1>2, IdlePlace DEF Stands, Apart
<1>7. Agreed
  BY <1>2, <1>3, <1>4, <1>5, <1>6 DEF Agreed, Tidy
<1>8. Limits
  BY LifecycleAssumption DEF Init, Limits, Plans
<1> QED BY <1>7, <1>8, InitInvariant DEF RInv

(* The parts together: RInv is inductive.                                  *)
LEMMA StepRequests == RInv /\ [Next]_vars => RInv'
<1> SUFFICES ASSUME RInv, [Next]_vars PROVE RInv'
  OBVIOUS
<1>1. IInv' /\ Limits'
  BY StepInvariant, StepLimits DEF RInv
<1> SUFFICES Agreed'
  BY <1>1 DEF RInv
<1>2. CASE \E d \in Daemons : Daemon(d) \/ Crash(d)
  BY <1>2, DaemonAgreed
<1>3. CASE \/ \E t \in Terminals : Dispatch(t) \/ DropDead(t) \/ Leave(t) \/ CoolsDown(t)
           \/ \E t \in Terminals, r \in Requests : Ask(t, r)
  BY <1>3, TerminalAgreed
<1>4. CASE Cli
  BY <1>4, CliAgreed
<1>5. CASE UNCHANGED vars
  BY <1>5 DEF vars, RInv, Agreed
<1> QED BY <1>2, <1>3, <1>4, <1>5 DEF Next

(* Processes, connections, terminals and the command agree: what is open   *)
(* is what somebody holds, and the user of a question in mid-dispatch has  *)
(* not been told anything yet.                                             *)
LEMMA AgreedIsTyped == RInv => TypeOK
<1> SUFFICES ASSUME RInv PROVE TypeOK
  OBVIOUS
<1>1. Tidy(conns, held, at, told, cli)
  BY DEF RInv, Agreed
<1>2. /\ path \in Daemons \cup {Absent, Junk}
      /\ proc \in [Daemons -> {"unborn", "probe", "unlink", "bind", "raced", "bound", "up",
                               "closing", "dead"}]
      /\ timer \in [Daemons -> BOOLEAN]
  BY DEF RInv, IInv, Types, States
<1>3. ASSUME NEW i \in DOMAIN conns
      PROVE  /\ conns[i].to \in Daemons
             /\ conns[i].stage \in {"backlog", "accepted", "closed", "reset"}
             /\ conns[i].read \in 0..Len(conns[i].wrote)
             /\ conns[i].open <=>
                  (\E t \in Terminals : held[t] = i) \/ cli = [step |-> "query", about |-> i]
  <2>1. conns[i] \in ConnType /\ Wire(conns[i])
    BY <1>1 DEF Tidy, Wires
  <2>2. /\ conns[i].to \in Daemons
        /\ conns[i].stage \in {"backlog", "accepted", "closed", "reset"}
        /\ conns[i].read \in 0..Len(conns[i].wrote)
    BY <2>1 DEF ConnType, Wire
  <2> QED BY <1>1, <2>2 DEF Tidy, Opened
<1>4. told \in [Requests -> {"unasked", "asking", "sent", "unavailable"}]
  BY <1>1 DEF Tidy, Told
<1>5. \A t \in Terminals : at[t] # Idle => told[at[t].request] = "asking"
  BY <1>1 DEF Tidy, Stands
<1>6. cli.step \in {"idle", "query", "stale", "gone"}
  BY <1>1 DEF Tidy, CliType
<1> QED BY <1>2, <1>3, <1>4, <1>5, <1>6 DEF TypeOK, RInv, Limits

(* What a daemon read was written once, after a hello, by a terminal whose *)
(* user was told that it was sent.                                         *)
LEMMA AgreedIsHonest == RInv => RequestsAreHonest
<1> SUFFICES ASSUME RInv, NEW r \in Requests
             PROVE  LET Read == {i \in DOMAIN conns :
                                   \E k \in 1..conns[i].read : conns[i].wrote[k] = r}
                        Times(i) == Cardinality({k \in 1..conns[i].read :
                                                   conns[i].wrote[k] = r})
                    IN /\ Cardinality(Read) <= 1
                       /\ \A i \in Read : Times(i) = 1 /\ conns[i].wrote[1] = Hello
                       /\ told[r] # "sent" => Read = {}
  BY DEF RequestsAreHonest
<1> DEFINE Read == {i \in DOMAIN conns : \E k \in 1..conns[i].read : conns[i].wrote[k] = r}
           At(i) == {k \in 1..conns[i].read : conns[i].wrote[k] = r}
<1>1. Tidy(conns, held, at, told, cli)
  BY DEF RInv, Agreed
<1>2. ASSUME NEW i \in DOMAIN conns, NEW k \in 1..conns[i].read, conns[i].wrote[k] = r
      PROVE  On(conns, i, k, r) /\ conns[i].wrote[1] = Hello
  <2>1. conns[i] \in ConnType /\ Wire(conns[i])
    BY <1>1 DEF Tidy, Wires
  <2>2. /\ conns[i].wrote \in Seq(Lines) /\ conns[i].read \in Nat
        /\ conns[i].read <= Len(conns[i].wrote)
    BY <2>1 DEF ConnType, Wire
  <2>3. k \in DOMAIN conns[i].wrote /\ Len(conns[i].wrote) \in Nat /\ k <= Len(conns[i].wrote)
    BY <2>2
  <2>4. On(conns, i, k, r)
    BY <1>2, <2>3 DEF On
  <2>5. k # 1
    <3>1. Len(conns[i].wrote) > 0
      BY <2>3
    <3>2. conns[i].wrote[1] \in {Hello, StatusRequest}
      BY <2>1, <3>1 DEF Wire
    <3> QED BY <1>2, <3>2, NobodyApart
  <2>6. Len(conns[i].wrote) > 1
    BY <2>3, <2>5
  <2> QED BY <2>1, <2>4, <2>6 DEF Wire
<1>3. Delivered(conns, told)
  BY <1>1 DEF Tidy
<1>4. \A i, j \in Read : i = j
  BY <1>2, <1>3 DEF Delivered
<1>5. Cardinality(Read) <= 1
  <2>1. CASE Read = {}
    BY <2>1, FS_EmptySet
  <2>2. CASE Read # {}
    <3>1. PICK i \in Read : TRUE
      BY <2>2
    <3>2. Read = {i}
      BY <1>4, <3>1
    <3> HIDE DEF Read
    <3>3. Cardinality(Read) = 1
      BY <3>2, FS_Singleton
    <3> QED BY <3>3
  <2> QED BY <2>1, <2>2
<1>6. ASSUME NEW i \in Read
      PROVE  Cardinality(At(i)) = 1 /\ conns[i].wrote[1] = Hello
  <2>1. PICK k \in 1..conns[i].read : conns[i].wrote[k] = r
    OBVIOUS
  <2>2. \A l \in At(i) : l = k
    BY <1>2, <1>3, <2>1 DEF Delivered
  <2>3. At(i) = {k}
    BY <2>1, <2>2
  <2>4. conns[i].wrote[1] = Hello
    BY <1>2, <2>1
  <2> HIDE DEF At
  <2> QED BY <2>3, <2>4, FS_Singleton
<1>7. told[r] # "sent" => Read = {}
  BY <1>2, <1>3 DEF Delivered
<1> QED BY <1>5, <1>6, <1>7

(* A user is told "unavailable" only by the step that settles the question *)
(* of that terminal, and a second write fails on a connection of its own.  *)
LEMMA UnavailableStep ==
  ASSUME RInv, [Next]_vars, NEW t \in Terminals, at[t] # Idle,
         told[at[t].request] = "asking", told'[at[t].request] = "unavailable", Accepting(path),
         held[t] # Nobody
  PROVE  conns[held[t]].wrote = <<Hello>>
<1>1. Tidy(conns, held, at, told, cli)
  BY DEF RInv, Agreed
<1>2. at[t].step # "idle" /\ at[t].request \in Requests
  BY <1>1 DEF Tidy, Stands
<1>3. ASSUME NEW u \in Terminals, NEW answer, Settles(u, answer), at[u].step # "idle"
      PROVE  u = t /\ answer = "unavailable"
  <2>1. told' = [told EXCEPT ![at[u].request] = answer] /\ told \in [Requests -> Told]
    BY <1>1, <1>3 DEF Settles, Tidy
  <2>2. at[u].request = at[t].request
    BY <1>2, <2>1
  <2>3. u = t
    BY <1>1, <1>3, <2>2 DEF Tidy, Apart
  <2> QED BY <1>2, <2>1, <2>3
<1>4. CASE \E d \in Daemons : Daemon(d) \/ Crash(d)
  <2>1. told' = told
    BY <1>4 DEF Daemon, Crash, Probe, FindsAlive, Goes, UnlinkStale, Bind, Raced, Listening,
                IdleFires, CloseServer, Stop, Accept, ReadLine, Closed, terminalVars
  <2> QED BY <2>1
<1>5. CASE Cli
  <2>1. told' = told
    BY <1>5 DEF Cli, CliStop, CliRemoveStale, CliSignal, CliGone, CliStatus, CliStart,
                terminalVars
  <2> QED BY <2>1
<1>6. CASE UNCHANGED vars
  BY <1>6 DEF vars
<1>7. ASSUME NEW u \in Terminals, NEW r \in Requests, Ask(u, r)
      PROVE  FALSE
  BY <1>1, <1>2, <1>7 DEF Ask, Tidy
<1>8. ASSUME NEW u \in Terminals, Dispatch(u) \/ DropDead(u) \/ Leave(u) \/ CoolsDown(u)
      PROVE  conns[held[t]].wrote = <<Hello>>
  <2>1. CASE \E answer : Settles(u, answer) /\ at[u].step # "idle"
    <3>1. u = t /\ at[t].step # "idle" /\ Settles(t, "unavailable")
      BY <1>3, <2>1
    <3>2. SendFails(t) \/ SendNewline(t)
      BY <1>8, <2>1, <3>1 DEF Dispatch, Reuse, Connect, Spawn, GiveUp, SendLine, DropDead,
                              Leave, CoolsDown
    <3>3. ~SendNewline(t)
      <4>1. SendNewline(t) => told'[at[t].request] = "sent"
        BY <1>1, <1>2 DEF SendNewline, Settles, Tidy
      <4> QED BY <4>1
    <3>4. at[t].attempt = 2
      <4>1. at[t].attempt # 1
        BY <3>2, <3>3 DEF SendFails
      <4> QED BY <1>1, <1>2, <4>1 DEF Tidy, Stands
    <3> QED BY <1>1, <3>4 DEF Tidy, Stands
  <2>2. CASE told' = told
    BY <2>2
  <2> QED BY <1>8, <2>1, <2>2 DEF Dispatch, Reuse, Connect, Spawn, GiveUp, SendFails, SendLine,
                                   SendNewline, DropDead, Leave, CoolsDown
<1> QED BY <1>4, <1>5, <1>6, <1>7, <1>8 DEF Next

(* Connections, terminals and the command stay well formed, and daemons    *)
(* started together converge, in every run of every configuration          *)
(* (session.rs, daemon_cli.rs, lifecycle.ts).                              *)
THEOREM InstanceAlwaysSound == Spec => []InstanceSound
<1>1. RInv => InstanceSound
  BY AgreedIsTyped DEF RInv, IInv, InstanceSound
<1> QED BY <1>1, InitRequests, StepRequests, PTL DEF Spec

(* send_request of session.rs, with its one retry, its write in two parts  *)
(* and daemons that come and go: a question reaches one daemon once, after *)
(* a hello, and its user hears "unavailable" truthfully.                   *)
THEOREM QuestionsAlwaysHonest == Spec => TerminalsToldTruth
<1> DEFINE True(t) ==
      (/\ at[t] # Idle /\ told[at[t].request] = "asking"
       /\ told'[at[t].request] = "unavailable" /\ Accepting(path))
      => (held[t] # Nobody => conns[held[t]].wrote = <<Hello>>)
<1>1. RInv => RequestsAreHonest
  BY AgreedIsHonest
<1>2. RInv /\ [Next]_vars => [\A t \in Terminals : True(t)]_vars
  BY UnavailableStep
<1> QED BY <1>1, <1>2, InitRequests, StepRequests, PTL DEF Spec, TerminalsToldTruth,
                                                           UnavailableIsTrue
=============================================================================
