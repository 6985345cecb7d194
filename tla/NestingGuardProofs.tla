-------------------------- MODULE NestingGuardProofs --------------------------
(***************************************************************************)
(* Proofs for module NestingGuard: on any number of terminals, with any    *)
(* number of processes, and whatever order they start, fail and are killed *)
(* in, a terminal is wrapped once, a command knows the koshell around it,  *)
(* a terminal keeps a shell, and a fallback never wraps itself again.      *)
(* Ids are given out again freely; a tty whose marker names one that was   *)
(* is in `leaked`, and of it the guard, a command and an `exec koshell`    *)
(* may be wrong.                                                           *)
(*                                                                         *)
(* None of this can be seen from the guard alone.  It reads a marker, a    *)
(* process id in it and the brand in the environment, each of which may be *)
(* left over from somebody else.  That it is right rests on what the       *)
(* invariant adds: who holds a pts (MasterSound), whose process id a file  *)
(* may name (FilesSound), by whom a process was branded (Branded), and     *)
(* that everyone on a terminal hangs from a shell or from the koshell that *)
(* serves it (Parented), so that nobody is left on it when it is free.     *)
(*                                                                         *)
(* Each action has a lemma ...Step.  Most first say in a few fields what   *)
(* the step does to a process (Steps, Becomes, Born, Releases, Opens,      *)
(* Marks, Spawns) or to the files (Disowned), and then follow the          *)
(* conjuncts of the invariant.                                             *)
(***************************************************************************)
EXTENDS NestingGuard, TLAPS

(* What a process is made of in each phase.                                *)
Formed(p) ==
    /\ proc[p].kind = "shell" =>
         /\ proc[p].phase \in ShellPhases /\ ~proc[p].marked /\ proc[p].pts = NoOne
         /\ proc[p].auto => proc[p].origin = "new"
         /\ proc[p].phase = "preflight" => proc[p].auto
    /\ proc[p].kind = "koshell" =>
         /\ proc[p].phase \in KoshellPhases
         /\ proc[p].origin # "new"
         /\ proc[p].command => proc[p].origin = "typed"
         /\ proc[p].phase \notin {"guard", "open"} => proc[p].pts \in Ttys
         /\ proc[p].phase \in {"guard", "open"} => proc[p].pts = NoOne
         /\ proc[p].phase \in {"guard", "open", "version", "marker"} => ~proc[p].marked
    /\ Alive(p) /\ proc[p].origin = "auto" => shellFound

(* A koshell from the pts it opened to the removal of its files.           *)
Holding == {"version", "marker", "spawn", "raw", "running", "unmark", "unversion"}
Late == {"lateUnmark", "lateUnversion"}
Listed == {"spawn", "raw", "running", "unmark"}

(* A koshell holds its pts until it is done with the files, and nobody else holds a pts. *)
MasterSound ==
    /\ \A k \in Pids :
         proc[k].kind = "koshell" /\ proc[k].phase \in Holding => master[proc[k].pts] = k
    /\ \A k \in Pids :
         proc[k].kind = "koshell" /\ proc[k].phase \in Late =>
            master[proc[k].pts] = NoOne \/ proc[k].pts \in early
    /\ \A t \in Ttys : master[t] \in Pids =>
         /\ proc[master[t]].kind = "koshell" /\ proc[master[t]].pts = t
         /\ proc[master[t]].phase \in Holding \cup {"exit"}

(* A process on the pts of a koshell was branded by it, and leaves before it ends. *)
Branded(p) ==
    Alive(p) /\ master[proc[p].tty] \in Pids =>
       /\ proc[master[proc[p].tty]].phase \in {"raw", "running"}
       /\ proc[p].brand = Brand(master[proc[p].tty])

(* The files *)
FilesSound ==
    /\ \A t \in Ttys :
         marker[t] \in Pids /\ Alive(marker[t]) /\ t \notin leaked =>
            /\ proc[marker[t]].kind = "koshell" /\ proc[marker[t]].pts = t
            /\ proc[marker[t]].phase \in Listed \cup {"lateUnmark"}
            /\ proc[marker[t]].marked
    /\ \A k \in Pids :
         (proc[k].kind = "koshell" /\ proc[k].phase \in Listed /\ proc[k].marked
             /\ proc[k].pts \notin early)
         => marker[proc[k].pts] = k
    /\ \A k \in Pids :
         proc[k].kind = "koshell" /\ proc[k].phase \in Holding \ {"version"} =>
            version[proc[k].pts] \in {k, NoOne}

\* A live process hangs from a shell at its prompt on the same terminal, or its terminal
\* is hung up, or it is the child of the koshell that serves it; a terminal emulator may
\* have started anything but a koshell typed by hand.
Parented(p) ==
    Alive(p) =>
       \/ /\ proc[p].parent \in Pids /\ Shell(proc[p].parent, "prompt")
          /\ proc[proc[p].parent].tty = proc[p].tty
       \/ master[proc[p].tty] = NoOne
       \/ /\ master[proc[p].tty] \in Pids => proc[p].parent = master[proc[p].tty]
          /\ proc[p].kind = "koshell" => proc[p].origin # "typed"

\* A koshell past the guard sits on a terminal no live koshell serves, unless that
\* terminal was reused early.
Unnested(p) ==
    (proc[p].kind = "koshell"
        /\ proc[p].phase \in {"open", "version", "marker", "spawn", "raw", "running"})
    => master[proc[p].tty] \in {External, NoOne} \/ proc[p].tty \in early

\* A shell that was set up to wrap itself and got to its prompt with no brand-without-a-
\* tty is not on a bare terminal.
Outside(p) ==
    (Shell(p, "prompt") /\ proc[p].auto /\ proc[p].brand # Base /\ shellFound
        /\ proc[p].tty \notin early \cup leaked)
    => master[proc[p].tty] # External

\* The invariant about who is where.
Struct ==
    /\ TypeOK
    /\ \A p \in Pids : Formed(p) /\ Branded(p) /\ Parented(p) /\ Unnested(p) /\ Outside(p)
    /\ MasterSound /\ FilesSound

\* The inductive invariant.
IInv == Struct /\ TerminalKept

-----------------------------------------------------------------------------
\* The constants are told apart.
LEMMA Values ==
  /\ NoOne \notin Pids /\ External \notin Pids /\ External # NoOne
  /\ NoOne \notin Ttys /\ Base \notin Ttys /\ NoBrand \notin Ttys /\ NoBrand # Base
BY NestingAssumption DEF Pids, External

(* Nothing of a process but its phase changes, and of the others nothing.  *)
Steps(p, x) ==
    /\ \A r \in Pids : r # p => proc'[r] = proc[r]
    /\ proc'[p].phase = x
    /\ proc'[p].kind = proc[p].kind /\ proc'[p].parent = proc[p].parent
    /\ proc'[p].tty = proc[p].tty /\ proc'[p].brand = proc[p].brand
    /\ proc'[p].auto = proc[p].auto /\ proc'[p].pts = proc[p].pts
    /\ proc'[p].origin = proc[p].origin /\ proc'[p].command = proc[p].command
    /\ proc'[p].marked = proc[p].marked

\* Goto, by fields.
LEMMA PhaseChange ==
  ASSUME TypeOK, NEW p \in Pids, Alive(p), NEW x \in ShellPhases \cup KoshellPhases,
         Goto(p, x)
  PROVE  proc' \in [Pids -> Process \cup {Dead}] /\ Steps(p, x)
<1>1. proc[p] \in Process
  BY DEF TypeOK, Alive, Dead
<1>2. proc' = [proc EXCEPT ![p] = [proc[p] EXCEPT !.phase = x]]
  BY DEF Goto
<1>3. [proc[p] EXCEPT !.phase = x] \in Process
  BY <1>1 DEF Process
<1> QED BY <1>2, <1>3 DEF TypeOK, Steps

(* The live process a marker names serves the tty, unless the tty or the   *)
(* process id was reused.                                                  *)
LEMMA OwnerServes ==
  ASSUME Struct, NEW t \in Ttys, t \notin early \cup leaked, master[t] # NoOne,
         Owner(t) # NoOne
  PROVE  /\ Owner(t) \in Pids /\ Alive(Owner(t)) /\ master[t] = Owner(t)
         /\ proc[Owner(t)].phase \in Listed
<1>1. /\ marker[t] \in Pids /\ Alive(marker[t]) /\ Owner(t) = marker[t]
  BY DEF Owner, Struct, TypeOK
<1>2. /\ proc[marker[t]].kind = "koshell" /\ proc[marker[t]].pts = t
      /\ proc[marker[t]].phase \in Listed \cup {"lateUnmark"}
  BY <1>1 DEF Struct, FilesSound
<1>3. proc[marker[t]].phase # "lateUnmark"
  BY <1>1, <1>2 DEF Struct, MasterSound, Late
<1>4. master[t] = marker[t]
  BY <1>1, <1>2, <1>3 DEF Struct, MasterSound, Listed, Holding
<1> QED BY <1>1, <1>2, <1>3, <1>4

(* What the guard says of a process is true of its terminal.               *)
LEMMA GuardIsTrue ==
  ASSUME Struct, NEW p \in Pids, Alive(p), Attached(p), proc[p].tty \notin early
  PROVE  /\ ~ Nested(proc[p].brand, proc[p].tty) => master[proc[p].tty] = External
         /\ (/\ Nested(proc[p].brand, proc[p].tty) /\ proc[p].brand # Base
             /\ proc[p].tty \notin leaked)
              => master[proc[p].tty] \in Pids /\ Owner(proc[p].tty) = master[proc[p].tty]
<1> DEFINE t == proc[p].tty
           s == master[t]
<1>1. t \in Ttys /\ s # NoOne /\ s \in Pids \cup {External}
  BY DEF Struct, TypeOK, Alive, Dead, Process, Attached
<1>2. CASE s \in Pids
  <2>1. /\ proc[s].kind = "koshell" /\ proc[s].pts = t /\ proc[s].phase \in {"raw", "running"}
        /\ proc[p].brand = Brand(s)
    BY <1>2, <1>1 DEF Struct, MasterSound, Branded
  <2>2. ASSUME proc[s].marked PROVE Owner(t) = s
    <3>1. marker[t] = s
      BY <1>2, <2>1, <2>2 DEF Struct, FilesSound, Listed
    <3> QED BY <2>1, <3>1 DEF Owner, Alive
  <2>3. proc[p].brand = IF proc[s].marked THEN t ELSE Base
    BY <2>1 DEF Brand
  <2> QED BY <1>1, <1>2, <2>2, <2>3 DEF Nested
<1>3. CASE s = External
  <2>1. t \notin leaked => Owner(t) = NoOne
    BY <1>1, <1>3, OwnerServes, Values
  <2> QED BY <1>3, <2>1 DEF Nested
<1> QED BY <1>1, <1>2, <1>3

\* The rc file's snippet: KOSHELL_AUTO is set and the guard says no: preflight, else the
\* prompt.
LEMMA SnippetStep ==
  ASSUME Struct, NEW p \in Pids, Snippet(p) PROVE Struct'
<1>1. PICK x \in {"preflight", "prompt"} :
        /\ Goto(p, x)
        /\ x = IF proc[p].auto /\ ~Nested(proc[p].brand, proc[p].tty)
               THEN "preflight" ELSE "prompt"
  BY DEF Snippet
<1>2. Shell(p, "rc") /\ Attached(p) /\ Alive(p)
      /\ UNCHANGED <<master, marker, version, shellFound, early, stranded, leaked, left>>
  BY DEF Snippet, Shell, Alive, files, census
<1>3. TypeOK
  BY DEF Struct
<1>4. proc' \in [Pids -> Process \cup {Dead}] /\ Steps(p, x)
  BY <1>1, <1>2, <1>3, PhaseChange DEF ShellPhases
<1>5. TypeOK'
  BY <1>2, <1>3, <1>4 DEF TypeOK
<1>6. ASSUME NEW r \in Pids PROVE Formed(r)'
  BY <1>1, <1>2, <1>4 DEF Formed, Struct, Shell, Alive, ShellPhases, Steps
<1>7. ASSUME NEW r \in Pids PROVE Branded(r)'
  BY <1>2, <1>4 DEF Branded, Struct, Shell, Alive, Brand, Steps
<1>8. ASSUME NEW r \in Pids PROVE Parented(r)'
  BY <1>2, <1>4 DEF Parented, Struct, Shell, Alive, Steps
<1>9. ASSUME NEW r \in Pids PROVE Unnested(r)'
  BY <1>2, <1>4 DEF Unnested, Struct, Steps
<1>10. ASSUME NEW r \in Pids PROVE Outside(r)'
  <2>1. CASE r # p
    BY <1>2, <1>4, <2>1 DEF Outside, Struct, Shell, Steps
  <2>2. CASE r = p
    BY <1>1, <1>2, <1>4, <2>2, GuardIsTrue, Values DEF Outside, Shell, Steps
  <2> QED BY <2>1, <2>2
<1>11. MasterSound'
  BY <1>2, <1>4 DEF MasterSound, Struct, Shell, Steps
<1>12. FilesSound'
  BY <1>2, <1>4 DEF FilesSound, Struct, Shell, Alive, Steps
<1> QED BY <1>5, <1>6, <1>7, <1>8, <1>9, <1>10, <1>11, <1>12 DEF Struct

(* A shell becomes a koshell: `exec`, by hand or by the snippet.           *)
Becomes(p, origin) ==
    /\ \A r \in Pids : r # p => proc'[r] = proc[r]
    /\ proc'[p].kind = "koshell" /\ proc'[p].phase = "guard"
    /\ proc'[p].origin = origin /\ ~proc'[p].command
    /\ proc'[p].parent = proc[p].parent
    /\ proc'[p].tty = proc[p].tty /\ proc'[p].brand = proc[p].brand
    /\ proc'[p].pts = proc[p].pts /\ proc'[p].marked = proc[p].marked

\* AsKoshell, by fields.
LEMMA ShellReplaced ==
  ASSUME TypeOK, NEW p \in Pids, Alive(p), NEW origin \in {"auto", "exec"},
         proc' = [proc EXCEPT ![p] = AsKoshell(proc[p], origin, FALSE)]
  PROVE  proc' \in [Pids -> Process \cup {Dead}] /\ Becomes(p, origin)
<1>1. proc[p] \in Process
  BY DEF TypeOK, Alive, Dead
<1>2. AsKoshell(proc[p], origin, FALSE) \in Process
  BY <1>1 DEF AsKoshell, Process, KoshellPhases
<1> QED BY <1>2 DEF TypeOK, AsKoshell, Becomes

\* `exec koshell`, by the snippet after preflight or by hand.
LEMMA ReplacementStep ==
  ASSUME Struct, NEW p \in Pids, NEW origin \in {"auto", "exec"},
         (Shell(p, "prompt") /\ ~Waits(p)) \/ Shell(p, "preflight"),
         origin = "auto" => shellFound,
         proc' \in [Pids -> Process \cup {Dead}], Becomes(p, origin),
         UNCHANGED <<master, marker, version, shellFound, early, stranded, leaked, left>>
  PROVE  Struct'
<1>1. /\ Alive(p) /\ proc[p].kind = "shell" /\ proc[p].phase \in {"prompt", "preflight"}
      /\ proc[p].phase = "prompt" => ~Waits(p)
  BY DEF Shell, Alive
<1>2. /\ UNCHANGED <<master, marker, version, shellFound, early, stranded, leaked, left>>
      /\ origin = "auto" => shellFound
  OBVIOUS
<1>3. proc' \in [Pids -> Process \cup {Dead}] /\ Becomes(p, origin) /\ TypeOK
  BY DEF Struct
<1>4. TypeOK'
  BY <1>3 DEF TypeOK
<1>5. ASSUME NEW r \in Pids PROVE Formed(r)'
  BY DEF Formed, Struct, Shell, Alive, KoshellPhases, Becomes
<1>6. ASSUME NEW r \in Pids PROVE Branded(r)'
  BY <1>1, <1>2, <1>3, <1>4, Values DEF Branded, Struct, Shell, Koshell, Alive,
     Brand, MasterSound, TypeOK, Becomes
<1>7. ASSUME NEW r \in Pids PROVE Parented(r)'
  BY DEF Parented, Struct, Shell, Alive, Becomes, Waits
<1>8. ASSUME NEW r \in Pids PROVE Unnested(r)'
  BY DEF Unnested, Struct, Becomes
<1>9. ASSUME NEW r \in Pids PROVE Outside(r)'
  BY DEF Outside, Struct, Shell, Becomes
<1>10. MasterSound'
  BY <1>1, <1>2, <1>3, <1>4, Values DEF MasterSound, Struct, Shell, Koshell, TypeOK,
     Holding, Late, Becomes
<1>11. FilesSound'
  BY <1>1, <1>2, <1>3, <1>4, Values DEF FilesSound, Struct, Shell, Koshell, Alive,
     TypeOK, MasterSound, Holding, Late, Listed, Becomes
<1> QED BY <1>4, <1>5, <1>6, <1>7, <1>8, <1>9, <1>10, <1>11 DEF Struct

\* preflight refuses: nested, or no shell to be found.
LEMMA RefusalStep ==
  ASSUME Struct, NEW p \in Pids, Preflight(p), ~Ready(p)
  PROVE  Struct'
<1>1. /\ Shell(p, "preflight") /\ Attached(p) /\ Alive(p) /\ Goto(p, "prompt")
      /\ UNCHANGED <<master, marker, version, shellFound, early, stranded, leaked, left>>
      /\ Nested(proc[p].brand, proc[p].tty) \/ ~shellFound
  BY DEF Preflight, Ready, Shell, Alive, files, census
<1>2. TypeOK
  BY DEF Struct
<1>3. proc' \in [Pids -> Process \cup {Dead}] /\ Steps(p, "prompt")
  BY <1>1, <1>2, PhaseChange DEF ShellPhases
<1>4. TypeOK'
  BY <1>1, <1>2, <1>3 DEF TypeOK
<1>5. ASSUME NEW r \in Pids PROVE Formed(r)'
  BY <1>1, <1>3 DEF Formed, Struct, Shell, Alive, ShellPhases, Steps
<1>6. ASSUME NEW r \in Pids PROVE Branded(r)'
  BY <1>1, <1>3 DEF Branded, Struct, Shell, Alive, Brand, Steps
<1>7. ASSUME NEW r \in Pids PROVE Parented(r)'
  BY <1>1, <1>3 DEF Parented, Struct, Shell, Alive, Steps
<1>8. ASSUME NEW r \in Pids PROVE Unnested(r)'
  BY <1>1, <1>3 DEF Unnested, Struct, Steps
<1>9. ASSUME NEW r \in Pids PROVE Outside(r)'
  <2>1. CASE r # p
    BY <1>1, <1>3, <2>1 DEF Outside, Struct, Shell, Steps
  <2>2. CASE r = p
    BY <1>1, <1>3, <2>2, GuardIsTrue, Values DEF Outside, Steps
  <2> QED BY <2>1, <2>2
<1>10. MasterSound'
  BY <1>1, <1>3 DEF MasterSound, Struct, Shell, Steps
<1>11. FilesSound'
  BY <1>1, <1>3 DEF FilesSound, Struct, Shell, Alive, Steps
<1> QED BY <1>4, <1>5, <1>6, <1>7, <1>8, <1>9, <1>10, <1>11 DEF Struct

\* preflight, with either answer.
LEMMA PreflightStep ==
  ASSUME Struct, NEW p \in Pids, Preflight(p) PROVE Struct'
<1>1. CASE Ready(p)
  <2>1. /\ Shell(p, "preflight") /\ Alive(p) /\ shellFound /\ TypeOK
        /\ proc' = [proc EXCEPT ![p] = AsKoshell(proc[p], "auto", FALSE)]
        /\ UNCHANGED <<master, marker, version, shellFound, early, stranded, leaked, left>>
    BY <1>1 DEF Preflight, Ready, files, census, Shell, Alive, Struct
  <2>2. proc' \in [Pids -> Process \cup {Dead}] /\ Becomes(p, "auto")
    BY <2>1, ShellReplaced
  <2> QED BY <2>1, <2>2, ReplacementStep
<1> QED BY <1>1, RefusalStep

\* `exec koshell` typed at a prompt.
LEMMA TypeExecStep ==
  ASSUME Struct, NEW p \in Pids, TypeExec(p) PROVE Struct'
<1>1. /\ Shell(p, "prompt") /\ Alive(p) /\ ~Waits(p) /\ TypeOK
      /\ proc' = [proc EXCEPT ![p] = AsKoshell(proc[p], "exec", FALSE)]
      /\ UNCHANGED <<master, marker, version, shellFound, early, stranded, leaked, left>>
  BY DEF TypeExec, files, census, Shell, Alive, Struct
<1>2. proc' \in [Pids -> Process \cup {Dead}] /\ Becomes(p, "exec")
  BY <1>1, ShellReplaced
<1> QED BY <1>1, <1>2, ReplacementStep

(* A process is born under an id nothing names.                            *)
Born(q, parent, tty, brand) ==
    /\ \A r \in Pids : r # q => proc'[r] = proc[r]
    /\ \/ /\ proc'[q].kind = "shell" /\ proc'[q].phase = "rc"
          /\ proc'[q].origin = "new"
       \/ /\ proc'[q].kind = "koshell" /\ proc'[q].phase = "guard"
          /\ proc'[q].origin = "typed" /\ parent \in Pids
    /\ proc'[q].parent = parent /\ proc'[q].tty = tty /\ proc'[q].brand = brand
    /\ proc'[q].pts = NoOne /\ ~proc'[q].marked

\* NewShell and AsKoshell of it, by fields.
LEMMA BirthFields ==
  ASSUME TypeOK, NEW q \in Pids, NEW parent \in Pids \cup {External}, NEW tty \in Ttys,
         NEW brand \in {NoBrand, Base} \cup Ttys, NEW auto \in BOOLEAN,
         NEW command \in BOOLEAN,
         \/ proc' = [proc EXCEPT ![q] = NewShell(parent, tty, brand, auto)]
         \/ /\ proc' = [proc EXCEPT ![q] =
                   AsKoshell(NewShell(parent, tty, brand, auto), "typed", command)]
            /\ parent \in Pids
  PROVE  proc' \in [Pids -> Process \cup {Dead}] /\ Born(q, parent, tty, brand)
<1> DEFINE shell == NewShell(parent, tty, brand, auto)
           koshell == AsKoshell(shell, "typed", command)
<1>1. /\ shell \in Process /\ shell.kind = "shell" /\ shell.phase = "rc"
      /\ shell.origin = "new" /\ shell.parent = parent /\ shell.tty = tty
      /\ shell.brand = brand /\ shell.pts = NoOne /\ ~shell.marked
  BY DEF NewShell, Process, ShellPhases
<1> HIDE DEF shell
<1>2. /\ koshell \in Process /\ koshell.kind = "koshell" /\ koshell.phase = "guard"
      /\ koshell.origin = "typed" /\ koshell.parent = parent /\ koshell.tty = tty
      /\ koshell.brand = brand /\ koshell.pts = NoOne /\ ~koshell.marked
  BY <1>1 DEF AsKoshell, Process, KoshellPhases
<1> HIDE DEF koshell
<1>3. CASE proc' = [proc EXCEPT ![q] = shell]
  BY <1>1, <1>3 DEF TypeOK, Born
<1>4. CASE proc' = [proc EXCEPT ![q] = koshell] /\ parent \in Pids
  BY <1>2, <1>4 DEF TypeOK, Born
<1> QED BY <1>3, <1>4 DEF shell, koshell

\* A process id that is given out holds no pts and is nobody's parent.
LEMMA UnusedIsUnnamed ==
  ASSUME Struct, NEW q \in Pids, Unused(q)
  PROVE  /\ ~ Alive(q) /\ proc[q].kind = "dead"
         /\ \A t \in Ttys : master[t] # q
         /\ \A r \in Pids : Alive(r) => proc[r].parent # q
<1>1. proc[q] = Dead
  BY DEF Unused
<1>2. ~ Alive(q) /\ proc[q].kind = "dead"
  BY <1>1 DEF Alive, Dead
<1>3. \A t \in Ttys : master[t] # q
  BY <1>2 DEF Struct, MasterSound
<1> QED BY <1>2, <1>3 DEF Unused

(* The files that name an id that is given out: its old build is nobody's, *)
(* and a marker that names it is noted.                                    *)
Disowned(q) ==
    /\ version' \in [Ttys -> Pids \cup {OldBuild, NoOne}]
    /\ \A t \in Ttys : version[t] # q => version'[t] = version[t]
    /\ leaked' \subseteq Ttys /\ leaked \subseteq leaked'
    /\ \A t \in Ttys : marker[t] = q => t \in leaked'
    /\ left' \in [reused : Nat, failing : BOOLEAN]
    /\ UNCHANGED marker

\* GivenOut, by variables.
LEMMA IdsGivenOut ==
  ASSUME TypeOK, NEW q \in Pids, NewPid(q), GivenOut(q), UNCHANGED marker
  PROVE  Unused(q) /\ Disowned(q)
<1>1. left' \in [reused : Nat, failing : BOOLEAN]
  <2>1. CASE Named(q)
    BY <2>1 DEF NewPid, GivenOut, TypeOK
  <2>2. CASE ~Named(q)
    BY <2>2 DEF GivenOut, TypeOK
  <2> QED BY <2>1, <2>2
<1> QED BY <1>1 DEF NewPid, GivenOut, TypeOK, Disowned

\* No file of a koshell that is up is disturbed as an id is given out.
LEMMA BornFiles ==
  ASSUME Struct, NEW q \in Pids, ~Alive(q), Disowned(q), UNCHANGED early,
         \A r \in Pids : r # q => proc'[r] = proc[r],
         proc'[q].kind = "koshell" => proc'[q].phase = "guard"
  PROVE  FilesSound'
<1>1. \A k \in Pids :
        proc[k].kind = "koshell" /\ proc[k].phase \in Holding => proc[k].pts \in Ttys
  BY DEF Struct, Formed, Holding
<1>2. \A t \in Ttys : marker'[t] = marker[t] /\ (marker[t] = q => t \in leaked')
  BY DEF Disowned
<1>3. \A k \in Pids :
        k # q /\ proc[k].kind = "koshell" /\ proc[k].phase \in Holding \ {"version"} =>
           version'[proc[k].pts] \in {k, NoOne}
  BY <1>1, Values DEF Struct, FilesSound, Disowned
<1> QED BY <1>1, <1>2, <1>3 DEF FilesSound, Struct, Alive, Holding, Listed, Disowned

\* A process started at a prompt, shell or koshell, takes its terminal and its brand from
\* it.
LEMMA TypedStep ==
  ASSUME Struct, NEW p \in Pids, NEW q \in Pids, Shell(p, "prompt"), Unused(q),
         proc' \in [Pids -> Process \cup {Dead}],
         Born(q, p, proc[p].tty, proc[p].brand), Disowned(q),
         UNCHANGED <<master, shellFound, early, stranded>>
  PROVE  Struct'
<1>1. /\ ~ Alive(q) /\ proc[q].kind = "dead"
      /\ \A t \in Ttys : master[t] # q
      /\ \A r \in Pids : Alive(r) => proc[r].parent # q
  BY UnusedIsUnnamed
<1>2. /\ UNCHANGED <<master, shellFound, early, stranded>> /\ Disowned(q)
      /\ Shell(p, "prompt") /\ p # q /\ Alive(p)
  BY <1>1 DEF Shell, Alive
<1>3. /\ proc' \in [Pids -> Process \cup {Dead}] /\ TypeOK
      /\ Born(q, p, proc[p].tty, proc[p].brand)
  BY DEF Struct
<1>4. TypeOK'
  BY <1>3 DEF TypeOK, Disowned
<1>5. ASSUME NEW r \in Pids PROVE Formed(r)'
  BY DEF Formed, Struct, Alive, ShellPhases, KoshellPhases, Born
<1>6. ASSUME NEW r \in Pids PROVE Branded(r)'
  <2>1. \A s \in Pids : (\E t \in Ttys : master[t] = s) => proc'[s] = proc[s]
    BY <1>1 DEF Born
  <2>2. Branded(r) /\ Branded(p) /\ Alive(p)
    BY <1>2 DEF Struct
  <2>3. Alive(r)' => proc'[r].tty \in Ttys
    BY DEF Alive, Dead, Process
  <2>4. CASE r # q
    BY <2>1, <2>2, <2>3 DEF Branded, Alive, Brand, Born
  <2>5. CASE r = q
    BY <2>1, <2>2, <2>3 DEF Branded, Alive, Brand, Born
  <2> QED BY <2>4, <2>5
<1>7. ASSUME NEW r \in Pids PROVE Parented(r)'
  BY <1>1 DEF Parented, Struct, Shell, Alive, Born
<1>8. ASSUME NEW r \in Pids PROVE Unnested(r)'
  BY DEF Unnested, Struct, Born
<1>9. ASSUME NEW r \in Pids PROVE Outside(r)'
  BY DEF Outside, Struct, Shell, Born, Disowned
<1>10. MasterSound'
  BY <1>1 DEF MasterSound, Struct, Holding, Late, Born
<1>11. FilesSound'
  BY <1>1, BornFiles DEF Born
<1> QED BY <1>4, <1>5, <1>6, <1>7, <1>8, <1>9, <1>10, <1>11 DEF Struct

\* A shell is started at a prompt.
LEMMA TypeShellStep ==
  ASSUME Struct, NEW p \in Pids, NEW q \in Pids, TypeShell(p, q) PROVE Struct'
<1>1. /\ Shell(p, "prompt") /\ Alive(p) /\ Unused(q) /\ Disowned(q) /\ TypeOK
      /\ proc' = [proc EXCEPT ![q] = NewShell(p, proc[p].tty, proc[p].brand, proc[p].auto)]
      /\ UNCHANGED <<master, shellFound, early, stranded>>
  BY IdsGivenOut DEF TypeShell, Shell, Alive, Struct
<1>2. proc[p] \in Process
  BY <1>1 DEF TypeOK, Alive, Dead
<1>3. /\ proc[p].tty \in Ttys /\ proc[p].brand \in {NoBrand, Base} \cup Ttys
      /\ proc[p].auto \in BOOLEAN
  BY <1>2 DEF Process
<1>4. proc' \in [Pids -> Process \cup {Dead}] /\ Born(q, p, proc[p].tty, proc[p].brand)
  BY <1>1, <1>3, BirthFields
<1> QED BY <1>1, <1>4, TypedStep

\* A koshell is started at a prompt.
LEMMA TypeKoshellStep ==
  ASSUME Struct, NEW p \in Pids, NEW q \in Pids, NEW command \in BOOLEAN,
         TypeKoshell(p, q, command)
  PROVE  Struct'
<1>1. /\ Shell(p, "prompt") /\ Alive(p) /\ Unused(q) /\ Disowned(q) /\ TypeOK
      /\ proc' = [proc EXCEPT ![q] =
            AsKoshell(NewShell(p, proc[p].tty, proc[p].brand, proc[p].auto), "typed", command)]
      /\ UNCHANGED <<master, shellFound, early, stranded>>
  BY IdsGivenOut DEF TypeKoshell, Shell, Alive, Struct
<1>2. proc[p] \in Process
  BY <1>1 DEF TypeOK, Alive, Dead
<1>3. /\ proc[p].tty \in Ttys /\ proc[p].brand \in {NoBrand, Base} \cup Ttys
      /\ proc[p].auto \in BOOLEAN
  BY <1>2 DEF Process
<1>4. proc' \in [Pids -> Process \cup {Dead}] /\ Born(q, p, proc[p].tty, proc[p].brand)
  BY <1>1, <1>3, BirthFields
<1> QED BY <1>1, <1>4, TypedStep

(* A tty is given out when nobody is on it: a live process keeps its       *)
(* terminal, and a koshell that still has to remove a marker is recorded.  *)
LEMMA AllocationIsFresh ==
  ASSUME Struct, NEW t \in Ttys, Free(t)
  PROVE  /\ master[t] = NoOne
         /\ \A r \in Pids : Alive(r) => proc[r].tty # t
         /\ \A k \in Pids : proc[k].kind = "koshell" /\ proc[k].pts = t => proc[k].phase \notin Holding
         /\ \A k \in Pids : proc[k].kind = "koshell" /\ proc[k].phase \in Late /\ proc[k].pts = t
                              => t \in Reused(t)
         /\ \A u \in Ttys : u # t => (u \in Reused(t) <=> u \in early)
         /\ Reused(t) \subseteq Ttys
<1>1. master[t] = NoOne /\ On(t) = {}
  BY DEF Free
<1>2. \A r \in Pids : Alive(r) => proc[r].tty # t
  BY <1>1 DEF On
<1>3. \A k \in Pids : proc[k].kind = "koshell" /\ proc[k].pts = t => proc[k].phase \notin Holding
  BY <1>1, Values DEF Struct, MasterSound
<1>4. early \subseteq Ttys
  BY DEF Struct, TypeOK
<1> QED BY <1>1, <1>2, <1>3, <1>4 DEF Reused, Late

\* A new window, or a pane of a tmux server: a shell, branded by whatever environment its
\* server was started in.
LEMMA NewTerminalStep ==
  ASSUME Struct, NEW q \in Pids, NEW t \in Ttys,
         NEW brand \in {NoBrand, Base, t}, NewTerminal(q, t, brand)
  PROVE  Struct'
<1>1. /\ ~ Alive(q) /\ proc[q].kind = "dead"
      /\ \A u \in Ttys : master[u] # q
      /\ \A r \in Pids : Alive(r) => proc[r].parent # q
      /\ Disowned(q)
  BY UnusedIsUnnamed, IdsGivenOut DEF NewTerminal, Struct
<1>2. /\ master' = [master EXCEPT ![t] = External]
      /\ early' = Reused(t)
      /\ UNCHANGED <<marker, shellFound, stranded>>
  BY DEF NewTerminal
<1>3. proc' \in [Pids -> Process \cup {Dead}] /\ TypeOK /\ Born(q, External, t, brand)
  BY BirthFields DEF Struct, NewTerminal
<1>4. /\ master[t] = NoOne
      /\ \A r \in Pids : Alive(r) => proc[r].tty # t
      /\ \A k \in Pids : proc[k].kind = "koshell" /\ proc[k].pts = t => proc[k].phase \notin Holding
      /\ \A k \in Pids : proc[k].kind = "koshell" /\ proc[k].phase \in Late /\ proc[k].pts = t
                           => t \in early'
      /\ \A u \in Ttys : u # t => (u \in early' <=> u \in early)
      /\ early' \subseteq Ttys
  BY AllocationIsFresh DEF NewTerminal
<1>5. /\ master'[t] = External /\ \A u \in Ttys : u # t => master'[u] = master[u]
      /\ master' \in [Ttys -> Pids \cup {External, NoOne}]
  BY <1>2, <1>3 DEF TypeOK
<1>6. TypeOK'
  BY <1>1, <1>2, <1>3, <1>4 DEF TypeOK, Disowned
<1>7. ASSUME NEW r \in Pids PROVE Formed(r)'
  BY <1>2, <1>3 DEF Formed, Struct, Alive, ShellPhases, KoshellPhases, Born
<1>8. ASSUME NEW r \in Pids PROVE Branded(r)'
  <2>1. \A s \in Pids : (\E u \in Ttys : master[u] = s) => proc'[s] = proc[s]
    BY <1>1, <1>3 DEF Born
  <2>2. Branded(r)
    BY DEF Struct
  <2>3. Alive(r)' => proc'[r].tty \in Ttys
    BY <1>3 DEF Alive, Dead, Process
  <2>4. CASE r # q
    BY <1>3, <1>4, <1>5, <2>1, <2>2, <2>3, <2>4 DEF Branded, Alive, Brand, Born
  <2>5. CASE r = q
    BY <1>3, <1>5, <2>5, Values DEF Branded, Born
  <2> QED BY <2>4, <2>5
<1>9. ASSUME NEW r \in Pids PROVE Parented(r)'
  BY <1>1, <1>2, <1>3, <1>4, Values DEF Parented, Struct, Shell, Alive, Born
<1>10. ASSUME NEW r \in Pids PROVE Unnested(r)'
  BY <1>2, <1>3, <1>4 DEF Unnested, Struct, TypeOK, Born
<1>11. ASSUME NEW r \in Pids PROVE Outside(r)'
  BY <1>1, <1>2, <1>3, <1>4 DEF Outside, Struct, Shell, Alive, TypeOK, Born, Disowned
<1>12. MasterSound'
  BY <1>1, <1>2, <1>3, <1>4, Values DEF MasterSound, Struct, TypeOK, Born
<1>13. FilesSound'
  <2>1. \A k \in Pids :
          proc[k].kind = "koshell" /\ proc[k].phase \in Holding => proc[k].pts \in Ttys
    BY DEF Struct, Formed, Holding
  <2>2. \A u \in Ttys : marker'[u] = marker[u] /\ (marker[u] = q => u \in leaked')
    BY <1>1 DEF Disowned
  <2>3. \A k \in Pids :
          k # q /\ proc[k].kind = "koshell" /\ proc[k].phase \in Holding \ {"version"} =>
             version'[proc[k].pts] \in {k, NoOne}
    BY <1>1, <2>1, Values DEF Struct, FilesSound, Disowned
  <2> QED BY <1>1, <1>2, <1>3, <1>4, <2>1, <2>2, <2>3 DEF FilesSound, Struct, Alive,
         Holding, Listed, Born, Disowned
<1> QED BY <1>6, <1>7, <1>8, <1>9, <1>10, <1>11, <1>12, <1>13 DEF Struct

-----------------------------------------------------------------------------
(* The ways out. *)

(* What p held of the terminals is free again.                             *)
Releases(p) ==
    /\ master' \in [Ttys -> Pids \cup {External, NoOne}]
    /\ \A t \in Ttys : master'[t] = IF master[t] = p THEN NoOne ELSE master[t]

\* A process that ends or dies closes its descriptors: its pts is hung up.
LEMMA ClosedReleases ==
  ASSUME Struct, NEW k \in Pids, proc[k].kind = "koshell", master' = Closed(k)
  PROVE  Releases(k)
<1>1. /\ master \in [Ttys -> Pids \cup {External, NoOne}]
      /\ proc[k] \in Process
      /\ \A t \in Ttys : master[t] = k => proc[k].pts = t
  BY DEF Struct, TypeOK, Dead, MasterSound
<1>2. proc[k].pts \in Ttys \cup {NoOne}
  BY <1>1 DEF Process
<1>3. NoOne \notin Ttys
  BY Values
<1> QED BY <1>1, <1>2, <1>3 DEF Closed, Releases

\* A process that holds no pts releases none.
LEMMA NothingToRelease ==
  ASSUME Struct, NEW p \in Pids, UNCHANGED master,
         proc[p].kind = "koshell" => proc[p].phase \in {"guard", "open"}
  PROVE  Releases(p)
<1>1. \A t \in Ttys : master[t] # p
  BY DEF Struct, MasterSound, Holding
<1> QED BY <1>1 DEF Releases, Struct, TypeOK

\* The process is gone.
Dies(p) ==
    /\ \A r \in Pids : r # p => proc'[r] = proc[r]
    /\ proc'[p].kind = "dead"

\* Dead, by fields.
LEMMA Death ==
  ASSUME TypeOK, NEW p \in Pids, proc' = [proc EXCEPT ![p] = Dead]
  PROVE  proc' \in [Pids -> Process \cup {Dead}] /\ Dies(p)
BY DEF TypeOK, Dies, Dead

\* A koshell ends, or a shell that waits for nobody or whose terminal is hung up.
LEMMA DeathStep ==
  ASSUME Struct, NEW p \in Pids, Alive(p), proc' \in [Pids -> Process \cup {Dead}], Dies(p),
         Releases(p),
         UNCHANGED <<marker, version, shellFound, early, leaked, left>>,
         stranded' \subseteq {"misled", "auto", "exec", "typed"},
         proc[p].kind = "shell" => ~Waits(p) \/ ~Attached(p)
  PROVE  Struct'
<1>1. /\ UNCHANGED <<marker, version, shellFound, early, leaked, left>>
      /\ Alive(p) /\ Dies(p) /\ Releases(p)
      /\ proc[p].kind = "shell" => ~Waits(p) \/ ~Attached(p)
  OBVIOUS
<1>2. TypeOK /\ proc' \in [Pids -> Process \cup {Dead}]
  BY DEF Struct
<1>3. TypeOK'
  BY <1>2 DEF TypeOK, Releases
<1>4. \A r \in Pids : Alive(r) => proc[r].tty \in Ttys
  BY <1>2 DEF TypeOK, Alive, Dead, Process
<1>5. \A k \in Pids :
        proc[k].kind = "koshell" /\ proc[k].phase \in Holding \cup Late => proc[k].pts \in Ttys
  BY DEF Struct, Formed, Holding, Late
<1>6. ASSUME NEW r \in Pids PROVE Formed(r)'
  BY DEF Formed, Struct, Alive, Dies
<1>7. ASSUME NEW r \in Pids PROVE Branded(r)'
  BY <1>4, Values DEF Branded, Struct, Alive, Brand, Dies, Releases
<1>8. ASSUME NEW r \in Pids PROVE Parented(r)'
  BY <1>4 DEF Parented, Struct, Shell, Alive, Dies, Releases, Waits, Attached
<1>9. ASSUME NEW r \in Pids PROVE Unnested(r)'
  BY <1>4 DEF Unnested, Struct, Alive, Dies, Releases
<1>10. ASSUME NEW r \in Pids PROVE Outside(r)'
  BY <1>4, Values DEF Outside, Struct, Shell, Alive, Dies, Releases
<1>11. MasterSound'
  BY <1>5, Values DEF MasterSound, Struct, Dies, Releases
<1>12. FilesSound'
  BY DEF FilesSound, Struct, Alive, Dies
<1> QED BY <1>3, <1>6, <1>7, <1>8, <1>9, <1>10, <1>11, <1>12 DEF Struct

\* The koshell becomes the shell it had replaced (exec_fallback_shell).
FallsBack(p) ==
    /\ \A r \in Pids : r # p => proc'[r] = proc[r]
    /\ proc'[p].kind = "shell" /\ proc'[p].phase = "rc" /\ proc'[p].pts = NoOne
    /\ ~proc'[p].marked /\ ~proc'[p].auto
    /\ proc'[p].parent = proc[p].parent
    /\ proc'[p].tty = proc[p].tty /\ proc'[p].brand = proc[p].brand
    /\ proc'[p].origin = proc[p].origin

\* FallbackShell, by fields.
LEMMA Fallback ==
  ASSUME TypeOK, NEW p \in Pids, Alive(p), proc' = [proc EXCEPT ![p] = FallbackShell(p)]
  PROVE  proc' \in [Pids -> Process \cup {Dead}] /\ FallsBack(p)
<1>1. proc[p] \in Process
  BY DEF TypeOK, Alive, Dead
<1>2. FallbackShell(p) \in Process
  BY <1>1 DEF FallbackShell, Process, ShellPhases
<1> QED BY <1>2 DEF TypeOK, FallbackShell, FallsBack

\* A koshell falls back to a shell, which will not wrap itself.
LEMMA FallbackStep ==
  ASSUME Struct, NEW p \in Pids, proc[p].kind = "koshell",
         proc[p].phase \in {"guard", "open", "exit"},
         proc' \in [Pids -> Process \cup {Dead}], FallsBack(p), Releases(p),
         UNCHANGED <<marker, version, shellFound, early, stranded, leaked, left>>
  PROVE  Struct'
<1>1. /\ UNCHANGED <<marker, version, shellFound, early, stranded, leaked, left>>
      /\ FallsBack(p) /\ Releases(p) /\ proc[p].kind = "koshell"
      /\ proc[p].phase \in {"guard", "open", "exit"}
  OBVIOUS
<1>2. TypeOK /\ proc' \in [Pids -> Process \cup {Dead}]
  BY DEF Struct
<1>3. TypeOK'
  BY <1>2 DEF TypeOK, Releases
<1>4. \A r \in Pids : Alive(r) => proc[r].tty \in Ttys
  BY <1>2 DEF TypeOK, Alive, Dead, Process
<1>5. \A k \in Pids :
        proc[k].kind = "koshell" /\ proc[k].phase \in Holding \cup Late => proc[k].pts \in Ttys
  BY DEF Struct, Formed, Holding, Late
<1>6. ASSUME NEW r \in Pids PROVE Formed(r)'
  BY DEF Formed, Struct, Alive, ShellPhases, FallsBack
<1>7. ASSUME NEW r \in Pids PROVE Branded(r)'
  BY <1>4 DEF Branded, Struct, Alive, Brand, FallsBack, Releases
<1>8. ASSUME NEW r \in Pids PROVE Parented(r)'
  BY <1>4 DEF Parented, Struct, Shell, Alive, FallsBack, Releases
<1>9. ASSUME NEW r \in Pids PROVE Unnested(r)'
  BY <1>4 DEF Unnested, Struct, Alive, FallsBack, Releases
<1>10. ASSUME NEW r \in Pids PROVE Outside(r)'
  BY <1>4, Values DEF Outside, Struct, Shell, Alive, FallsBack, Releases
<1>11. MasterSound'
  BY <1>5, Values DEF MasterSound, Struct, FallsBack, Releases
<1>12. FilesSound'
  BY DEF FilesSound, Struct, Alive, Listed, FallsBack
<1> QED BY <1>3, <1>6, <1>7, <1>8, <1>9, <1>10, <1>11, <1>12 DEF Struct

(* However a koshell leaves, its terminals are free and no file of its own *)
(* is left that names it.                                                  *)
LEMMA LeaveStep ==
  ASSUME Struct, NEW p \in Pids, proc[p].kind = "koshell",
         proc[p].phase \in {"guard", "open", "exit"}, NEW failOpen, Leave(p, failOpen),
         Releases(p), UNCHANGED <<marker, version, shellFound, early, leaked, left>>
  PROVE  Struct'
<1> DEFINE falls == ~proc[p].command /\ failOpen /\ shellFound
<1>1. TypeOK /\ Alive(p)
  BY DEF Struct, Alive
<1>2. CASE falls
  <2>1. proc' = [proc EXCEPT ![p] = FallbackShell(p)] /\ UNCHANGED stranded
    BY <1>2 DEF Leave
  <2>2. proc' \in [Pids -> Process \cup {Dead}] /\ FallsBack(p)
    BY <1>1, <2>1, Fallback
  <2> QED BY <2>1, <2>2, FallbackStep
<1>3. CASE ~falls
  <2>1. /\ proc' = [proc EXCEPT ![p] = Dead]
        /\ stranded' \in {stranded, stranded \cup {proc[p].origin},
                          stranded \cup {"misled"}}
    BY <1>3 DEF Leave
  <2>2. proc' \in [Pids -> Process \cup {Dead}] /\ Dies(p)
    BY <1>1, <2>1, Death
  <2>3. proc[p].origin \in {"auto", "exec", "typed"}
    BY DEF Struct, Formed, TypeOK, Process, Dead
  <2>4. stranded' \subseteq {"misled", "auto", "exec", "typed"}
    BY <1>1, <2>1, <2>3 DEF TypeOK
  <2> QED BY <1>1, <2>2, <2>4, DeathStep
<1> QED BY <1>2, <1>3

(* A koshell that leaves strands nobody as long as main's fail-open        *)
(* applies, or somebody else's shell is there.                             *)
LEMMA LeaveStrandsNobody ==
  ASSUME IInv, NEW p \in Pids, proc[p].kind = "koshell", NEW failOpen,
         Leave(p, failOpen), UNCHANGED shellFound,
         \/ failOpen
         \/ /\ Nested(proc[p].brand, proc[p].tty) /\ ~failOpen
            /\ ReplacedTheShell(p) => failOpen
  PROVE  TerminalKept'
<1> DEFINE t == proc[p].tty
           falls == ~proc[p].command /\ failOpen /\ shellFound
           parent == proc[p].parent
           waited == /\ parent \in Pids /\ Alive(parent) /\ proc[parent].kind = "shell"
                     /\ proc[parent].tty = t
<1>1. TerminalKept /\ Struct /\ Alive(p)
  BY DEF IInv, Alive
<1>2. SUFFICES ASSUME ~falls, ~waited, Attached(p), t \notin early, t \notin leaked,
                      stranded' = stranded \cup {proc[p].origin}
               PROVE  ~shellFound /\ proc[p].origin # "auto"
  BY <1>1 DEF Leave, TerminalKept
<1>3. Formed(p) /\ Parented(p)
  BY <1>1 DEF Struct
<1>4. /\ master[t] # NoOne
      /\ master[t] \in Pids => parent = master[t]
      /\ proc[p].origin # "typed"
  BY <1>2, <1>3 DEF Parented, Attached, Shell, Alive
<1>5. ~proc[p].command
  BY <1>3, <1>4 DEF Formed
<1>6. ASSUME shellFound PROVE FALSE
  <2>1. ~failOpen /\ Nested(proc[p].brand, t) /\ ~ReplacedTheShell(p)
    BY <1>2, <1>5, <1>6
  <2>2. proc[p].brand \in Ttys /\ Owner(proc[p].brand) \notin {NoOne, parent}
    BY <2>1 DEF ReplacedTheShell
  <2>3. proc[p].brand # Base /\ proc[p].brand = t
    BY <2>1, <2>2, Values DEF Nested
  <2>4. master[t] \in Pids /\ Owner(t) = master[t]
    BY <1>1, <1>2, <2>1, <2>3, GuardIsTrue
  <2> QED BY <1>4, <2>2, <2>3, <2>4
<1>7. ~shellFound => proc[p].origin # "auto"
  BY <1>1, <1>3 DEF Formed
<1> QED BY <1>6, <1>7

\* A shell at its prompt exits.
LEMMA ExitShellStep ==
  ASSUME Struct, NEW p \in Pids, ExitShell(p) PROVE Struct'
<1>1. /\ Shell(p, "prompt") /\ ~Waits(p) /\ Alive(p) /\ proc[p].kind = "shell" /\ TypeOK
      /\ proc' = [proc EXCEPT ![p] = Dead]
      /\ UNCHANGED <<master, marker, version, shellFound, early, stranded, leaked, left>>
  BY DEF ExitShell, files, census, Shell, Alive, Struct
<1>2. Releases(p)
  BY <1>1, NothingToRelease
<1>3. proc' \in [Pids -> Process \cup {Dead}] /\ Dies(p)
  BY <1>1, Death
<1>4. stranded' \subseteq {"misled", "auto", "exec", "typed"}
  BY <1>1 DEF TypeOK
<1> QED BY <1>1, <1>2, <1>3, <1>4, DeathStep

\* SIGKILL of a koshell: its files stay.
LEMMA KillStep ==
  ASSUME Struct, NEW k \in Pids, Kill(k) PROVE Struct'
<1>1. /\ proc[k].kind = "koshell" /\ Alive(k) /\ TypeOK
      /\ proc' = [proc EXCEPT ![k] = Dead] /\ master' = Closed(k)
      /\ UNCHANGED <<marker, version, shellFound, early, stranded, leaked, left>>
  BY DEF Kill, files, census, Alive, Struct
<1>2. Releases(k)
  BY <1>1, ClosedReleases
<1>3. proc' \in [Pids -> Process \cup {Dead}] /\ Dies(k)
  BY <1>1, Death
<1>4. stranded' \subseteq {"misled", "auto", "exec", "typed"}
  BY <1>1 DEF TypeOK
<1> QED BY <1>1, <1>2, <1>3, <1>4, DeathStep

\* SIGHUP ends a process on a terminal that was hung up.
LEMMA HangUpStep ==
  ASSUME Struct, NEW p \in Pids, HangUp(p) PROVE Struct'
<1>1. /\ Alive(p) /\ ~Attached(p) /\ TypeOK
      /\ proc' = [proc EXCEPT ![p] = Dead]
      /\ master' = IF proc[p].kind = "koshell" THEN Closed(p) ELSE master
      /\ UNCHANGED <<marker, version, shellFound, early, stranded, leaked, left>>
  BY DEF HangUp, files, census, Struct
<1>2. Releases(p)
  BY <1>1, ClosedReleases, NothingToRelease
<1>3. proc' \in [Pids -> Process \cup {Dead}] /\ Dies(p)
  BY <1>1, Death
<1>4. stranded' \subseteq {"misled", "auto", "exec", "typed"}
  BY <1>1 DEF TypeOK
<1> QED BY <1>1, <1>2, <1>3, <1>4, DeathStep

\* The window of a terminal emulator is closed.
LEMMA CloseTerminalStep ==
  ASSUME Struct, NEW t \in Ttys, CloseTerminal(t)
  PROVE  Struct'
<1>1. /\ UNCHANGED <<proc, marker, version, shellFound, early, stranded, leaked, left>>
      /\ master' = [master EXCEPT ![t] = NoOne] /\ master[t] = External
  BY DEF CloseTerminal, files, census
<1>2. TypeOK
  BY DEF Struct
<1>3. TypeOK'
  BY <1>1, <1>2 DEF TypeOK
<1>4. \A r \in Pids : Alive(r) => proc[r].tty \in Ttys
  BY <1>2 DEF TypeOK, Alive, Dead, Process
<1>5. \A k \in Pids :
        proc[k].kind = "koshell" /\ proc[k].phase \in Holding \cup Late => proc[k].pts \in Ttys
  BY DEF Struct, Formed, Holding, Late
<1>6. ASSUME NEW r \in Pids PROVE Formed(r)'
  BY <1>1 DEF Formed, Struct, Alive
<1>7. ASSUME NEW r \in Pids PROVE Branded(r)'
  BY <1>1, Values DEF Branded, Struct, Alive, Brand
<1>8. ASSUME NEW r \in Pids PROVE Parented(r)'
  BY <1>1 DEF Parented, Struct, Shell, Alive
<1>9. ASSUME NEW r \in Pids PROVE Unnested(r)'
  BY <1>1 DEF Unnested, Struct
<1>10. ASSUME NEW r \in Pids PROVE Outside(r)'
  BY <1>1 DEF Outside, Struct, Shell
<1>11. MasterSound'
  BY <1>1, Values DEF MasterSound, Struct
<1>12. FilesSound'
  BY <1>1 DEF FilesSound, Struct, Alive
<1> QED BY <1>3, <1>6, <1>7, <1>8, <1>9, <1>10, <1>11, <1>12 DEF Struct

-----------------------------------------------------------------------------
(* The start of a session. *)

\* The session's own guard lets a koshell on: no live koshell serves its terminal.
LEMMA PassesGuard ==
  ASSUME Struct, NEW k \in Pids, Guard(k), ~Nested(proc[k].brand, proc[k].tty)
  PROVE  Struct'
<1>1. /\ Koshell(k, "guard") /\ Attached(k) /\ Alive(k) /\ Goto(k, "open")
      /\ UNCHANGED <<master, marker, version, shellFound, early, stranded, leaked, left>>
  BY DEF Guard, Koshell, Alive, files, census
<1>2. TypeOK
  BY DEF Struct
<1>3. proc' \in [Pids -> Process \cup {Dead}] /\ Steps(k, "open")
  BY <1>1, <1>2, PhaseChange DEF KoshellPhases
<1>4. TypeOK'
  BY <1>1, <1>2, <1>3 DEF TypeOK
<1>5. ASSUME NEW r \in Pids PROVE Formed(r)'
  BY <1>1, <1>3 DEF Formed, Struct, Koshell, Alive, KoshellPhases, Steps
<1>6. ASSUME NEW r \in Pids PROVE Branded(r)'
  BY <1>1, <1>2, <1>3, Values DEF Branded, Struct, Shell, Koshell, Alive, Brand,
     MasterSound, TypeOK, Steps
<1>7. ASSUME NEW r \in Pids PROVE Parented(r)'
  BY <1>1, <1>3 DEF Parented, Struct, Shell, Koshell, Alive, Steps
<1>8. ASSUME NEW r \in Pids PROVE Unnested(r)'
  <2>1. CASE r # k
    BY <1>1, <1>3, <2>1 DEF Unnested, Struct, Steps
  <2>2. CASE r = k
    BY <1>1, <1>3, <2>2, GuardIsTrue DEF Unnested, Steps
  <2> QED BY <2>1, <2>2
<1>9. ASSUME NEW r \in Pids PROVE Outside(r)'
  BY <1>1, <1>3 DEF Outside, Struct, Shell, Steps
<1>10. MasterSound'
  BY <1>1, <1>3 DEF MasterSound, Struct, Koshell, Holding, Late, Steps
<1>11. FilesSound'
  BY <1>1, <1>3 DEF FilesSound, Struct, Koshell, Alive, Holding, Listed, Steps
<1> QED BY <1>4, <1>5, <1>6, <1>7, <1>8, <1>9, <1>10, <1>11 DEF Struct

\* The guard of the session's start: on, or refused.
LEMMA GuardStep ==
  ASSUME Struct, NEW k \in Pids, Guard(k) PROVE Struct'
<1>1. CASE Nested(proc[k].brand, proc[k].tty)
  <2>1. /\ proc[k].kind = "koshell" /\ proc[k].phase = "guard"
        /\ Leave(k, ReplacedTheShell(k))
        /\ UNCHANGED <<master, marker, version, shellFound, early, leaked, left>>
    BY <1>1 DEF Guard, Koshell, files, census
  <2>2. Releases(k)
    BY <2>1, NothingToRelease
  <2> QED BY <2>1, <2>2, LeaveStep
<1> QED BY <1>1, PassesGuard

\* A koshell has been given the pts t.
Opens(k, t) ==
    /\ \A r \in Pids : r # k => proc'[r] = proc[r]
    /\ proc'[k].kind = "koshell" /\ proc'[k].phase = "version" /\ proc'[k].pts = t
    /\ ~proc'[k].marked
    /\ proc'[k].parent = proc[k].parent
    /\ proc'[k].tty = proc[k].tty /\ proc'[k].brand = proc[k].brand
    /\ proc'[k].origin = proc[k].origin /\ proc'[k].command = proc[k].command

\* The opened pts, by fields.
LEMMA OpenFields ==
  ASSUME TypeOK, NEW k \in Pids, Koshell(k, "open"), Formed(k), NEW t \in Ttys,
         proc' = [proc EXCEPT ![k].pts = t, ![k].phase = "version"]
  PROVE  proc' \in [Pids -> Process \cup {Dead}] /\ Opens(k, t)
<1>1. proc[k] \in Process /\ ~proc[k].marked /\ proc[k].kind = "koshell"
  BY DEF TypeOK, Koshell, Dead, Formed
<1>2. [proc[k] EXCEPT !.pts = t, !.phase = "version"] \in Process
  BY <1>1 DEF Process, KoshellPhases
<1>3. proc' = [proc EXCEPT ![k] = [proc[k] EXCEPT !.pts = t, !.phase = "version"]]
  BY <1>1 DEF TypeOK
<1> QED BY <1>1, <1>3 DEF TypeOK, Process, Opens

\* openpty gives a koshell a terminal nobody is on; `early` notes one that a failed
\* koshell still has to clean up.
LEMMA OpensStep ==
  ASSUME Struct, NEW k \in Pids, Koshell(k, "open"), NEW t \in Ttys, Free(t),
         master' = [master EXCEPT ![t] = k], early' = Reused(t),
         proc' \in [Pids -> Process \cup {Dead}], Opens(k, t),
         UNCHANGED <<marker, version, shellFound, stranded, leaked, left>>
  PROVE  Struct'
<1>1. /\ Koshell(k, "open") /\ Alive(k) /\ Opens(k, t)
      /\ UNCHANGED <<marker, version, shellFound, stranded, leaked, left>>
  BY DEF Koshell, Alive
<1>2. proc' \in [Pids -> Process \cup {Dead}] /\ TypeOK
  BY DEF Struct
<1>3. /\ master[t] = NoOne
      /\ \A r \in Pids : Alive(r) => proc[r].tty # t
      /\ \A j \in Pids : proc[j].kind = "koshell" /\ proc[j].pts = t => proc[j].phase \notin Holding
      /\ \A j \in Pids : proc[j].kind = "koshell" /\ proc[j].phase \in Late /\ proc[j].pts = t
                           => t \in early'
      /\ \A u \in Ttys : u # t => (u \in early' <=> u \in early)
      /\ early' \subseteq Ttys
  BY AllocationIsFresh
<1>4. /\ master'[t] = k /\ \A u \in Ttys : u # t => master'[u] = master[u]
      /\ master' \in [Ttys -> Pids \cup {External, NoOne}]
  BY <1>2 DEF TypeOK
<1>5. TypeOK'
  BY <1>2, <1>3 DEF TypeOK
<1>6. /\ \A r \in Pids : Alive(r) => proc[r].tty \in Ttys
      /\ \A j \in Pids :
           proc[j].kind = "koshell" /\ proc[j].phase \in Holding \cup Late => proc[j].pts \in Ttys
  BY DEF Struct, Formed, Holding, Late, TypeOK, Alive, Dead, Process
<1>7. ASSUME NEW r \in Pids PROVE Formed(r)'
  BY DEF Formed, Struct, Koshell, Alive, KoshellPhases, Opens
<1>8. ASSUME NEW r \in Pids PROVE Branded(r)'
  BY <1>3 DEF Branded, Struct, Koshell, Alive, Brand, Opens
<1>9. ASSUME NEW r \in Pids PROVE Parented(r)'
  BY <1>3 DEF Parented, Struct, Shell, Koshell, Alive, Opens
<1>10. ASSUME NEW r \in Pids PROVE Unnested(r)'
  BY <1>3 DEF Unnested, Struct, Koshell, Alive, TypeOK, Opens
<1>11. ASSUME NEW r \in Pids PROVE Outside(r)'
  BY <1>3 DEF Outside, Struct, Shell, Alive, TypeOK, Opens
<1>12. MasterSound'
  BY <1>3 DEF MasterSound, Struct, Koshell, TypeOK, Holding, Late, Opens
<1>13. FilesSound'
  BY <1>3 DEF FilesSound, Struct, Koshell, Alive, TypeOK, Holding, Listed, Opens
<1> QED BY <1>5, <1>7, <1>8, <1>9, <1>10, <1>11, <1>12, <1>13 DEF Struct

\* openpty, or its failure.
LEMMA OpenStep ==
  ASSUME Struct, NEW k \in Pids, Open(k) PROVE Struct'
<1>1. /\ Koshell(k, "open") /\ proc[k].kind = "koshell" /\ proc[k].phase = "open"
      /\ UNCHANGED <<marker, version, shellFound, leaked, left>>
  BY DEF Open, Koshell, files, census
<1>2. CASE Leave(k, TRUE) /\ UNCHANGED <<master, early>>
  BY <1>1, <1>2, NothingToRelease, LeaveStep
<1>3. ASSUME NEW t \in Ttys, Free(t), master' = [master EXCEPT ![t] = k], early' = Reused(t),
             proc' = [proc EXCEPT ![k].pts = t, ![k].phase = "version"], UNCHANGED stranded
      PROVE  Struct'
  <2>1. TypeOK /\ Formed(k)
    BY DEF Struct
  <2>2. proc' \in [Pids -> Process \cup {Dead}] /\ Opens(k, t)
    BY <1>1, <1>3, <2>1, OpenFields
  <2> QED BY <1>1, <1>3, <2>2, OpensStep
<1> QED BY <1>2, <1>3 DEF Open

\* The version file is written, before the marker.
LEMMA WriteVersionStep ==
  ASSUME Struct, NEW k \in Pids, WriteVersion(k)
  PROVE  Struct'
<1>1. /\ Koshell(k, "version") /\ Alive(k) /\ Goto(k, "marker")
      /\ UNCHANGED <<master, marker, shellFound, early, stranded, leaked, left>>
  BY DEF WriteVersion, Koshell, Alive, census
<1>2. TypeOK
  BY DEF Struct
<1>3. proc' \in [Pids -> Process \cup {Dead}] /\ Steps(k, "marker")
  BY <1>1, <1>2, PhaseChange DEF KoshellPhases
<1>4. proc[k].pts \in Ttys /\ master[proc[k].pts] = k
  BY <1>1 DEF Struct, Formed, MasterSound, Holding, Koshell
<1>5. /\ version' \in [Ttys -> Pids \cup {OldBuild, NoOne}]
      /\ version'[proc[k].pts] \in {k, NoOne}
      /\ \A t \in Ttys : t # proc[k].pts => version'[t] = version[t]
  BY <1>2, <1>4 DEF WriteVersion, TypeOK, Written
<1>6. TypeOK'
  BY <1>1, <1>2, <1>3, <1>5 DEF TypeOK
<1>7. \A j \in Pids :
        proc[j].kind = "koshell" /\ proc[j].phase \in Holding =>
           proc[j].pts \in Ttys /\ master[proc[j].pts] = j
  BY DEF Struct, Formed, MasterSound, Holding
<1>8. ASSUME NEW r \in Pids PROVE Formed(r)'
  BY <1>1, <1>3 DEF Formed, Struct, Koshell, Alive, KoshellPhases, Steps
<1>9. ASSUME NEW r \in Pids PROVE Branded(r)'
  BY <1>1, <1>3 DEF Branded, Struct, Koshell, Alive, Brand, Steps
<1>10. ASSUME NEW r \in Pids PROVE Parented(r)'
  BY <1>1, <1>3 DEF Parented, Struct, Shell, Koshell, Alive, Steps
<1>11. ASSUME NEW r \in Pids PROVE Unnested(r)'
  BY <1>1, <1>3 DEF Unnested, Struct, Koshell, Steps
<1>12. ASSUME NEW r \in Pids PROVE Outside(r)'
  BY <1>1, <1>3 DEF Outside, Struct, Shell, Steps
<1>13. MasterSound'
  BY <1>1, <1>3, <1>4 DEF MasterSound, Struct, Holding, Late, Steps
<1>14. FilesSound'
  BY <1>1, <1>3, <1>4, <1>5, <1>7 DEF FilesSound, Struct, Koshell, Alive, Listed,
     Steps
<1> QED BY <1>6, <1>8, <1>9, <1>10, <1>11, <1>12, <1>13, <1>14 DEF Struct

\* A koshell has written its marker, or failed to.
Marks(k, written) ==
    /\ \A r \in Pids : r # k => proc'[r] = proc[r]
    /\ proc'[k].phase = "spawn" /\ proc'[k].marked = written
    /\ proc'[k].kind = proc[k].kind /\ proc'[k].pts = proc[k].pts
    /\ proc'[k].parent = proc[k].parent
    /\ proc'[k].tty = proc[k].tty /\ proc'[k].brand = proc[k].brand
    /\ proc'[k].origin = proc[k].origin /\ proc'[k].command = proc[k].command

\* WriteMarker, by fields.
LEMMA MarkFields ==
  ASSUME TypeOK, NEW k \in Pids, Alive(k), NEW written \in BOOLEAN,
         proc' = [proc EXCEPT ![k].phase = "spawn", ![k].marked = written]
  PROVE  proc' \in [Pids -> Process \cup {Dead}] /\ Marks(k, written)
<1>1. proc[k] \in Process
  BY DEF TypeOK, Alive, Dead
<1>2. [proc[k] EXCEPT !.phase = "spawn", !.marked = written] \in Process
  BY <1>1 DEF Process, KoshellPhases
<1>3. proc' = [proc EXCEPT ![k] = [proc[k] EXCEPT !.phase = "spawn", !.marked = written]]
  BY <1>1 DEF TypeOK
<1> QED BY <1>2 DEF TypeOK, Marks

\* The marker is written with the koshell's process id.
LEMMA WriteMarkerStep ==
  ASSUME Struct, NEW k \in Pids, WriteMarker(k)
  PROVE  Struct'
<1>1. /\ Koshell(k, "marker") /\ Alive(k)
      /\ UNCHANGED <<master, shellFound, early, stranded, left>>
      /\ leaked' = leaked \ {proc[k].pts}
  BY DEF WriteMarker, Koshell, Alive
<1>2. TypeOK
  BY DEF Struct
<1>3. PICK written \in BOOLEAN :
        /\ marker' = [marker EXCEPT ![proc[k].pts] = IF written THEN k ELSE NoOne]
        /\ version' = IF written THEN version
                      ELSE [version EXCEPT ![proc[k].pts] = NoOne]
        /\ proc' = [proc EXCEPT ![k].phase = "spawn", ![k].marked = written]
  BY DEF WriteMarker, Written, Struct, TypeOK
<1>4. proc' \in [Pids -> Process \cup {Dead}] /\ Marks(k, written)
  BY <1>1, <1>2, <1>3, MarkFields
<1>5. \A j \in Pids :
        proc[j].kind = "koshell" /\ proc[j].phase \in Holding =>
           proc[j].pts \in Ttys /\ master[proc[j].pts] = j
  BY DEF Struct, Formed, MasterSound, Holding
<1>6. proc[k].pts \in Ttys /\ master[proc[k].pts] = k
  BY <1>1, <1>5 DEF Koshell, Holding
<1>7. /\ marker' \in [Ttys -> Pids \cup {NoOne}]
      /\ marker'[proc[k].pts] = IF written THEN k ELSE NoOne
      /\ \A t \in Ttys : t # proc[k].pts => marker'[t] = marker[t]
  BY <1>2, <1>3, <1>6 DEF TypeOK
<1>8. /\ version' \in [Ttys -> Pids \cup {OldBuild, NoOne}]
      /\ version'[proc[k].pts] \in {version[proc[k].pts], NoOne}
      /\ \A t \in Ttys : t # proc[k].pts => version'[t] = version[t]
  BY <1>2, <1>3, <1>6 DEF TypeOK
<1>9. TypeOK'
  BY <1>1, <1>2, <1>4, <1>7, <1>8 DEF TypeOK
<1>10. ASSUME NEW r \in Pids PROVE Formed(r)'
  BY <1>1, <1>4 DEF Formed, Struct, Koshell, Alive, KoshellPhases, Marks
<1>11. ASSUME NEW r \in Pids PROVE Branded(r)'
  BY <1>1, <1>4 DEF Branded, Struct, Koshell, Alive, Brand, Marks
<1>12. ASSUME NEW r \in Pids PROVE Parented(r)'
  BY <1>1, <1>4 DEF Parented, Struct, Shell, Koshell, Alive, Marks
<1>13. ASSUME NEW r \in Pids PROVE Unnested(r)'
  BY <1>1, <1>4 DEF Unnested, Struct, Koshell, Marks
<1>14. ASSUME NEW r \in Pids PROVE Outside(r)'
  BY <1>1, <1>4, <1>6, Values DEF Outside, Struct, Shell, Marks
<1>15. MasterSound'
  BY <1>1, <1>4 DEF MasterSound, Struct, Koshell, Holding, Late, Marks
<1>16. FilesSound'
  BY <1>1, <1>4, <1>5, <1>7, <1>8, Values DEF FilesSound, Struct, Koshell, Alive,
     Holding, Listed, Marks
<1> QED BY <1>9, <1>10, <1>11, <1>12, <1>13, <1>14, <1>15, <1>16 DEF Struct

\* A koshell has started its shell q on its pts.
Spawns(k, q) ==
    /\ \A r \in Pids : r \notin {k, q} => proc'[r] = proc[r]
    /\ proc'[k].phase = "raw"
    /\ proc'[k].kind = proc[k].kind /\ proc'[k].pts = proc[k].pts
    /\ proc'[k].marked = proc[k].marked
    /\ proc'[k].parent = proc[k].parent
    /\ proc'[k].tty = proc[k].tty /\ proc'[k].brand = proc[k].brand
    /\ proc'[k].origin = proc[k].origin /\ proc'[k].command = proc[k].command
    /\ proc'[q].kind = "shell" /\ proc'[q].phase = "rc" /\ proc'[q].origin = "new"
    /\ proc'[q].parent = k /\ proc'[q].tty = proc[k].pts /\ proc'[q].brand = Brand(k)
    /\ proc'[q].pts = NoOne /\ ~proc'[q].marked

\* The spawned shell, by fields.
LEMMA SpawnFields ==
  ASSUME TypeOK, NEW k \in Pids, Koshell(k, "spawn"), NEW q \in Pids, q # k,
         proc[k].pts \in Ttys,
         proc' = [proc EXCEPT ![q] = NewShell(k, proc[k].pts, Brand(k), proc[k].auto),
                              ![k].phase = "raw"]
  PROVE  proc' \in [Pids -> Process \cup {Dead}] /\ Spawns(k, q)
<1> DEFINE child == NewShell(k, proc[k].pts, Brand(k), proc[k].auto)
<1>1. proc[k] \in Process
  BY DEF TypeOK, Koshell, Dead
<1>2. [proc[k] EXCEPT !.phase = "raw"] \in Process
  BY <1>1 DEF Process, KoshellPhases
<1>3. Brand(k) \in {NoBrand, Base} \cup Ttys
  BY DEF Brand
<1> HIDE DEF child
<1>4. /\ child \in Process /\ child.kind = "shell" /\ child.phase = "rc"
      /\ child.origin = "new" /\ child.parent = k /\ child.tty = proc[k].pts
      /\ child.brand = Brand(k) /\ child.pts = NoOne /\ ~child.marked
  BY <1>1, <1>3 DEF child, NewShell, Process, ShellPhases
<1>5. proc' = [proc EXCEPT ![q] = child, ![k] = [proc[k] EXCEPT !.phase = "raw"]]
  BY <1>1 DEF TypeOK, child
<1> QED BY <1>1, <1>2, <1>4, <1>5 DEF TypeOK, Process, Spawns

\* The shell of the session is started, branded with the pts if that is marked.
LEMMA SpawnsStep ==
  ASSUME Struct, NEW k \in Pids, Koshell(k, "spawn"), NEW q \in Pids, Unused(q),
         proc' \in [Pids -> Process \cup {Dead}], Spawns(k, q),
         Disowned(q), UNCHANGED <<master, shellFound, early, stranded>>
  PROVE  Struct'
<1>1. /\ ~ Alive(q) /\ proc[q].kind = "dead"
      /\ \A t \in Ttys : master[t] # q
      /\ \A r \in Pids : Alive(r) => proc[r].parent # q
  BY UnusedIsUnnamed
<1>2. /\ UNCHANGED <<master, shellFound, early, stranded>> /\ Disowned(q)
      /\ Koshell(k, "spawn") /\ Alive(k) /\ k # q /\ Spawns(k, q)
  BY <1>1 DEF Koshell, Alive
<1>3. TypeOK /\ proc' \in [Pids -> Process \cup {Dead}]
  BY DEF Struct
<1>4. TypeOK'
  BY <1>3 DEF TypeOK, Disowned
<1>5. proc[k].pts \in Ttys /\ master[proc[k].pts] = k
  BY DEF Struct, Formed, MasterSound, Holding, Koshell
<1>6. ASSUME NEW r \in Pids PROVE Formed(r)'
  BY DEF Formed, Struct, Koshell, Alive, ShellPhases, KoshellPhases, Spawns
<1>7. ASSUME NEW r \in Pids PROVE Branded(r)'
  <2>1. Branded(r) /\ \A s \in Pids \ {k, q} : proc'[s] = proc[s]
    BY DEF Struct, Spawns
  <2>2. CASE r \notin {k, q}
    <3>1. Alive(r) => master[proc[r].tty] # k
      BY <2>1 DEF Branded, Koshell
    <3> QED BY <1>1, <1>2, <1>3, <2>1, <2>2, <3>1 DEF Branded, Brand, Alive, Spawns,
               TypeOK, Dead, Process
  <2>3. CASE r = k
    <3>1. master[proc[k].tty] # k
      BY <2>1, <2>3, <1>2 DEF Branded, Koshell
    <3> QED BY <1>1, <1>2, <2>1, <2>3 DEF Branded, Brand, Alive, Spawns, Dead,
               Process
  <2>4. CASE r = q
    BY <1>5, <2>4 DEF Branded, Brand, Spawns
  <2> QED BY <2>2, <2>3, <2>4
<1>8. ASSUME NEW r \in Pids PROVE Parented(r)'
  BY <1>1, <1>5 DEF Parented, Struct, Shell, Alive, MasterSound, Spawns
<1>9. ASSUME NEW r \in Pids PROVE Unnested(r)'
  BY DEF Unnested, Struct, Koshell, Spawns
<1>10. ASSUME NEW r \in Pids PROVE Outside(r)'
  BY DEF Outside, Struct, Shell, Spawns, Disowned
<1>11. MasterSound'
  BY <1>1 DEF MasterSound, Struct, Koshell, Holding, Late, Spawns
<1>12. FilesSound'
  <2>1. \A j \in Pids :
          proc[j].kind = "koshell" /\ proc[j].phase \in Holding => proc[j].pts \in Ttys
    BY DEF Struct, Formed, Holding
  <2>2. \A t \in Ttys : marker'[t] = marker[t] /\ (marker[t] = q => t \in leaked')
    BY DEF Disowned
  <2>3. \A j \in Pids :
          j # q /\ proc[j].kind = "koshell" /\ proc[j].phase \in Holding \ {"version"} =>
             version'[proc[j].pts] \in {j, NoOne}
    BY <1>1, <2>1, Values DEF Struct, FilesSound, Disowned
  <2> QED BY <1>1, <1>2, <2>1, <2>2, <2>3 DEF FilesSound, Struct, Koshell, Alive, Holding,
         Listed, Spawns, Disowned
<1> QED BY <1>4, <1>6, <1>7, <1>8, <1>9, <1>10, <1>11, <1>12 DEF Struct

(* A koshell gives up, or its session ends, before it removes its files.   *)

LEMMA GivesUp ==
  ASSUME Struct, NEW k \in Pids, Koshell(k, "spawn") \/ (Koshell(k, "running") /\ On(proc[k].pts) = {}),
         Goto(k, IF proc[k].marked THEN "unmark" ELSE "exit"),
         UNCHANGED <<master, marker, version, shellFound, early, stranded, leaked, left>>
  PROVE  Struct'
<1>1. PICK x \in {"unmark", "exit"} : Goto(k, x) /\ (x = "exit" => ~proc[k].marked)
  OBVIOUS
<1>2. /\ UNCHANGED <<master, marker, version, shellFound, early, stranded, leaked, left>>
      /\ Alive(k) /\ proc[k].kind = "koshell" /\ proc[k].phase \in {"spawn", "running"}
  BY DEF Koshell, Alive
<1>3. TypeOK
  BY DEF Struct
<1>4. proc' \in [Pids -> Process \cup {Dead}] /\ Steps(k, x)
  BY <1>1, <1>2, <1>3, PhaseChange DEF KoshellPhases
<1>5. TypeOK'
  BY <1>3, <1>4 DEF TypeOK
<1>6. proc[k].pts \in Ttys /\ master[proc[k].pts] = k
  BY <1>2 DEF Struct, Formed, MasterSound, Holding
<1>7. \A r \in Pids : Alive(r) => master[proc[r].tty] # k
  <2>1. ASSUME NEW r \in Pids, Alive(r), master[proc[r].tty] = k PROVE FALSE
    <3>1. proc[k].phase \in {"raw", "running"}
      BY <2>1 DEF Struct, Branded
    <3>2. proc[r].tty = proc[k].pts
      BY <2>1 DEF Struct, MasterSound, TypeOK, Alive, Dead, Process
    <3> QED BY <2>1, <3>1, <3>2 DEF Koshell, On
  <2> QED BY <2>1
<1>8. ASSUME NEW r \in Pids PROVE Formed(r)'
  BY <1>4 DEF Formed, Struct, Koshell, Alive, KoshellPhases, Steps
<1>9. ASSUME NEW r \in Pids PROVE Branded(r)'
  BY <1>4, <1>7 DEF Branded, Struct, Alive, Brand, Steps
<1>10. ASSUME NEW r \in Pids PROVE Parented(r)'
  BY <1>4 DEF Parented, Struct, Shell, Koshell, Alive, Steps
<1>11. ASSUME NEW r \in Pids PROVE Unnested(r)'
  BY <1>4 DEF Unnested, Struct, Steps
<1>12. ASSUME NEW r \in Pids PROVE Outside(r)'
  BY <1>4 DEF Outside, Struct, Shell, Steps
<1>13. MasterSound'
  BY <1>4 DEF MasterSound, Struct, Koshell, Holding, Late, Steps
<1>14. FilesSound'
  BY <1>1, <1>2, <1>4 DEF FilesSound, Struct, Alive, Holding, Listed, Steps
<1> QED BY <1>5, <1>8, <1>9, <1>10, <1>11, <1>12, <1>13, <1>14 DEF Struct

\* spawn, or its failure.
LEMMA SpawnStep ==
  ASSUME Struct, NEW k \in Pids, Spawn(k) PROVE Struct'
<1>1. /\ Koshell(k, "spawn") /\ TypeOK
      /\ UNCHANGED <<master, marker, shellFound, early, stranded>>
  BY DEF Spawn, Struct
<1>2. ASSUME NEW q \in Pids, NewPid(q), GivenOut(q),
             proc' = [proc EXCEPT ![q] = NewShell(k, proc[k].pts, Brand(k), proc[k].auto),
                                  ![k].phase = "raw"]
      PROVE  Struct'
  <2>1. Unused(q) /\ Disowned(q)
    BY <1>1, <1>2, IdsGivenOut
  <2>2. q # k /\ proc[k].pts \in Ttys
    BY <1>1, <2>1 DEF Unused, Koshell, Dead, Struct, Formed
  <2>3. proc' \in [Pids -> Process \cup {Dead}] /\ Spawns(k, q)
    BY <1>1, <1>2, <2>2, SpawnFields
  <2> QED BY <1>1, <2>1, <2>3, SpawnsStep
<1>3. ASSUME Goto(k, IF proc[k].marked THEN "unmark" ELSE "exit"),
             UNCHANGED <<version, leaked, left>>
      PROVE  Struct'
  BY <1>1, <1>3, GivesUp
<1> QED BY <1>2, <1>3 DEF Spawn, census

\* The session ends.
LEMMA EndStep ==
  ASSUME Struct, NEW k \in Pids, End(k) PROVE Struct'
BY GivesUp DEF End, files, census

\* The session is up, by fields.
LEMMA RunFields ==
  ASSUME TypeOK, NEW k \in Pids, Alive(k),
         proc' = [proc EXCEPT ![k].phase = "running", ![k].ran = TRUE]
  PROVE  proc' \in [Pids -> Process \cup {Dead}] /\ Steps(k, "running")
<1>1. proc[k] \in Process
  BY DEF TypeOK, Alive, Dead
<1>2. [proc[k] EXCEPT !.phase = "running", !.ran = TRUE] \in Process
  BY <1>1 DEF Process, KoshellPhases
<1>3. proc' = [proc EXCEPT ![k] = [proc[k] EXCEPT !.phase = "running", !.ran = TRUE]]
  BY <1>1 DEF TypeOK
<1> QED BY <1>2 DEF TypeOK, Steps

\* Raw mode is entered: the session runs.
LEMMA Runs ==
  ASSUME Struct, NEW k \in Pids, Koshell(k, "raw"),
         proc' = [proc EXCEPT ![k].phase = "running", ![k].ran = TRUE],
         UNCHANGED <<master, marker, version, shellFound, early, stranded, leaked, left>>
  PROVE  Struct'
<1>1. /\ UNCHANGED <<master, marker, version, shellFound, early, stranded, leaked, left>>
      /\ Alive(k) /\ proc[k].kind = "koshell" /\ proc[k].phase = "raw"
  BY DEF Koshell, Alive
<1>2. TypeOK
  BY DEF Struct
<1>3. proc' \in [Pids -> Process \cup {Dead}] /\ Steps(k, "running")
  BY <1>1, <1>2, RunFields
<1>4. TypeOK'
  BY <1>2, <1>3 DEF TypeOK
<1>5. ASSUME NEW r \in Pids PROVE Formed(r)'
  BY <1>3, SMTT(30) DEF Formed, Struct, Koshell, Alive, KoshellPhases
<1>6. ASSUME NEW r \in Pids PROVE Branded(r)'
  BY <1>1, <1>2, <1>3, <1>4, Values DEF Branded, Struct, Shell, Koshell, Alive,
     Brand, MasterSound, TypeOK, Steps
<1>7. ASSUME NEW r \in Pids PROVE Parented(r)'
  BY DEF Parented, Struct, Shell, Koshell, Alive, TypeOK
<1>8. ASSUME NEW r \in Pids PROVE Unnested(r)'
  BY DEF Unnested, Struct, Koshell, TypeOK
<1>9. ASSUME NEW r \in Pids PROVE Outside(r)'
  BY DEF Outside, Struct, Shell, TypeOK
<1>10. MasterSound'
  BY DEF MasterSound, Struct, Koshell, TypeOK, Holding, Late
<1>11. FilesSound'
  BY <1>1, <1>2, <1>3, <1>4, Values DEF FilesSound, Struct, Shell, Koshell, Alive,
     TypeOK, MasterSound, Holding, Late, Listed, Steps
<1> QED BY <1>4, <1>5, <1>6, <1>7, <1>8, <1>9, <1>10, <1>11 DEF Struct

\* Raw mode fails: the pts is closed before the files are removed.
LEMMA FailsLate ==
  ASSUME Struct, NEW k \in Pids, Koshell(k, "raw"),
         Goto(k, IF proc[k].marked THEN "lateUnmark" ELSE "exit"),
         master' = [master EXCEPT ![proc[k].pts] = NoOne],
         UNCHANGED <<marker, version, shellFound, early, stranded, leaked, left>>
  PROVE  Struct'
<1>1. PICK x \in {"lateUnmark", "exit"} : Goto(k, x) /\ (x = "exit" => ~proc[k].marked)
  OBVIOUS
<1>2. /\ UNCHANGED <<marker, version, shellFound, early, stranded, leaked, left>>
      /\ Alive(k) /\ proc[k].kind = "koshell" /\ proc[k].phase = "raw"
  BY DEF Koshell, Alive
<1>3. TypeOK
  BY DEF Struct
<1>4. proc' \in [Pids -> Process \cup {Dead}] /\ Steps(k, x)
  BY <1>1, <1>2, <1>3, PhaseChange DEF KoshellPhases
<1>5. proc[k].pts \in Ttys /\ master[proc[k].pts] = k
  BY <1>2 DEF Struct, Formed, MasterSound, Holding
<1>6. Releases(k)
  BY <1>5 DEF Releases, Struct, MasterSound, TypeOK
<1>7. TypeOK'
  BY <1>3, <1>4, <1>6 DEF TypeOK, Releases
<1>8. /\ \A r \in Pids : Alive(r) => proc[r].tty \in Ttys
      /\ \A j \in Pids :
           proc[j].kind = "koshell" /\ proc[j].phase \in Holding \cup Late => proc[j].pts \in Ttys
  BY DEF Struct, Formed, Holding, Late, TypeOK, Alive, Dead, Process
<1>9. ASSUME NEW r \in Pids PROVE Formed(r)'
  BY <1>4 DEF Formed, Struct, Koshell, Alive, KoshellPhases, Steps
<1>10. ASSUME NEW r \in Pids PROVE Branded(r)'
  BY <1>1, <1>2, <1>3, <1>4, <1>5, <1>6, <1>7, <1>8, Values DEF Branded, Struct,
     Shell, Koshell, Alive, Brand, MasterSound, TypeOK, Steps, Releases
<1>11. ASSUME NEW r \in Pids PROVE Parented(r)'
  BY <1>4 DEF Parented, Struct, Shell, Koshell, Alive, Steps
<1>12. ASSUME NEW r \in Pids PROVE Unnested(r)'
  BY <1>4 DEF Unnested, Struct, Steps
<1>13. ASSUME NEW r \in Pids PROVE Outside(r)'
  BY <1>4, Values DEF Outside, Struct, Shell, Steps
<1>14. MasterSound'
  BY <1>4, <1>8, Values DEF MasterSound, Struct, Koshell, TypeOK, Holding, Steps
<1>15. FilesSound'
  BY <1>1, <1>4 DEF FilesSound, Struct, Alive, Holding, Listed, Steps
<1> QED BY <1>7, <1>9, <1>10, <1>11, <1>12, <1>13, <1>14, <1>15 DEF Struct

\* Raw mode, or its failure.
LEMMA RawModeStep ==
  ASSUME Struct, NEW k \in Pids, RawMode(k) PROVE Struct'
BY Runs, FailsLate DEF RawMode, files, census

-----------------------------------------------------------------------------
(* The removal of the files. *)

\* The marker is removed: while the pts is held or, late, when somebody else may have it
\* already.
LEMMA UnmarkStep ==
  ASSUME Struct, NEW k \in Pids, Unmark(k)
  PROVE  Struct'
<1>1. PICK x \in {"unversion", "lateUnversion"} :
        Goto(k, x) /\ (x = "unversion" <=> proc[k].phase = "unmark")
  BY DEF Unmark
<1>2. /\ UNCHANGED <<master, version, shellFound, early, stranded, left>>
      /\ leaked' = leaked \ {proc[k].pts}
      /\ Alive(k) /\ proc[k].kind = "koshell" /\ proc[k].phase \in {"unmark", "lateUnmark"}
      /\ marker' = [marker EXCEPT ![proc[k].pts] = NoOne]
  BY DEF Unmark, Alive
<1>3. TypeOK
  BY DEF Struct
<1>4. proc' \in [Pids -> Process \cup {Dead}] /\ Steps(k, x)
  BY <1>1, <1>2, <1>3, PhaseChange DEF KoshellPhases
<1>5. proc[k].pts \in Ttys
  BY <1>2 DEF Struct, Formed
<1>6. /\ marker' \in [Ttys -> Pids \cup {NoOne}]
      /\ marker'[proc[k].pts] = NoOne
      /\ \A t \in Ttys : t # proc[k].pts => marker'[t] = marker[t]
  BY <1>2, <1>3, <1>5 DEF TypeOK
<1>7. TypeOK'
  BY <1>2, <1>3, <1>4, <1>6 DEF TypeOK
<1>8. \A j \in Pids :
        (proc[j].kind = "koshell" /\ proc[j].phase \in Holding /\ j # k
           /\ proc[j].pts \notin early) => proc[j].pts # proc[k].pts
  BY <1>2, Values DEF Struct, MasterSound, Holding, Late
<1>9. ASSUME NEW r \in Pids PROVE Formed(r)'
  BY <1>2, <1>4 DEF Formed, Struct, Alive, KoshellPhases, Steps
<1>10. ASSUME NEW r \in Pids PROVE Branded(r)'
  BY <1>2, <1>4 DEF Branded, Struct, Alive, Brand, Steps
<1>11. ASSUME NEW r \in Pids PROVE Parented(r)'
  BY <1>2, <1>4 DEF Parented, Struct, Shell, Alive, Steps
<1>12. ASSUME NEW r \in Pids PROVE Unnested(r)'
  BY <1>2, <1>4 DEF Unnested, Struct, Steps
<1>13. ASSUME NEW r \in Pids PROVE Outside(r)'
  BY <1>2, <1>4, Values DEF Outside, Struct, MasterSound, Holding, Late, Shell, Steps
<1>14. MasterSound'
  BY <1>1, <1>2, <1>4 DEF MasterSound, Struct, Holding, Late, Steps
<1>15. FilesSound'
  BY <1>1, <1>2, <1>4, Values DEF FilesSound, Struct, Alive, TypeOK, MasterSound,
     Holding, Late, Listed, Steps
<1> QED BY <1>7, <1>9, <1>10, <1>11, <1>12, <1>13, <1>14, <1>15 DEF Struct

\* The version file is removed, after the marker.
LEMMA UnversionStep ==
  ASSUME Struct, NEW k \in Pids, Unversion(k)
  PROVE  Struct'
<1>1. /\ UNCHANGED <<master, marker, shellFound, early, stranded, leaked, left>>
      /\ Alive(k) /\ proc[k].kind = "koshell"
      /\ proc[k].phase \in {"unversion", "lateUnversion"}
      /\ version' = [version EXCEPT ![proc[k].pts] = NoOne] /\ Goto(k, "exit")
  BY DEF Unversion, Alive, census
<1>2. TypeOK
  BY DEF Struct
<1>3. proc' \in [Pids -> Process \cup {Dead}] /\ Steps(k, "exit")
  BY <1>1, <1>2, PhaseChange DEF KoshellPhases
<1>4. proc[k].pts \in Ttys
  BY <1>1 DEF Struct, Formed
<1>5. /\ version' \in [Ttys -> Pids \cup {OldBuild, NoOne}]
      /\ version'[proc[k].pts] = NoOne
      /\ \A t \in Ttys : t # proc[k].pts => version'[t] = version[t]
  BY <1>1, <1>2, <1>4 DEF TypeOK
<1>6. TypeOK'
  BY <1>1, <1>2, <1>3, <1>5 DEF TypeOK
<1>7. ASSUME NEW r \in Pids PROVE Formed(r)'
  BY <1>1, <1>3 DEF Formed, Struct, Alive, KoshellPhases, Steps
<1>8. ASSUME NEW r \in Pids PROVE Branded(r)'
  BY <1>1, <1>3 DEF Branded, Struct, Alive, Brand, Steps
<1>9. ASSUME NEW r \in Pids PROVE Parented(r)'
  BY <1>1, <1>3 DEF Parented, Struct, Shell, Alive, Steps
<1>10. ASSUME NEW r \in Pids PROVE Unnested(r)'
  BY <1>1, <1>3 DEF Unnested, Struct, Steps
<1>11. ASSUME NEW r \in Pids PROVE Outside(r)'
  BY <1>1, <1>3 DEF Outside, Struct, Shell, Steps
<1>12. MasterSound'
  BY <1>1, <1>3 DEF MasterSound, Struct, Holding, Late, Steps
<1>13. FilesSound'
  BY <1>1, <1>3, <1>5 DEF FilesSound, Struct, Alive, Listed, Steps
<1> QED BY <1>6, <1>7, <1>8, <1>9, <1>10, <1>11, <1>12, <1>13 DEF Struct

\* main: a koshell that failed to start falls back to a shell, one that ran ends.
LEMMA ExitStep ==
  ASSUME Struct, NEW k \in Pids, Exit(k) PROVE Struct'
<1>1. /\ proc[k].kind = "koshell" /\ proc[k].phase = "exit" /\ Alive(k) /\ TypeOK
      /\ master' = Closed(k)
      /\ UNCHANGED <<marker, version, shellFound, early, leaked, left>>
  BY DEF Exit, Koshell, files, census, Alive, Struct
<1>2. Releases(k)
  BY <1>1, ClosedReleases
<1>3. CASE proc[k].ran
  <2>1. proc' = [proc EXCEPT ![k] = Dead] /\ UNCHANGED stranded
    BY <1>3 DEF Exit
  <2>2. proc' \in [Pids -> Process \cup {Dead}] /\ Dies(k)
    BY <1>1, <2>1, Death
  <2>3. stranded' \subseteq {"misled", "auto", "exec", "typed"}
    BY <1>1, <2>1 DEF TypeOK
  <2> QED BY <1>1, <1>2, <2>2, <2>3, DeathStep
<1>4. CASE ~proc[k].ran
  BY <1>1, <1>2, <1>4, LeaveStep DEF Exit
<1> QED BY <1>3, <1>4

-----------------------------------------------------------------------------
(* The invariant, and what follows from it. *)

\* The invariant holds initially.
LEMMA InvariantStarts == Init => IInv
<1> SUFFICES ASSUME Init PROVE IInv
  OBVIOUS
<1>1. /\ \A p \in Pids : proc[p] = Dead
      /\ \A t \in Ttys : master[t] = NoOne /\ marker[t] = NoOne /\ version[t] = NoOne
      /\ stranded = {}
  BY DEF Init
<1>2. TypeOK
  BY NestingAssumption DEF Init, TypeOK
<1>3. \A p \in Pids : ~ Alive(p) /\ proc[p].kind = "dead"
  BY <1>1 DEF Alive, Dead
<1>4. \A p \in Pids : Formed(p) /\ Branded(p) /\ Parented(p) /\ Unnested(p) /\ Outside(p)
  BY <1>3 DEF Formed, Branded, Parented, Unnested, Outside, Shell
<1>5. MasterSound /\ FilesSound
  BY <1>1, <1>3, Values DEF MasterSound, FilesSound
<1>6. TerminalKept
  BY <1>1 DEF TerminalKept
<1> QED BY <1>2, <1>4, <1>5, <1>6 DEF IInv, Struct

\* No step adds to the stranded terminals what TerminalKept forbids.
LEMMA NobodyStranded ==
  ASSUME IInv, Next PROVE TerminalKept'
<1>1. TerminalKept
  BY DEF IInv
<1>2. ASSUME UNCHANGED <<shellFound, stranded>> PROVE TerminalKept'
  BY <1>1, <1>2 DEF TerminalKept
<1>3. ASSUME NEW k \in Pids, Guard(k) PROVE TerminalKept'
  <2>1. UNCHANGED shellFound /\ proc[k].kind = "koshell"
    BY <1>3 DEF Guard, Koshell
  <2>2. CASE Nested(proc[k].brand, proc[k].tty)
    <3>1. Leave(k, ReplacedTheShell(k))
      BY <1>3, <2>2 DEF Guard
    <3>2. ReplacedTheShell(k) \in BOOLEAN
      BY DEF ReplacedTheShell
    <3> QED BY <2>1, <2>2, <3>1, LeaveStrandsNobody
  <2>3. CASE ~Nested(proc[k].brand, proc[k].tty)
    BY <1>2, <1>3, <2>3 DEF Guard
  <2> QED BY <2>2, <2>3
<1>4. ASSUME NEW k \in Pids, Open(k) PROVE TerminalKept'
  <2>1. UNCHANGED shellFound /\ proc[k].kind = "koshell"
    BY <1>4 DEF Open, Koshell
  <2>2. Leave(k, TRUE) \/ UNCHANGED stranded
    BY <1>4 DEF Open
  <2> QED BY <1>2, <2>1, <2>2, LeaveStrandsNobody
<1>5. ASSUME NEW k \in Pids, Exit(k) PROVE TerminalKept'
  <2>1. UNCHANGED shellFound /\ proc[k].kind = "koshell"
    BY <1>5 DEF Exit, Koshell
  <2>2. Leave(k, TRUE) \/ UNCHANGED stranded
    BY <1>5 DEF Exit
  <2> QED BY <1>2, <2>1, <2>2, LeaveStrandsNobody
<1>6. ASSUME NEW p \in Pids,
             \/ Snippet(p) \/ Preflight(p) \/ WriteVersion(p) \/ WriteMarker(p)
             \/ Spawn(p) \/ RawMode(p) \/ End(p) \/ Unmark(p) \/ Unversion(p)
             \/ HangUp(p) \/ TypeExec(p) \/ ExitShell(p) \/ Kill(p)
      PROVE  UNCHANGED <<shellFound, stranded>>
  BY <1>6 DEF Snippet, Preflight, WriteVersion, WriteMarker, Spawn, RawMode, End,
     Unmark, Unversion, HangUp, TypeExec, ExitShell, Kill
<1>7. ASSUME \/ \E p, q \in Pids : TypeShell(p, q)
             \/ \E p, q \in Pids, command \in BOOLEAN : TypeKoshell(p, q, command)
             \/ \E p \in Pids, t \in Ttys : \E brand \in {NoBrand, Base, t} :
                  NewTerminal(p, t, brand)
             \/ \E t \in Ttys : CloseTerminal(t)
      PROVE  UNCHANGED <<shellFound, stranded>>
  BY <1>7 DEF TypeShell, TypeKoshell, NewTerminal, CloseTerminal
<1> QED BY <1>2, <1>3, <1>4, <1>5, <1>6, <1>7 DEF Next, Progress

\* Every step keeps the invariant.
LEMMA InvariantKept ==
  ASSUME IInv, [Next]_vars PROVE IInv'
<1>1. Struct
  BY DEF IInv
<1>2. ASSUME NEW p \in Pids, Progress(p) PROVE Struct'
  BY <1>1, <1>2, SnippetStep, PreflightStep, GuardStep, OpenStep, WriteVersionStep,
     WriteMarkerStep, SpawnStep, RawModeStep, EndStep, UnmarkStep, UnversionStep,
     ExitStep, HangUpStep DEF Progress
<1>3. ASSUME NEW p \in Pids, TypeExec(p) \/ ExitShell(p) \/ Kill(p) PROVE Struct'
  BY <1>1, <1>3, TypeExecStep, ExitShellStep, KillStep
<1>4. ASSUME NEW p \in Pids, NEW q \in Pids, TypeShell(p, q) PROVE Struct'
  BY <1>1, <1>4, TypeShellStep
<1>5. ASSUME NEW p \in Pids, NEW q \in Pids, NEW command \in BOOLEAN,
             TypeKoshell(p, q, command)
      PROVE  Struct'
  BY <1>1, <1>5, TypeKoshellStep
<1>6. ASSUME NEW p \in Pids, NEW t \in Ttys, NEW brand \in {NoBrand, Base, t},
             NewTerminal(p, t, brand)
      PROVE  Struct'
  BY <1>1, <1>6, NewTerminalStep
<1>7. ASSUME NEW t \in Ttys, CloseTerminal(t) PROVE Struct'
  BY <1>1, <1>7, CloseTerminalStep
<1>8. CASE UNCHANGED vars
  BY <1>8 DEF vars, files, census, IInv, Struct, TypeOK, TerminalKept, Formed, Branded,
     Parented, Unnested, Outside, MasterSound, FilesSound, Shell, Alive, Brand
<1>9. Next => Struct'
  BY <1>2, <1>3, <1>4, <1>5, <1>6, <1>7 DEF Next
<1> QED BY <1>8, <1>9, NobodyStranded DEF IInv

\* The invariant holds in every state: brands, files, masters and processes agree in the
\* sense of IInv (shell.rs, shell_init.rs, session.rs, main.rs).
THEOREM InvariantAlways == Spec => []IInv
<1>1. Init => IInv
  BY InvariantStarts
<1>2. IInv /\ [Next]_vars => IInv'
  BY InvariantKept
<1> QED BY <1>1, <1>2, PTL DEF Spec

\* WrappedOnce is part of what the invariant says.
LEMMA InvariantMeansWrappedOnce == IInv => WrappedOnce
BY DEF IInv, Struct, WrappedOnce, NeverNested, UnwrappedOnlyInside,
   Unwrapped, Unnested, Outside

\* A terminal is wrapped once: not again inside a live koshell, and not left out because
\* of a dead one (is_nested_koshell of shell.rs and its three callers), as long as no other process
\* got the id in the marker a dead one left behind.
THEOREM AlwaysWrappedOnce == Spec => []WrappedOnce
BY InvariantAlways, InvariantMeansWrappedOnce, PTL

\* What a command finds in the files is true of the koshell around it.
LEMMA InvariantMeansKnown == IInv => CommandsKnowTheirKoshell
<1> SUFFICES ASSUME IInv, NEW p \in Pids, Shell(p, "prompt"), Attached(p),
                    proc[p].tty \notin early \cup leaked
             PROVE  LET served == master[proc[p].tty]
                    IN /\ Inspected(p) \in {NoOne, served}
                       /\ Reaches(p) /\ proc[p].brand # Base =>
                            served \in Pids /\ Alive(served)
  BY DEF CommandsKnowTheirKoshell, Informed
<1> DEFINE t == proc[p].tty
           served == master[t]
<1>1. Struct /\ t \in Ttys /\ served # NoOne
  BY DEF IInv, Struct, TypeOK, Shell, Dead, Process, Attached
<1>2. ASSUME Owner(t) # NoOne
      PROVE  /\ served \in Pids /\ Alive(served) /\ served = Owner(t)
             /\ version[t] \in {served, NoOne}
  <2>1. /\ served \in Pids /\ Alive(served) /\ served = Owner(t)
        /\ proc[served].phase \in Listed
    BY <1>1, <1>2, OwnerServes
  <2>2. proc[served].kind = "koshell" /\ proc[served].pts = t
    BY <1>1, <2>1 DEF Struct, MasterSound
  <2>3. version[t] \in {served, NoOne}
    BY <1>1, <2>1, <2>2 DEF Struct, FilesSound, Listed, Holding
  <2> QED BY <2>1, <2>3
<1>3. Inspected(p) \in {NoOne, served}
  BY <1>2 DEF Inspected
<1>4. Reaches(p) /\ proc[p].brand # Base => served \in Pids /\ Alive(served)
  BY <1>2 DEF Reaches, Nested
<1> QED BY <1>3, <1>4

\* `koshell version`, `new` and `clear` are right about the koshell around them, with the
\* same exception (inspect_tty of version_cli.rs, inside_live_koshell of control_cli.rs).
THEOREM CommandsAlwaysKnowTheirKoshell == Spec => []CommandsKnowTheirKoshell
BY InvariantAlways, InvariantMeansKnown, PTL

\* No koshell that took the place of a terminal's shell leaves the terminal without one
\* (exec_fallback_shell, main.rs).
THEOREM TerminalAlwaysKept == Spec => []TerminalKept
<1>1. IInv => TerminalKept
  BY DEF IInv
<1> QED BY <1>1, InvariantAlways, PTL

(* A process is at the guard of a koshell the snippet started because it   *)
(* was before, or because preflight has just said yes.                     *)
Waved(p) == Koshell(p, "guard")' /\ proc'[p].origin = "auto" => Koshell(p, "guard")

LEMMA OnlyPreflightWaves ==
  ASSUME IInv, Next, NEW p \in Pids, ~Waved(p)
  PROVE  Shell(p, "preflight")
<1>1. TypeOK /\ DOMAIN proc = Pids
  BY DEF IInv, Struct, TypeOK
<1>2. proc'[p] # proc[p]
  BY DEF Waved, Koshell
<1>3. proc'[p].kind = "koshell" /\ proc'[p].phase = "guard" /\ proc'[p].origin = "auto"
  BY DEF Waved, Koshell
<1>4. ASSUME NEW q \in Pids, NEW x, x # "guard", Goto(q, x) PROVE FALSE
  <2>1. CASE q = p /\ proc[p] \in Process
    BY <1>1, <1>3, <1>4, <2>1 DEF Goto
  <2>2. CASE q = p /\ proc[p] = Dead
    BY <1>3, <1>4, <2>2 DEF Goto, Dead
  <2>3. CASE q # p
    BY <1>2, <1>4, <2>3 DEF Goto
  <2> QED BY <1>1, <2>1, <2>2, <2>3 DEF TypeOK
<1>5. ASSUME NEW q \in Pids, proc' = [proc EXCEPT ![q] = Dead] PROVE FALSE
  BY <1>2, <1>3, <1>5 DEF Dead
<1>6. ASSUME NEW q \in Pids, Alive(q), proc' = [proc EXCEPT ![q] = FallbackShell(q)] PROVE FALSE
  BY <1>1, <1>2, <1>3, <1>6, Fallback DEF FallsBack
<1>7. ASSUME NEW q \in Pids, NEW failOpen, Koshell(q, proc[q].phase), Leave(q, failOpen)
      PROVE  FALSE
  BY <1>5, <1>6, <1>7 DEF Leave, Koshell, Alive
<1>8. ASSUME NEW q \in Pids, Snippet(q) \/ (Preflight(q) /\ ~Ready(q)) \/ WriteVersion(q)
                             \/ End(q) \/ Unmark(q) \/ Unversion(q)
      PROVE  FALSE
  BY <1>4, <1>8 DEF Snippet, Preflight, WriteVersion, End, Unmark, Unversion
<1>9. ASSUME NEW q \in Pids, ExitShell(q) \/ Kill(q) \/ HangUp(q) PROVE FALSE
  BY <1>5, <1>9 DEF ExitShell, Kill, HangUp
<1>10. ASSUME NEW q \in Pids, Guard(q) PROVE FALSE
  <2>1. Koshell(q, proc[q].phase)
    BY <1>10 DEF Guard, Koshell
  <2> QED BY <1>4, <1>7, <1>10, <2>1 DEF Guard
<1>11. ASSUME NEW q \in Pids, Open(q) PROVE FALSE
  <2>1. Koshell(q, proc[q].phase) /\ Koshell(q, "open") /\ Formed(q)
    BY <1>11 DEF Open, Koshell, IInv, Struct
  <2>2. ASSUME NEW t \in Ttys, proc' = [proc EXCEPT ![q].pts = t, ![q].phase = "version"]
        PROVE  FALSE
    BY <1>1, <1>2, <1>3, <2>1, <2>2, OpenFields DEF Opens
  <2> QED BY <1>7, <1>11, <2>1, <2>2 DEF Open
<1>12. ASSUME NEW q \in Pids, WriteMarker(q) PROVE FALSE
  <2>1. PICK written \in BOOLEAN :
          proc' = [proc EXCEPT ![q].phase = "spawn", ![q].marked = written]
    BY <1>1, <1>12 DEF WriteMarker, Written, TypeOK
  <2>2. Alive(q)
    BY <1>12 DEF WriteMarker, Koshell, Alive
  <2> QED BY <1>1, <1>2, <1>3, <2>1, <2>2, MarkFields DEF Marks
<1>13. ASSUME NEW q \in Pids, Spawn(q) PROVE FALSE
  <2>1. Koshell(q, "spawn") /\ proc[q].pts \in Ttys
    BY <1>13 DEF Spawn, Koshell, IInv, Struct, Formed
  <2>2. ASSUME NEW c \in Pids, NewPid(c),
               proc' = [proc EXCEPT ![c] = NewShell(q, proc[q].pts, Brand(q), proc[q].auto),
                                    ![q].phase = "raw"]
        PROVE  FALSE
    <3>1. c # q
      BY <2>1, <2>2 DEF NewPid, Unused, Koshell, Dead
    <3>2. Spawns(q, c)
      BY <1>1, <2>1, <2>2, <3>1, SpawnFields
    <3> QED BY <1>2, <1>3, <3>2 DEF Spawns
  <2>3. ASSUME Goto(q, IF proc[q].marked THEN "unmark" ELSE "exit") PROVE FALSE
    BY <1>4, <2>3
  <2> QED BY <1>13, <2>2, <2>3 DEF Spawn
<1>14. ASSUME NEW q \in Pids, RawMode(q) PROVE FALSE
  <2>1. Alive(q)
    BY <1>14 DEF RawMode, Koshell, Alive
  <2>2. ASSUME proc' = [proc EXCEPT ![q].phase = "running", ![q].ran = TRUE] PROVE FALSE
    BY <1>1, <1>2, <1>3, <2>1, <2>2, RunFields DEF Steps
  <2>3. ASSUME Goto(q, IF proc[q].marked THEN "lateUnmark" ELSE "exit") PROVE FALSE
    BY <1>4, <2>3
  <2> QED BY <1>14, <2>2, <2>3 DEF RawMode
<1>15. ASSUME NEW q \in Pids, Exit(q) PROVE FALSE
  <2>1. Koshell(q, proc[q].phase)
    BY <1>15 DEF Exit, Koshell
  <2> QED BY <1>5, <1>7, <1>15, <2>1 DEF Exit
<1>16. ASSUME NEW q \in Pids, TypeExec(q) PROVE FALSE
  <2>1. Alive(q) /\ proc' = [proc EXCEPT ![q] = AsKoshell(proc[q], "exec", FALSE)]
    BY <1>16 DEF TypeExec, Shell, Alive
  <2> QED BY <1>1, <1>2, <1>3, <2>1, ShellReplaced DEF Becomes
<1>17. ASSUME NEW q \in Pids, NEW parent, NEW tty, NEW brand, NEW auto,
              proc' = [proc EXCEPT ![q] = NewShell(parent, tty, brand, auto)]
       PROVE  FALSE
  BY <1>2, <1>3, <1>17 DEF NewShell
<1>18. ASSUME NEW q \in Pids, NEW parent, NEW tty, NEW brand, NEW auto, NEW command,
              proc' = [proc EXCEPT ![q] =
                          AsKoshell(NewShell(parent, tty, brand, auto), "typed", command)]
       PROVE  FALSE
  BY <1>2, <1>3, <1>18 DEF AsKoshell
<1>19. ASSUME NEW q \in Pids, Preflight(q), Ready(q) PROVE Shell(p, "preflight")
  BY <1>1, <1>2, <1>19 DEF Preflight
<1>20. ASSUME NEW q \in Pids, Progress(q) \/ TypeExec(q) \/ ExitShell(q) \/ Kill(q)
       PROVE  Shell(p, "preflight")
  BY <1>8, <1>9, <1>10, <1>11, <1>12, <1>13, <1>14, <1>15, <1>16, <1>19, <1>20 DEF
     Progress
<1>21. ASSUME NEW q \in Pids, NEW c \in Pids, TypeShell(q, c) PROVE FALSE
  BY <1>17, <1>21 DEF TypeShell
<1>22. ASSUME NEW q \in Pids, NEW c \in Pids, NEW command \in BOOLEAN,
              TypeKoshell(q, c, command)
       PROVE  FALSE
  BY <1>18, <1>22 DEF TypeKoshell
<1>23. ASSUME NEW q \in Pids, NEW t \in Ttys, NEW brand, NewTerminal(q, t, brand)
       PROVE  FALSE
  BY <1>17, <1>23 DEF NewTerminal
<1>24. ASSUME NEW t \in Ttys, CloseTerminal(t) PROVE FALSE
  BY <1>2, <1>24 DEF CloseTerminal
<1> QED BY <1>20, <1>21, <1>22, <1>23, <1>24 DEF Next

\* No step takes a fallback's shell to the guard again.
LEMMA StepMeansNoExecLoop ==
  ASSUME IInv, [Next]_vars, NEW p \in Pids,
         Koshell(p, "guard")', ~Koshell(p, "guard"), proc'[p].origin = "auto"
  PROVE  proc[p].origin = "new"
<1>1. CASE UNCHANGED vars
  BY <1>1 DEF vars, Koshell
<1>2. CASE Next
  <2>1. Shell(p, "preflight")
    BY <1>2, OnlyPreflightWaves DEF Waved
  <2> QED BY <2>1 DEF IInv, Struct, Formed, Shell
<1> QED BY <1>1, <1>2

\* A shell that a failed koshell fell back to never wraps itself: its environment no
\* longer asks for it (FALLBACK in exec_fallback_shell).
THEOREM NeverAnExecLoop == Spec => NoExecLoop
<1>1. IInv /\ [Next]_vars =>
        [\A p \in Pids :
           (Koshell(p, "guard")' /\ ~Koshell(p, "guard") /\ proc'[p].origin = "auto")
           => proc[p].origin = "new"]_vars
  BY StepMeansNoExecLoop
<1> QED BY <1>1, InvariantAlways, PTL DEF Spec, NoExecLoop
=============================================================================
