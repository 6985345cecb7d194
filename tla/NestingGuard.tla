---------------------------- MODULE NestingGuard ----------------------------
(***************************************************************************)
(* koshell wraps the shell of a terminal, and must never wrap one that a   *)
(* live koshell already wraps.  The guard is spread over an environment    *)
(* variable every descendant inherits, a marker and a version file per     *)
(* wrapped terminal, the snippet of the user's rc file, `koshell           *)
(* preflight` and the start of the session, and every one of them reads    *)
(* while other koshells start, fail and die (shell.rs, shell_init.rs, the  *)
(* start and the end of session.rs, main.rs).                              *)
(*                                                                         *)
(* A process that is killed leaves its marker behind; the kernel hands a   *)
(* freed pts, and a freed process id, to the next one that asks, whatever  *)
(* a file left behind still says.  The processes are those of one user.    *)
(***************************************************************************)
EXTENDS Naturals, FiniteSets

CONSTANTS
    Ttys,       \* terminals: /dev/pts/<n>
    MaxPids,    \* bound: processes alive at a time
    Bounds,     \* bounds: what may happen in a behaviour, see left
    NoBrand,    \* KOSHELL is not set
    Base,       \* KOSHELL holds a session id and no tty
    OldBuild,   \* the build of a koshell whose id was given out again
    NoOne       \* no process

ASSUME NestingAssumption ==
    /\ IsFiniteSet(Ttys)
    /\ MaxPids \in Nat \ {0}
    /\ Bounds \subseteq [reused : Nat, failing : BOOLEAN]
    /\ NoBrand # Base /\ {NoBrand, Base} \cap Ttys = {}
    /\ NoOne \notin Nat /\ NoOne \notin Ttys
    /\ OldBuild \notin Nat /\ OldBuild # NoOne

Pids == 1..MaxPids
External == 0   \* a terminal emulator, a tmux server

VARIABLES
    proc,     \* the processes
    master,   \* who holds the master side of each tty
    marker,   \* <runtime_dir>/tty/<tty>: the pid in it
    version,  \* <runtime_dir>/tty/<tty>.version: whose build it names
    shellFound, \* resolve_shell finds an executable shell
    early,    \* history: ttys reused while a failed koshell still had to
              \* remove its marker for them
    leaked,   \* history: ttys whose marker names an id given out again
    stranded, \* history: koshells that ended with no shell behind them
    left      \* bound: how many ids are still given out again while a file
              \* names them, and whether a step of a start may fail

vars == <<proc, master, marker, version, shellFound, early, leaked, stranded, left>>
files == <<marker, version>>
census == <<leaked, left>>

(* A shell: the snippet in its rc file, its preflight, the prompt.          *)
(* A koshell: from the guard to the running session, and the ways out of it. *)
ShellPhases == {"rc", "preflight", "prompt"}
KoshellPhases ==
    {"guard", "open", "version", "marker", "spawn", "raw", "running",
     "unmark", "unversion", "exit",             \* the guard of TtyMarker drops
     "lateUnmark", "lateUnversion"}   \* as the pts is closed already

Process ==
    [kind : {"shell", "koshell"}, phase : ShellPhases \cup KoshellPhases,
     parent : Pids \cup {External}, tty : Ttys,
     brand : {NoBrand, Base} \cup Ttys, auto : BOOLEAN,
     pts : Ttys \cup {NoOne}, origin : {"new", "auto", "exec", "typed"},
     command : BOOLEAN,   \* `koshell <command>`, not the default shell
     marked : BOOLEAN,    \* it holds a TtyMarker
     ran : BOOLEAN]       \* its session came up
Dead == [kind |-> "dead"]

Alive(p) == proc[p].kind \in {"shell", "koshell"}
Shell(p, phase) == proc[p].kind = "shell" /\ proc[p].phase = phase
Koshell(p, phase) == proc[p].kind = "koshell" /\ proc[p].phase = phase
On(t) == {p \in Pids : Alive(p) /\ proc[p].tty = t}
Free(t) == master[t] = NoOne /\ On(t) = {}
Attached(p) == master[proc[p].tty] # NoOne
\* A shell waits while a process it started in the foreground lives.
Waits(p) == \E q \in Pids : Alive(q) /\ proc[q].parent = p /\ proc[q].tty = proc[p].tty
\* Any dead process's id is given out again, one that a file names too (an
\* orphan, whose parent is init, keeps the id of its dead parent here).
Unused(p) == proc[p] = Dead /\ \A q \in Pids : Alive(q) => proc[q].parent # p
Named(p) == \E t \in Ttys : p \in {marker[t], version[t]}
\* Ids that no file names are alike: the lowest of them stands for all.
NewPid(p) ==
    /\ Unused(p)
    /\ IF Named(p) THEN left.reused > 0
                   ELSE \A q \in 1..(p - 1) : Unused(q) => Named(q)
\* What becomes of the files that name an id as it is given out.
GivenOut(p) ==
    /\ version' = [t \in Ttys |-> IF version[t] = p THEN OldBuild ELSE version[t]]
    /\ leaked' = leaked \cup {t \in Ttys : marker[t] = p}
    /\ left' = IF Named(p) THEN [left EXCEPT !.reused = @ - 1] ELSE left

\* Whether a write of a start is done.
Written == {TRUE, ~left.failing}

Goto(p, phase) == proc' = [proc EXCEPT ![p].phase = phase]

NewShell(parent, tty, brand, auto) ==
    [kind |-> "shell", phase |-> "rc", parent |-> parent, tty |-> tty,
     brand |-> brand, auto |-> auto, pts |-> NoOne, origin |-> "new",
     command |-> FALSE, marked |-> FALSE, ran |-> FALSE]

-----------------------------------------------------------------------------
(* The guard. *)

\* tty_owner_pid: the marker names a process that is alive (kill -0).
Owner(t) == IF marker[t] # NoOne /\ Alive(marker[t]) THEN marker[t] ELSE NoOne

\* is_nested_koshell: a branded tty that is this one and has a live owner; a
\* brand without a tty is believed as it is.
Nested(brand, tty) ==
    \/ brand = Base
    \/ brand = tty /\ Owner(tty) # NoOne

\* inspect_tty: the koshell that `koshell version` names as this terminal's,
\* or NoOne for "outside", "unmarked" and "unversioned".
Inspected(p) ==
    LET brand == proc[p].brand  tty == proc[p].tty
    IN IF brand \notin {Base, tty} \/ Owner(tty) = NoOne THEN NoOne ELSE version[tty]

\* inside_live_koshell: `koshell new` and `clear` address the terminal.
Reaches(p) == Nested(proc[p].brand, proc[p].tty)

\* NestedLaunch::detect: an `exec koshell` inherited the wrapped shell's
\* parent, which is the koshell that owns the terminal.  Without an owner
\* nothing is provable and the terminal is kept.
ReplacedTheShell(p) ==
    LET owner == IF proc[p].brand \in Ttys THEN Owner(proc[p].brand) ELSE NoOne
    IN owner = NoOne \/ owner = proc[p].parent

\* Deliberate fault: preflight does not ask for a shell to fall back to.
Ready_AnyShell(p) == ~Nested(proc[p].brand, proc[p].tty)

\* preflight: not nested, and a later failure has a shell to land in.
Ready(p) == ~Nested(proc[p].brand, proc[p].tty) /\ shellFound

\* Deliberate fault: the fallback shell reads the rc file like any other.
FallbackShell_Auto(p) ==
    [proc[p] EXCEPT !.kind = "shell", !.phase = "rc", !.pts = NoOne, !.marked = FALSE]

\* exec_fallback_shell: the same process, as a shell that does not auto-wrap.
FallbackShell(p) ==
    [proc[p] EXCEPT !.kind = "shell", !.phase = "rc", !.pts = NoOne, !.marked = FALSE,
                    !.auto = FALSE]

\* A koshell that did not come up: it becomes a shell when it was to launch
\* the default one and the failure fails open, and exits otherwise.
Leave(p, failOpen) ==
    LET falls == ~proc[p].command /\ failOpen /\ shellFound
        parent == proc[p].parent
        waited == parent \in Pids /\ Alive(parent) /\ proc[parent].kind = "shell"
                  /\ proc[parent].tty = proc[p].tty
    IN /\ proc' = [proc EXCEPT ![p] = IF falls THEN FallbackShell(p) ELSE Dead]
       /\ stranded' = IF falls \/ waited \/ ~Attached(p) \/ proc[p].tty \in early
                      THEN stranded
                      ELSE stranded \cup {IF proc[p].tty \in leaked THEN "misled"
                                          ELSE proc[p].origin}

-----------------------------------------------------------------------------
(* Shells and their users. *)

Init ==
    /\ proc = [p \in Pids |-> Dead]
    /\ master = [t \in Ttys |-> NoOne]
    /\ marker = [t \in Ttys |-> NoOne] /\ version = [t \in Ttys |-> NoOne]
    /\ shellFound \in BOOLEAN
    /\ early = {} /\ leaked = {} /\ stranded = {}
    /\ left \in Bounds

\* A tty is allocated; was a failed koshell still to remove a marker for it?
\* Named for the history only.
Reused(t) ==
    IF \E p \in Pids : /\ proc[p].kind = "koshell" /\ proc[p].pts = t
                       /\ proc[p].phase \in {"lateUnmark", "lateUnversion"}
    THEN early \cup {t} ELSE early \ {t}

\* A new window, or a pane of a tmux server.  The server outlives the koshell
\* it was started in, so the brand may name this very tty, whose koshell is long gone or not;
\* one that names another tty decides nothing and is left out.
NewTerminal(p, t, brand) ==
    /\ Free(t) /\ brand \in {NoBrand, Base, t} /\ NewPid(p)
    /\ proc' = [proc EXCEPT ![p] = NewShell(External, t, brand, TRUE)]
    /\ master' = [master EXCEPT ![t] = External]
    /\ early' = Reused(t)
    /\ GivenOut(p)
    /\ UNCHANGED <<marker, shellFound, stranded>>

\* A shell started at the prompt of another one.
TypeShell(p, q) ==
    /\ Shell(p, "prompt") /\ Attached(p) /\ ~Waits(p) /\ NewPid(q)
    /\ proc' = [proc EXCEPT ![q] =
                    NewShell(p, proc[p].tty, proc[p].brand, proc[p].auto)]
    /\ GivenOut(q)
    /\ UNCHANGED <<master, marker, shellFound, early, stranded>>

AsKoshell(record, origin, command) ==
    [record EXCEPT !.kind = "koshell", !.phase = "guard", !.origin = origin,
                   !.command = command]

\* `koshell` or `koshell <command>` typed at a prompt.
TypeKoshell(p, q, command) ==
    /\ Shell(p, "prompt") /\ Attached(p) /\ ~Waits(p) /\ NewPid(q)
    /\ proc' = [proc EXCEPT ![q] =
          AsKoshell(NewShell(p, proc[p].tty, proc[p].brand, proc[p].auto),
                    "typed", command)]
    /\ GivenOut(q)
    /\ UNCHANGED <<master, marker, shellFound, early, stranded>>

\* `exec koshell` typed at a prompt.
TypeExec(p) ==
    /\ Shell(p, "prompt") /\ Attached(p) /\ ~Waits(p)
    /\ proc' = [proc EXCEPT ![p] = AsKoshell(proc[p], "exec", FALSE)]
    /\ UNCHANGED <<master, files, shellFound, early, stranded, census>>

\* The snippet: escape hatches, then the same guard as is_nested_koshell,
\* then preflight, which repeats it in another process; then the exec.
Snippet(p) ==
    /\ Shell(p, "rc") /\ Attached(p)
    /\ Goto(p, IF proc[p].auto /\ ~Nested(proc[p].brand, proc[p].tty)
               THEN "preflight" ELSE "prompt")
    /\ UNCHANGED <<master, files, shellFound, early, stranded, census>>

Preflight(p) ==
    /\ Shell(p, "preflight") /\ Attached(p)
    /\ IF Ready(p) THEN proc' = [proc EXCEPT ![p] = AsKoshell(proc[p], "auto", FALSE)]
                   ELSE Goto(p, "prompt")
    /\ UNCHANGED <<master, files, shellFound, early, stranded, census>>

ExitShell(p) ==
    /\ Shell(p, "prompt") /\ ~Waits(p)
    /\ proc' = [proc EXCEPT ![p] = Dead]
    /\ UNCHANGED <<master, files, shellFound, early, stranded, census>>

-----------------------------------------------------------------------------
(* The start of a session: run_interactive_shell. *)

\* assert_not_nested_koshell, and main's decision to fail open.
Guard(k) ==
    /\ Koshell(k, "guard") /\ Attached(k)
    /\ IF Nested(proc[k].brand, proc[k].tty)
       THEN Leave(k, ReplacedTheShell(k))
       ELSE Goto(k, "open") /\ UNCHANGED stranded
    /\ UNCHANGED <<master, files, shellFound, early, census>>

\* The program to launch is resolved and a pts allocated; either may fail.
Open(k) ==
    /\ Koshell(k, "open") /\ Attached(k)
    /\ \/ /\ proc[k].command \/ shellFound
          /\ \E t \in Ttys :
               /\ Free(t)
               /\ master' = [master EXCEPT ![t] = k]
               /\ early' = Reused(t)
               /\ proc' = [proc EXCEPT ![k].pts = t, ![k].phase = "version"]
          /\ UNCHANGED stranded
       \/ /\ left.failing \/ ~(proc[k].command \/ shellFound)
          /\ Leave(k, TRUE)
          /\ UNCHANGED <<master, early>>
    /\ UNCHANGED <<files, shellFound, census>>

\* Deliberate fault: a version file that is there already is kept.
WriteVersion_Kept(k) ==
    /\ Koshell(k, "version") /\ Attached(k)
    /\ version' = [version EXCEPT ![proc[k].pts] = IF @ = NoOne THEN k ELSE @]
    /\ Goto(k, "marker")
    /\ UNCHANGED <<master, marker, shellFound, early, stranded, census>>

\* register_tty_marker writes the version first; a disk that is full leaves
\* an empty file, which reads as an unknown version.
WriteVersion(k) ==
    /\ Koshell(k, "version") /\ Attached(k)
    /\ \E written \in Written :
         version' = [version EXCEPT ![proc[k].pts] = IF written THEN k ELSE NoOne]
    /\ Goto(k, "marker")
    /\ UNCHANGED <<master, marker, shellFound, early, stranded, census>>

\* Deliberate fault: the child is branded with its tty whether or not the
\* marker could be written.
Brand_Always(k) == proc[k].pts

\* The child's KOSHELL names its tty only when the marker was written.
Brand(k) == IF proc[k].marked THEN proc[k].pts ELSE Base

\* Then the marker.  When it cannot be written (or the pts has no name) the
\* version is taken back and the child is branded with the session id alone.
WriteMarker(k) ==
    /\ Koshell(k, "marker") /\ Attached(k)
    /\ \E written \in Written :
         /\ marker' = [marker EXCEPT ![proc[k].pts] = IF written THEN k ELSE NoOne]
         /\ version' = IF written THEN version
                       ELSE [version EXCEPT ![proc[k].pts] = NoOne]
         /\ proc' = [proc EXCEPT ![k].phase = "spawn", ![k].marked = written]
    /\ leaked' = leaked \ {proc[k].pts}
    /\ UNCHANGED <<master, shellFound, early, stranded, left>>

\* The child is started on the pts with koshell's environment and the brand;
\* when that fails the marker guard drops before the pts does.
Spawn(k) ==
    /\ Koshell(k, "spawn") /\ Attached(k)
    /\ \/ \E q \in Pids :
            /\ NewPid(q)
            /\ proc' = [proc EXCEPT
                  ![q] = NewShell(k, proc[k].pts, Brand(k), proc[k].auto),
                  ![k].phase = "raw"]
            /\ GivenOut(q)
       \/ /\ left.failing
          /\ Goto(k, IF proc[k].marked THEN "unmark" ELSE "exit")
          /\ UNCHANGED <<version, census>>
    /\ UNCHANGED <<master, marker, shellFound, early, stranded>>

\* Raw mode, on the outer terminal.  On an error the locals of the function
\* drop in reverse order: all that holds the pts open, then the marker.
RawMode(k) ==
    /\ Koshell(k, "raw")
    /\ \/ /\ Attached(k)
          /\ proc' = [proc EXCEPT ![k].phase = "running", ![k].ran = TRUE]
          /\ UNCHANGED master
       \/ /\ left.failing
          /\ Goto(k, IF proc[k].marked THEN "lateUnmark" ELSE "exit")
          /\ master' = [master EXCEPT ![proc[k].pts] = NoOne]
    /\ UNCHANGED <<files, shellFound, early, stranded, census>>

\* The pts when its koshell is gone.
Closed(k) == IF proc[k].pts # NoOne /\ master[proc[k].pts] = k
             THEN [master EXCEPT ![proc[k].pts] = NoOne] ELSE master

(* The end of a session, and the drop of TtyMarker. *)

\* The child is reaped and the reader has seen the end of the pts, so no
\* process is left on it.
End(k) ==
    /\ Koshell(k, "running") /\ On(proc[k].pts) = {}
    /\ Goto(k, IF proc[k].marked THEN "unmark" ELSE "exit")
    /\ UNCHANGED <<master, files, shellFound, early, stranded, census>>

Unmark(k) ==
    /\ proc[k].kind = "koshell" /\ proc[k].phase \in {"unmark", "lateUnmark"}
    /\ marker' = [marker EXCEPT ![proc[k].pts] = NoOne]
    /\ Goto(k, IF proc[k].phase = "unmark" THEN "unversion" ELSE "lateUnversion")
    /\ leaked' = leaked \ {proc[k].pts}
    /\ UNCHANGED <<master, version, shellFound, early, stranded, left>>

Unversion(k) ==
    /\ proc[k].kind = "koshell" /\ proc[k].phase \in {"unversion", "lateUnversion"}
    /\ version' = [version EXCEPT ![proc[k].pts] = NoOne]
    /\ Goto(k, "exit")
    /\ UNCHANGED <<master, marker, shellFound, early, stranded, census>>

\* The process is gone and with it its side of the pts; one that never came
\* up goes on to main's fail-open.
Exit(k) ==
    /\ Koshell(k, "exit")
    /\ master' = Closed(k)
    /\ IF proc[k].ran
       THEN proc' = [proc EXCEPT ![k] = Dead] /\ UNCHANGED stranded
       ELSE Leave(k, TRUE)
    /\ UNCHANGED <<files, shellFound, early, census>>

-----------------------------------------------------------------------------
(* What the system does to them. *)

\* SIGKILL: the files stay.
Kill(k) ==
    /\ proc[k].kind = "koshell"
    /\ proc' = [proc EXCEPT ![k] = Dead]
    /\ master' = Closed(k)
    /\ UNCHANGED <<files, shellFound, early, stranded, census>>

CloseTerminal(t) ==
    /\ master[t] = External
    /\ master' = [master EXCEPT ![t] = NoOne]
    /\ UNCHANGED <<proc, files, shellFound, early, stranded, census>>

\* The terminal is gone: SIGHUP ends a shell, and a koshell that has not yet
\* installed its handlers; a running one passes it on to its child.
HangUp(p) ==
    /\ Alive(p) /\ ~Attached(p)
    /\ \/ proc[p].kind = "shell"
       \/ proc[p].phase \in {"guard", "open", "version", "marker", "spawn", "raw"}
    /\ proc' = [proc EXCEPT ![p] = Dead]
    /\ master' = IF proc[p].kind = "koshell" THEN Closed(p) ELSE master
    /\ UNCHANGED <<files, shellFound, early, stranded, census>>

Progress(p) ==
    \/ Snippet(p) \/ Preflight(p)
    \/ Guard(p) \/ Open(p) \/ WriteVersion(p) \/ WriteMarker(p) \/ Spawn(p)
    \/ RawMode(p) \/ End(p) \/ Unmark(p) \/ Unversion(p) \/ Exit(p)
    \/ HangUp(p)

Next ==
    \/ \E p \in Pids : Progress(p) \/ TypeExec(p) \/ ExitShell(p) \/ Kill(p)
    \/ \E p, q \in Pids : TypeShell(p, q)
    \/ \E p, q \in Pids, command \in BOOLEAN : TypeKoshell(p, q, command)
    \/ \E p \in Pids, t \in Ttys : \E brand \in {NoBrand, Base, t} :
          NewTerminal(p, t, brand)
    \/ \E t \in Ttys : CloseTerminal(t)

Spec == Init /\ [][Next]_vars

-----------------------------------------------------------------------------
(* Properties. *)

TypeOK ==
    /\ proc \in [Pids -> Process \cup {Dead}]
    /\ master \in [Ttys -> Pids \cup {External, NoOne}]
    /\ marker \in [Ttys -> Pids \cup {NoOne}]
    /\ version \in [Ttys -> Pids \cup {OldBuild, NoOne}]
    /\ shellFound \in BOOLEAN
    /\ early \subseteq Ttys /\ leaked \subseteq Ttys
    /\ stranded \subseteq {"misled", "auto", "exec", "typed"}
    /\ left \in [reused : Nat, failing : BOOLEAN]

\* No koshell gets past its guard on a pts that a live koshell serves
\* (is_nested_koshell; design 0003): whichever process of that terminal it
\* was, the snippet, a typed command or an exec, and whichever markers were
\* left behind, written late or not at all.  The exception is a pts that was
\* reused before a koshell that failed on its way up removed its marker,
\* which then removes the new owner's (session.rs:191, shell.rs:371).
NeverNested ==
    \A k \in Pids :
        (proc[k].kind = "koshell" /\ proc[k].phase \in {"open", "version", "marker",
                                                        "spawn", "raw", "running"})
        => LET t == proc[k].tty
           IN \/ master[t] \in {External, NoOne}
              \/ ~Alive(master[t])
              \/ t \in early

\* A shell that was left unwrapped, though it neither opted out nor carries a
\* brand without a tty, runs inside a koshell that is alive, unless there is
\* no shell a failure could fall back to, or its tty is excused.
Unwrapped(excused) ==
    \A p \in Pids :
        (Shell(p, "prompt") /\ proc[p].auto /\ proc[p].brand # Base /\ shellFound
            /\ Attached(p) /\ proc[p].tty \notin excused)
        => master[proc[p].tty] # External

\* A brand inherited onto a recycled pts whose koshell is dead fails the
\* liveness gate, and the shell wraps (shell.rs:256): as long as the id in the
\* marker left behind is not given out again, to a process that then passes
\* for the owner (kill(pid, 0), shell.rs:248).
UnwrappedOnlyInside == Unwrapped(early \cup leaked)

\* The same without that exception, as the comment has it: "a brand inherited
\* onto a *recycled* pts whose original koshell has died fails the liveness
\* gate. Either way the shell is not nested and wraps" (shell.rs:256-258).
RecycledPtsWraps == Unwrapped(early)

\* A terminal is wrapped once: not again inside a live koshell, and not left
\* out because of a dead one.
WrappedOnce == TypeOK /\ NeverNested /\ UnwrappedOnlyInside

\* What a command at a prompt believes of the koshell around it is true: the
\* build `koshell version` names is the one that serves this terminal, by the
\* order of the two writes and of the two removals (shell.rs:373, 386); and
\* `koshell new` and `clear` address a terminal that a live koshell serves,
\* unless the brand names no tty.
Informed(excused) ==
    \A p \in Pids :
        (Shell(p, "prompt") /\ Attached(p) /\ proc[p].tty \notin excused)
        => LET served == master[proc[p].tty]
           IN /\ Inspected(p) \in {NoOne, served}
              /\ Reaches(p) /\ proc[p].brand # Base => served \in Pids /\ Alive(served)

\* They know it whatever markers were left behind, as long as the id in the
\* marker of their terminal is not given out again.
CommandsKnowTheirKoshell == Informed(early \cup leaked)

\* The same without that exception, as the comment has it: no live koshell is
\* named for "a stale brand inherited onto a recycled pts whose koshell has
\* died" (TtyKoshell::Unmarked, version_cli.rs:52-54).
CommandsAlwaysKnow == Informed(early)

\* No koshell that took the place of a terminal's shell ends and leaves the
\* terminal without one (main.rs:83, exec_fallback_shell), except an exec
\* typed by hand where there is no shell to be found, and one that took
\* another process for the owner of its tty.
TerminalKept ==
    /\ "auto" \notin stranded
    /\ shellFound => stranded \subseteq {"misled"}

\* A pane that was wrongly left unwrapped, as the id in its marker is given
\* out again, is "manually recoverable with `exec koshell`" (design 0009:83).
ExecRecovers == shellFound => stranded = {}

\* A shell that a failed koshell fell back to never wraps itself again: the
\* snippet, the refusals and the fallback do not chase each other forever
\* (exec_fallback_shell, session.rs:138).
NoExecLoop ==
    [][\A p \in Pids :
        (Koshell(p, "guard")' /\ ~Koshell(p, "guard") /\ proc'[p].origin = "auto")
        => proc[p].origin = "new"]_vars

=============================================================================
