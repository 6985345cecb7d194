--------------------------- MODULE SessionThreads ---------------------------
(***************************************************************************)
(* The threads of a running session (session.rs): one reads the pts of the *)
(* shell, one the user's keys, one the signals; all of them send to the    *)
(* processor, which takes the stream apart, draws and records, and says    *)
(* whether a Ctrl+C now belongs to an answer.  The main thread waits for   *)
(* the shell and then for them, and the event log's writer for all.        *)
(***************************************************************************)
EXTENDS MarkerScanner, FiniteSets

CONSTANTS
    Scenarios,    \* what programs write, what the user types, how often the
                  \* outer terminal is resized
    MaxQueue      \* bound: messages the processor is behind

CtrlC == "^"

ASSUME SessionThreadsAssumption ==
    /\ MaxQueue \in Nat \ {0}
    /\ \A s \in Scenarios :
         s.resizes \in Nat /\ \A i \in 1..Len(s.keys) : s.keys[i] \in {CtrlC, "1", "2"}

VARIABLES
    script,   \* writes still to come
    holders,  \* processes that hold the pts: the shell, one in the background
    pts,      \* bytes written to the pts and not read
    toChild,  \* history: bytes written to the child
    keys,     \* keys still to be typed
    typed,    \* history: keys the input thread has read
    todo,     \* what the input thread has yet to do with its chunk
    window,   \* interrupt_window
    channel,  \* the processor's messages
    scanner,  \* MarkerScanner.buf
    answer,   \* an answer in flight: none, on, over
    fed,      \* history: bytes the processor has read
    screen,   \* what the user and the state have seen: bytes and markers
    recorded, \* keys given to record_input
    cancels,  \* Ctrl+Cs withheld from the child that ended an answer
    flushed,  \* history: the cap has been reached
    resizes,  \* resizes still to come
    size,     \* widths: the outer terminal's, the pts's, the mirror's
    signal,   \* a SIGWINCH is pending, or its size is to be sent
    unseen,   \* history: a resize came before its signal was caught, and none since
    log,      \* lines emitted, lines on disk
    threads   \* where each thread is

vars == <<script, holders, pts, toChild, keys, typed, todo, window, channel, scanner,
          answer, fed, screen, recorded, cancels, flushed, resizes, size, signal, unseen,
          log, threads>>
child == <<script, holders>>
input == <<keys, typed, todo>>
core == <<scanner, answer, fed, screen, recorded, cancels, flushed>>
sizes == <<resizes, size, signal, unseen>>

Pick(seq, set) == SelectSeq(seq, LAMBDA x : x \in set)
Keys == {"1", "2"}

Init ==
    /\ \E s \in Scenarios : script = s.writes /\ keys = s.keys /\ resizes = s.resizes
    /\ holders \in {{"shell"}, {"shell", "background"}}
    /\ pts = <<>> /\ toChild = <<>>
    /\ typed = <<>> /\ todo = <<>>
    /\ window = FALSE /\ channel = <<>>
    /\ scanner = <<>> /\ answer = "none" /\ fed = <<>> /\ screen = <<>>
    /\ recorded = <<>> /\ cancels = 0 /\ flushed = FALSE
    /\ size = [outer |-> 0, pts |-> 0, mirror |-> 0]   \* read when the pts was opened
    /\ signal = "idle" /\ unseen = FALSE
    /\ log = [emitted |-> 1, disk |-> 0]   \* session_start
    /\ threads = [reader |-> "on", input |-> "on", processor |-> "on",
                  writer |-> "on", main |-> "start"]

Running == threads.main # "gone"   \* until the process exits
Room == Len(channel) < MaxQueue

-----------------------------------------------------------------------------
(* The programs on the pts. *)

Write ==
    /\ Running /\ holders # {} /\ script # <<>>
    /\ pts' = pts \o Head(script) /\ script' = Tail(script)
    /\ UNCHANGED <<holders, toChild, input, window, channel, core, sizes, log, threads>>

\* A program ends or is killed; a forwarded signal does it to the shell.
Close(holder) ==
    /\ Running /\ holder \in holders
    /\ holders' = holders \ {holder}
    /\ UNCHANGED <<script, pts, toChild, input, window, channel, core, sizes, log, threads>>

-----------------------------------------------------------------------------
(* The reader thread. *)

\* read takes any part of what is there.
Read ==
    /\ Running /\ threads.reader = "on" /\ Room
    /\ \E n \in 1..Len(pts) :
         /\ channel' = Append(channel, [type |-> "pty", bytes |-> SubSeq(pts, 1, n)])
         /\ pts' = SubSeq(pts, n + 1, Len(pts))
    /\ UNCHANGED <<child, toChild, input, window, core, sizes, log, threads>>

\* Deliberate fault: the shell's exit ends the reader whatever is left.
AtEof_ShellGone == "shell" \notin holders

\* The end of file is behind the last byte, and no process holds the pts.
AtEof == holders = {} /\ pts = <<>>

ReadEof ==
    /\ Running /\ threads.reader = "on" /\ AtEof
    /\ channel' = Append(channel, [type |-> "exit"])
    /\ threads' = [threads EXCEPT !.reader = "done"]
    /\ UNCHANGED <<child, pts, toChild, input, window, core, sizes, log>>

-----------------------------------------------------------------------------
(* The input thread. *)

Send(bytes) == [op |-> "send", bytes |-> bytes]
ToPts(bytes) == [op |-> "write", bytes |-> bytes]

\* forward: to the processor, which records it, then to the child.
Forward(bytes) == IF bytes = <<>> THEN <<>> ELSE <<Send(bytes), ToPts(bytes)>>

\* While the window is armed the first Ctrl+C of a chunk is taken out of it.
ReadKeys ==
    /\ Running /\ threads.input = "on" /\ todo = <<>>
    /\ \E n \in 1..Len(keys) :
         LET chunk == SubSeq(keys, 1, n)
             pos == Find(chunk, <<CtrlC>>)
         IN /\ keys' = SubSeq(keys, n + 1, Len(keys))
            /\ typed' = typed \o chunk
            /\ todo' = IF window /\ pos # 0
                       THEN Forward(SubSeq(chunk, 1, pos - 1)) \o <<[op |-> "interrupt"]>>
                            \o Forward(SubSeq(chunk, pos + 1, n))
                       ELSE Forward(chunk)
    /\ UNCHANGED <<child, pts, toChild, window, channel, core, sizes, log, threads>>

SendKeys ==
    /\ Running /\ todo # <<>> /\ Head(todo).op # "write" /\ Room
    /\ channel' = Append(channel,
          IF Head(todo).op = "send" THEN [type |-> "input", bytes |-> Head(todo).bytes]
          ELSE [type |-> "interrupt"])
    /\ todo' = Tail(todo)
    /\ UNCHANGED <<child, pts, toChild, keys, typed, window, core, sizes, log, threads>>

\* The pts takes the bytes and echoes them; one nobody holds loses them.
ToChild(bytes) ==
    IF holders # {} THEN toChild' = toChild \o bytes /\ pts' = pts \o Pick(bytes, Keys)
    ELSE UNCHANGED <<toChild, pts>>

\* A write to a pts nobody holds may fail, which ends the thread.
WriteKeys ==
    /\ Running /\ todo # <<>> /\ Head(todo).op = "write"
    /\ ToChild(Head(todo).bytes)
    /\ \/ todo' = Tail(todo) /\ UNCHANGED threads
       \/ /\ holders = {}
          /\ todo' = <<>> /\ threads' = [threads EXCEPT !.input = "done"]
    /\ UNCHANGED <<child, keys, typed, window, channel, core, sizes, log>>

-----------------------------------------------------------------------------
(* The signals thread. *)

\* The outer terminal changes its size: SIGWINCH, which does not queue up, and
\* is ignored until the main thread has registered it.
ResizeOuter ==
    /\ Running /\ resizes > 0
    /\ resizes' = resizes - 1
    /\ size' = [size EXCEPT !.outer = @ + 1]
    /\ IF threads.main = "start"
       THEN unseen' = TRUE /\ UNCHANGED signal
       ELSE /\ signal' = IF signal = "send" THEN "sendAgain" ELSE "pending"
            /\ UNCHANGED unseen
    /\ UNCHANGED <<child, pts, toChild, input, window, channel, core, log, threads>>

\* A signal that arrived since the size was read is still to be dealt with.
AfterSend == IF signal = "sendAgain" THEN "pending" ELSE "idle"

\* The size is read and given to the pts, then to the processor.
ResizePts ==
    /\ Running /\ signal = "pending"
    /\ size' = [size EXCEPT !.pts = size.outer] /\ signal' = "send" /\ unseen' = FALSE
    /\ UNCHANGED <<child, pts, toChild, input, window, channel, core, resizes, log,
                   threads>>

\* Deliberate fault: a resize is not sent while another one is still queued.
Resized_Coalesced(queue) ==
    IF \E i \in 1..Len(queue) : queue[i].type = "resize" THEN queue
    ELSE Append(queue, [type |-> "resize", size |-> size.pts])

Resized(queue) == Append(queue, [type |-> "resize", size |-> size.pts])

SendResize ==
    /\ Running /\ signal \in {"send", "sendAgain"} /\ Room
    /\ channel' = Resized(channel)
    /\ signal' = AfterSend
    /\ UNCHANGED <<child, pts, toChild, input, window, core, resizes, size, unseen, log,
                   threads>>

-----------------------------------------------------------------------------
(* The processor. *)

\* The daemon's end of an answer comes through the same channel.
DaemonEnds ==
    /\ Running /\ answer = "on" /\ Room
    /\ \A i \in 1..Len(channel) : channel[i].type # "answered"
    /\ channel' = Append(channel, [type |-> "answered"])
    /\ UNCHANGED <<child, pts, toChild, input, window, core, sizes, log, threads>>

Taken(type) ==
    /\ Running /\ threads.processor = "on" /\ channel # <<>>
    /\ Head(channel).type = type
    /\ channel' = Tail(channel)

\* The end of each turn of the loop; answer' is what the turn left behind.
StoreWindow == window' = (answer' = "on")

\* A chunk of output.  A command boundary may fire a question, and with it an
\* answer, and is written to the event log.
ProcessPty ==
    /\ Taken("pty")
    /\ LET scan == Feed(scanner, Head(channel).bytes)
           boundaries == Pick(scan.out, {"S"})
       IN /\ scanner' = scan.buf
          /\ screen' = screen \o scan.out
          /\ flushed' = (flushed \/ scan.flushed)
          /\ log' = [log EXCEPT !.emitted = @ + Len(boundaries)]
          /\ answer' \in (IF boundaries # <<>> /\ answer = "none" THEN {"none", "on"}
                          ELSE {answer})
    /\ fed' = fed \o Head(channel).bytes
    /\ StoreWindow
    /\ UNCHANGED <<child, pts, toChild, input, recorded, cancels, sizes, threads>>

\* A Ctrl+C the child has had withdraws the answer too.
ProcessInput ==
    /\ Taken("input")
    /\ recorded' = recorded \o Head(channel).bytes
    /\ answer' = IF answer = "on" /\ CtrlC \in Range(Head(channel).bytes)
                 THEN "over" ELSE answer
    /\ StoreWindow
    /\ UNCHANGED <<child, pts, toChild, input, scanner, fed, screen, cancels, flushed,
                   sizes, log, threads>>

\* Deliberate fault: a Ctrl+C that came too late for its answer is dropped.
LostInterrupt_Dropped == <<>>

\* A Ctrl+C that came too late for its answer goes to the child after all.
LostInterrupt == <<CtrlC>>

ProcessInterrupt ==
    /\ Taken("interrupt")
    /\ IF answer = "on"
       THEN /\ answer' = "over" /\ cancels' = cancels + 1
            /\ UNCHANGED <<pts, toChild, recorded>>
       ELSE /\ ToChild(LostInterrupt) /\ recorded' = recorded \o LostInterrupt
            /\ UNCHANGED <<answer, cancels>>
    /\ StoreWindow
    /\ UNCHANGED <<child, input, scanner, fed, screen, flushed, sizes, log, threads>>

ProcessAnswered ==
    /\ Taken("answered")
    /\ answer' = "over" /\ StoreWindow
    /\ UNCHANGED <<child, pts, toChild, input, scanner, fed, screen, recorded, cancels,
                   flushed, sizes, log, threads>>

ProcessResize ==
    /\ Taken("resize")
    /\ size' = [size EXCEPT !.mirror = Head(channel).size]
    /\ UNCHANGED <<child, pts, toChild, input, window, core, resizes, signal, unseen, log,
                   threads>>

\* The loop is left at once, whatever is behind the message.
ProcessExit ==
    /\ Taken("exit")
    /\ threads' = [threads EXCEPT !.processor = "done"]
    /\ UNCHANGED <<child, pts, toChild, input, window, core, sizes, log>>

-----------------------------------------------------------------------------
(* The main thread and the event log's writer. *)

Join(from, to) ==
    /\ threads.main = from
    /\ threads' = [threads EXCEPT !.main = to]
    /\ UNCHANGED <<child, pts, toChild, input, window, channel, core, sizes>>

\* Signals::new, after the other threads have been started.
Register == Join("start", "reap") /\ UNCHANGED log
Reap == "shell" \notin holders /\ Join("reap", "reader") /\ UNCHANGED log
JoinReader == threads.reader = "done" /\ Join("reader", "processor") /\ UNCHANGED log
\* The last line, and the last handle to the log.
JoinProcessor ==
    /\ threads.processor = "done" /\ Join("processor", "writer")
    /\ log' = [log EXCEPT !.emitted = @ + 1]

\* The writer drains what was sent, or has given up on an error.
WriterDone == threads.writer = "failed" \/ log.disk = log.emitted
JoinWriter == WriterDone /\ Join("writer", "gone") /\ UNCHANGED log

WriteLine ==
    /\ Running /\ threads.writer = "on" /\ log.disk < log.emitted
    /\ \/ log' = [log EXCEPT !.disk = @ + 1] /\ UNCHANGED threads
       \/ threads' = [threads EXCEPT !.writer = "failed"] /\ UNCHANGED log
    /\ UNCHANGED <<child, pts, toChild, input, window, channel, core, sizes>>

Reader == Read \/ ReadEof
Input == ReadKeys \/ SendKeys \/ WriteKeys
Signals == ResizePts \/ SendResize
Processor ==
    \/ ProcessPty \/ ProcessInput \/ ProcessInterrupt \/ ProcessAnswered
    \/ ProcessResize \/ ProcessExit
Main == Register \/ Reap \/ JoinReader \/ JoinProcessor \/ JoinWriter

\* The only state the threads may rest in once no program is left: the run
\* checks that there is no other (its deadlock check), and nothing can loop.
Gone == ~Running /\ UNCHANGED vars

Next ==
    \/ Write \/ (\E holder \in holders : Close(holder))
    \/ Reader \/ Input \/ ResizeOuter \/ Signals \/ DaemonEnds \/ Processor
    \/ Main \/ WriteLine \/ Gone

Spec == Init /\ [][Next]_vars

-----------------------------------------------------------------------------
(* Properties. *)

Bytes == {"e", "o", "k", "t", "x", "s"} \cup Kinds \cup Keys
Message ==
    [type : {"pty", "input"}, bytes : Seq(Bytes \cup {CtrlC})]
    \cup [type : {"interrupt", "answered", "exit"}]
    \cup [type : {"resize"}, size : Nat]

TypeOK ==
    /\ holders \subseteq {"shell", "background"}
    /\ pts \in Seq(Bytes) /\ scanner \in Seq(Bytes) /\ fed \in Seq(Bytes)
    /\ screen \in Seq(Bytes)
    /\ Len(channel) <= MaxQueue + 1
    /\ \A i \in 1..Len(channel) : channel[i] \in Message
    /\ toChild \in Seq(Keys \cup {CtrlC}) /\ recorded \in Seq(Keys \cup {CtrlC})
    /\ window \in BOOLEAN /\ answer \in {"none", "on", "over"}
    /\ cancels \in {0, 1} /\ Len(scanner) <= MaxPending
    /\ signal \in {"idle", "pending", "send", "sendAgain"} /\ unseen \in BOOLEAN

\* The bytes of what the scanner gave out, each marker put together again.
Restored(out) ==
    FoldLeft(LAMBDA all, b : all \o (IF b \in Kinds THEN Formatted(b) ELSE <<b>>),
             <<>>, out)

\* However the stream is cut into reads, the user sees the bytes, and the
\* state the markers, that one read of all of it would give, in that order:
\* no byte of a split marker leaks and none of the output is lost, moved or
\* shown twice (shell_integration.rs:234).  When a marker outgrew the cap its
\* bytes are shown instead, every one of them and in place (259); whether a
\* marker within them is one still depends on the reads.
StreamFaithful ==
    LET whole == Whole(fed)
    IN IF flushed THEN fed \in {screen \o scanner, Restored(screen) \o scanner}
       ELSE screen = whole.out /\ scanner = whole.buf

\* What the pts echoes of the user's keys is seen only after the keys have
\* been recorded, so the trigger always knows the line it looks for
\* (session.rs:483, forward).
RecordedBeforeEcho ==
    \A key \in Keys :
        Len(Pick(screen, {key})) <= Len(Pick(recorded, {key}))

\* The keys still on their way from the input thread to the child.
Unsent ==
    FoldLeft(LAMBDA all, do : IF do.op = "write" THEN all \o do.bytes ELSE all, <<>>, todo)
Interrupts ==
    Len(SelectSeq(todo, LAMBDA do : do.op = "interrupt"))
    + Len(SelectSeq(channel, LAMBDA msg : msg.type = "interrupt"))
CtrlCs(seq) == Len(Pick(seq, {CtrlC}))

\* The child gets what the user typed, in order, and a Ctrl+C is withheld
\* from it only by an answer it ended: whichever of the answer's end and the
\* key came first, it is not lost.  One that came too late for its answer may
\* reach the child behind keys typed after it (session.rs:402, 510).
InputFaithful ==
    holders # {} =>
        /\ Pick(toChild \o Unsent, Keys) = Pick(typed, Keys)
        /\ CtrlCs(typed) = CtrlCs(toChild) + CtrlCs(Unsent) + cancels + Interrupts

\* Keys reach the child as typed, and are known before what they cause.
KeysFaithful == InputFaithful /\ RecordedBeforeEcho

\* "SIGWINCH -> PTY resize and -> channel": every resize reaches the pts and the
\* mirror.  Not so between session.rs:168, which reads the size, and 535, which
\* registers the signal.
SizesAlwaysAgree ==
    (signal = "idle" /\ threads.processor = "on"
        /\ \A i \in 1..Len(channel) : channel[i].type # "resize")
    => size.mirror = size.outer /\ size.pts = size.outer

\* When no resize is under way the mirror is as wide as the pts and the
\* terminal, however the signals fell together (session.rs:535); but for one
\* that came while the session was starting, which nothing makes good until
\* the next (see SizesAlwaysAgree).
SizesAgree == unseen \/ SizesAlwaysAgree

\* Threads and channels are well formed, and the sizes settle.
SizesSound == TypeOK /\ SizesAgree

\* When koshell is gone its processor has had every byte the programs wrote,
\* and the event log every line, the last one included, unless the disk
\* refused one (session.rs:570, event_log.rs:152).
EndIsComplete ==
    threads.main = "gone" =>
        /\ pts = <<>> /\ threads.processor = "done"
        /\ \A i \in 1..Len(channel) : channel[i].type # "pty"
        /\ threads.writer = "on" => log.disk = log.emitted

=============================================================================
