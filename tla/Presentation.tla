---------------------------- MODULE Presentation ----------------------------
(***************************************************************************)
(* How the terminal renders an AI answer among command output              *)
(* (crates/koshell-rs/src/presentation.rs), with the two threads that meet *)
(* it in session.rs: the processor loop, one action per message, and the   *)
(* stdin thread, which decides from an atomic the processor keeps whether  *)
(* a Ctrl+C is the answer's or the program's.                              *)
(*                                                                         *)
(* The screen is reduced to what the properties tell apart: whose block    *)
(* the last labelled text belongs to, whether a koshell notice has been    *)
(* printed since its label, and whether the row above the live region      *)
(* reads like the tail of the anchored answer.  The code compares the text *)
(* of that row and not who wrote it, so a program's last row may read the  *)
(* same (both blank, for instance); a notice is taken not to.  A piece of  *)
(* PTY output is reduced to its effect: an echo on the live line, lines of *)
(* a program, and entering and leaving the alternate screen.  Time is      *)
(* reduced to whether the receipt and the stall delay have passed for the  *)
(* answer in flight.                                                       *)
(***************************************************************************)
EXTENDS Integers, Sequences, FiniteSets, SequencesExt

CONSTANTS
  Requests,
  NoResponse,     \* None in Presentation.active
  Fuse,           \* PTY_BUFFER_FUSE_BYTES, in pieces of output
  Effects,        \* kinds of output programs write
  MaxOutput,      \* bound: pieces of output
  MaxDeltas,      \* bound: deltas of all answers
  MaxNotices,     \* bound: tool lines and notices of other origin
  MaxInterrupts   \* bound: presses of Ctrl+C

ASSUME FuseAssumption == Fuse \in Nat \ {0}
ASSUME EffectsAssumption == Effects \subseteq {"echo", "lines", "alt", "main"}

VARIABLES
  dispatched,   \* requests sent and unfinished, and how their command stood
  active,       \* the response in flight
  aborted,
  screen,
  altScreen,    \* SessionState::alt_screen
  window,       \* the interrupt_window atomic
  keys,         \* Ctrl+C messages between the stdin thread and the processor
  queue,        \* daemon: requests of this connection it has not ended
  asked,        \* history: requests dispatched
  died,         \* history: the daemon died and its connection with it
  overtaken,    \* history: a request came to be in flight before an earlier one
  sent,         \* history: deltas the terminal received, by request
  text,         \* history: deltas on the screen, by request
  finished,     \* history: requests whose end was rendered
  interrupted,  \* history: requests stopped by Ctrl+C
  produced,     \* history: output of the programs
  shown,        \* history: output that reached the screen
  notices,      \* history: number of tool lines and other notices
  pressed,      \* history: Ctrl+C typed
  forwarded,    \* history: Ctrl+C that reached the program
  claimed       \* history: modes of the responses that took a Ctrl+C

vars == <<dispatched, active, aborted, screen, altScreen, window, keys, queue,
          asked, died, overtaken, sent, text, finished, interrupted, produced, shown, notices,
          pressed, forwarded, claimed>>

procVars == <<active, screen, altScreen, window>>
keyVars == <<keys, pressed, forwarded, claimed>>
outputVars == <<produced, shown>>
answerVars == <<sent, text, finished>>
daemonVars == <<queue, asked, died, overtaken>>

(* A response; active is one of these, or none.                            *)
Responses ==
  [id : Requests, mode : {"Stream", "Block"}, anchored : BOOLEAN,
   started : BOOLEAN, accumulated : Nat, held : Seq(Effects),
   relabel : BOOLEAN, aiEnd : BOOLEAN, receiptShown : BOOLEAN,
   stallShown : BOOLEAN, waited : BOOLEAN, stalled : BOOLEAN]

ASSUME NoResponseAssumption == NoResponse \notin Responses

TypeOK ==
  /\ dispatched \in [Requests -> {"no", "ended", "running"}]
  /\ active \in Responses \cup {NoResponse}
  /\ active # NoResponse =>
       /\ active.anchored => active.mode = "Stream"
       /\ active.held # <<>> => active.mode = "Stream" /\ ~active.anchored
       /\ Len(active.held) < Fuse
  /\ aborted \subseteq Requests
  /\ screen \in [owner : Requests \cup {"none", "output"},
                 seam : BOOLEAN, tail : BOOLEAN]
  /\ altScreen \in BOOLEAN
  /\ window \in BOOLEAN
  /\ keys \in Seq({"input", "interrupt"})
  /\ queue \in Seq(Requests)
  /\ asked \subseteq Requests
  /\ died \in BOOLEAN
  /\ overtaken \in BOOLEAN
  /\ sent \in [Requests -> Nat]
  /\ text \in [Requests -> Nat]
  /\ finished \subseteq Requests
  /\ interrupted \subseteq Requests
  /\ produced \in Seq(Effects)
  /\ shown \in Seq(Effects)
  /\ notices \in Nat
  /\ pressed \in Nat
  /\ forwarded \in Nat
  /\ claimed \in [{"Stream", "Block"} -> Nat]

Init ==
  /\ dispatched = [r \in Requests |-> "no"]
  /\ active = NoResponse
  /\ aborted = {}
  /\ screen = [owner |-> "none", seam |-> FALSE, tail |-> FALSE]
  /\ altScreen = FALSE
  /\ window = FALSE
  /\ keys = <<>>
  /\ queue = <<>>
  /\ asked = {}
  /\ died = FALSE
  /\ overtaken = FALSE
  /\ sent = [r \in Requests |-> 0]
  /\ text = [r \in Requests |-> 0]
  /\ finished = {}
  /\ interrupted = {}
  /\ produced = <<>>
  /\ shown = <<>>
  /\ notices = 0
  /\ pressed = 0
  /\ forwarded = 0
  /\ claimed = [m \in {"Stream", "Block"} |-> 0]

-----------------------------------------------------------------------------
(* What is on the screen.                                                  *)

Labelled(r) == [owner |-> r, seam |-> FALSE, tail |-> TRUE]
Output == [owner |-> "output", seam |-> FALSE, tail |-> FALSE]
Noticed(s) == [s EXCEPT !.seam = TRUE, !.tail = FALSE]

(* The alternate-screen state after a stretch of output reaches the mirror. *)
AltAfter(chunks) ==
  LET flips == {i \in DOMAIN chunks : chunks[i] \in {"alt", "main"}}
  IN  IF flips = {} THEN altScreen ELSE chunks[Max(flips)] = "alt"

-----------------------------------------------------------------------------
(* The response in flight.                                                 *)

Holding(a) == a # NoResponse /\ a.mode = "Stream" /\ ~a.anchored

OwnsInterrupt(a) == a # NoResponse /\ a.mode = "Stream"

ReceiptDue(a) ==
  /\ a # NoResponse
  /\ ~a.receiptShown /\ a.waited
  /\ ~a.started /\ a.accumulated = 0

StallDue(a) ==
  Holding(a) /\ a.stalled /\ ~a.stallShown /\ a.held # <<>>

Polled(a) ==
  IF StallDue(a) THEN [a EXCEPT !.stallShown = TRUE, !.receiptShown = TRUE]
  ELSE IF ReceiptDue(a) THEN [a EXCEPT !.receiptShown = TRUE]
  ELSE a

(* The end of every turn of the processor loop: poll() prints what is due, *)
(* and the interrupt window is stored for the stdin thread.  pty_output    *)
(* checks the stall deadline too; in the same turn, so to the same effect. *)
EndTurn(a, s, alt) ==
  /\ active' = Polled(a)
  /\ screen' = IF ReceiptDue(a) \/ StallDue(a) THEN Noticed(s) ELSE s
  /\ altScreen' = alt
  /\ window' = (OwnsInterrupt(a) /\ ~alt)

NewResponse(r, mode, resting) ==
  [id |-> r, mode |-> mode, anchored |-> mode = "Stream" /\ resting,
   started |-> FALSE, accumulated |-> 0, held |-> <<>>, relabel |-> FALSE,
   aiEnd |-> FALSE, receiptShown |-> FALSE, stallShown |-> FALSE,
   waited |-> FALSE, stalled |-> FALSE]

-----------------------------------------------------------------------------
(* request_seq: ids are issued in a fixed order, each once.                *)
NextId == CHOOSE r \in Requests : r \notin asked

(* The requests whose answers are still to come, and wanted.               *)
Awaited == ToSet(queue) \ aborted

(* Dispatch of a question whose command has ended or is still running;     *)
(* `resting` says that a prompt is already rendered under the cursor.  It  *)
(* is in flight at once when nothing else is, be there earlier ones whose  *)
(* answers have not begun.                                                 *)
Dispatch(r, standing, resting) ==
  /\ asked # Requests
  /\ r = NextId
  /\ asked' = asked \cup {r}
  /\ queue' = Append(queue, r)
  /\ overtaken' = (overtaken \/ (active = NoResponse /\ Awaited # {}))
  /\ dispatched' = [dispatched EXCEPT ![r] = standing]
  /\ LET mode == IF standing = "running" THEN "Block" ELSE "Stream"
     IN  EndTurn(IF active = NoResponse
                 THEN NewResponse(r, mode, resting) ELSE active,
                 screen, altScreen)
  /\ UNCHANGED <<died, aborted, interrupted, notices, keyVars, outputVars,
                 answerVars>>

(* A notice of the trigger, of a failed dispatch or of a control marker.   *)
Notice ==
  /\ notices < MaxNotices
  /\ notices' = notices + 1
  /\ EndTurn(active, Noticed(screen), altScreen)
  /\ UNCHANGED <<dispatched, aborted, interrupted, keyVars, daemonVars,
                 outputVars, answerVars>>

-----------------------------------------------------------------------------
(* PTY output.                                                             *)

ProgramWrites(e) ==
  /\ Len(produced) < MaxOutput
  /\ produced' = Append(produced, e)
  /\ UNCHANGED <<dispatched, aborted, interrupted, notices, keyVars,
                 daemonVars, answerVars>>

OutputHeld(e) ==
  /\ Holding(active)
  /\ Len(active.held) + 1 < Fuse
  /\ ProgramWrites(e)
  /\ EndTurn([active EXCEPT !.held = Append(@, e)], screen, altScreen)
  /\ UNCHANGED shown

(* Deliberate fault: the rest of the answer follows the released output    *)
(* without a label of its own.                                             *)
FuseReleases_NoRelabel(e) ==
  /\ Holding(active)
  /\ Len(active.held) + 1 >= Fuse
  /\ ProgramWrites(e)
  /\ LET all == Append(active.held, e)
     IN  /\ shown' = shown \o all
         /\ EndTurn([active EXCEPT !.held = <<>>], Output, AltAfter(all))

(* The held output reaches the fuse and is released as one block.          *)
FuseReleases(e) ==
  /\ Holding(active)
  /\ Len(active.held) + 1 >= Fuse
  /\ ProgramWrites(e)
  /\ LET all == Append(active.held, e)
     IN  /\ shown' = shown \o all
         /\ EndTurn([active EXCEPT !.held = <<>>,
                                   !.relabel = @ \/ active.started],
                    Output, AltAfter(all))

(* Anchored answers leave echoes on the live line below them; the last of  *)
(* the lines a program writes there may read like the answer's tail.       *)
OutputPasses(e) ==
  /\ ~Holding(active)
  /\ ProgramWrites(e)
  /\ shown' = Append(shown, e)
  /\ \E alike \in BOOLEAN :
       /\ alike => active # NoResponse /\ active.anchored /\ active.aiEnd
       /\ EndTurn(active,
                  IF active # NoResponse /\ active.anchored /\ e # "lines"
                  THEN screen ELSE [Output EXCEPT !.tail = alike],
                  AltAfter(<<e>>))

-----------------------------------------------------------------------------
(* The daemon's messages, always about the oldest request it has not ended. *)

Rendering(r) == active # NoResponse /\ active.id = r

Addressed(r, resting) ==
  IF Rendering(r) THEN active
  ELSE NewResponse(r, IF dispatched[r] = "ended" THEN "Stream" ELSE "Block",
                   resting)

DeltasLeft == MapThenSumSet(LAMBDA q : sent[q], Requests) < MaxDeltas

DeltaArrives(r) ==
  /\ DeltasLeft
  /\ sent' = [sent EXCEPT ![r] = @ + 1]
  /\ UNCHANGED <<dispatched, aborted, interrupted, finished, notices, keyVars,
                 daemonVars, outputVars>>

DeltaDropped(r) ==
  /\ r \in aborted
  /\ EndTurn(active, screen, altScreen)
  /\ UNCHANGED text

DeltaStreams(a) ==
  /\ a.mode = "Stream" /\ ~a.anchored
  /\ text' = [text EXCEPT ![a.id] = @ + 1]
  /\ EndTurn([a EXCEPT !.started = TRUE, !.relabel = FALSE],
             IF ~a.started \/ a.relabel THEN Labelled(a.id) ELSE screen,
             altScreen)

(* The row above the live region still reads like the tail of this answer. *)
TailIntact(a) == a.aiEnd => screen.tail

DeltaInserted(a) ==
  /\ a.anchored /\ ~altScreen /\ TailIntact(a)
  /\ text' = [text EXCEPT ![a.id] = @ + 1]
  /\ EndTurn([a EXCEPT !.started = TRUE, !.aiEnd = TRUE],
             IF a.aiEnd THEN screen ELSE Labelled(a.id), altScreen)

DeltaDegrades(a) ==
  /\ a.anchored /\ (altScreen \/ ~TailIntact(a))
  /\ EndTurn([a EXCEPT !.mode = "Block", !.anchored = FALSE,
                       !.accumulated = @ + 1],
             screen, altScreen)
  /\ UNCHANGED text

DeltaAccumulates(a) ==
  /\ a.mode = "Block"
  /\ EndTurn([a EXCEPT !.accumulated = @ + 1], screen, altScreen)
  /\ UNCHANGED text

OnDelta(r, resting) ==
  /\ DeltaArrives(r)
  /\ \/ DeltaDropped(r)
     \/ /\ r \notin aborted
        /\ LET a == [Addressed(r, resting) EXCEPT !.stalled = FALSE]
           IN  \/ DeltaStreams(a)
               \/ DeltaInserted(a)
               \/ DeltaDegrades(a)
               \/ DeltaAccumulates(a)

(* A visible tool step is progress, and a seam the answer resumes below.   *)
OnToolActivity(r) ==
  /\ notices < MaxNotices
  /\ notices' = notices + 1
  /\ IF r \notin aborted /\ Rendering(r)
     THEN EndTurn([active EXCEPT !.receiptShown = TRUE, !.stalled = FALSE,
                     !.aiEnd = FALSE,
                     !.relabel = @ \/ (~active.anchored /\ active.started)],
                  Noticed(screen), altScreen)
     ELSE EndTurn(active, screen, altScreen)
  /\ UNCHANGED <<dispatched, aborted, interrupted, keyVars, daemonVars,
                 outputVars, answerVars>>

Ended(r) ==
  /\ queue' = Tail(queue)
  /\ dispatched' = [dispatched EXCEPT ![r] = "no"]
  /\ aborted' = aborted \ {r}
  /\ UNCHANGED <<asked, died, overtaken, sent, interrupted, produced, notices, keyVars>>

ErrorSeam(s, failed) == IF failed THEN Noticed(s) ELSE s

FinishesUnseen(r) ==
  /\ r \in aborted
  /\ Ended(r)
  /\ EndTurn(active, screen, altScreen)
  /\ UNCHANGED <<text, finished, shown>>

(* The end of a request that is not being rendered: only a failure shows.  *)
FinishesElsewhere(r, failed) ==
  /\ r \notin aborted
  /\ ~Rendering(r)
  /\ Ended(r)
  /\ finished' = finished \cup {r}
  /\ EndTurn(active, ErrorSeam(screen, failed), altScreen)
  /\ UNCHANGED <<text, shown>>

(* Deliberate fault: the held output is not flushed after a failed answer. *)
FinishesStream_ErrorDropsHeld(r, failed) ==
  /\ r \notin aborted
  /\ Rendering(r) /\ active.mode = "Stream"
  /\ Ended(r)
  /\ finished' = finished \cup {r}
  /\ shown' = IF failed THEN shown ELSE shown \o active.held
  /\ EndTurn(NoResponse,
             IF active.held = <<>> THEN ErrorSeam(screen, failed) ELSE Output,
             AltAfter(active.held))
  /\ UNCHANGED text

(* Deliberate fault: the answer ends and stays the one in flight.          *)
FinishesStream_StillActive(r, failed) ==
  /\ r \notin aborted
  /\ Rendering(r) /\ active.mode = "Stream"
  /\ Ended(r)
  /\ finished' = finished \cup {r}
  /\ EndTurn(active, ErrorSeam(screen, failed), altScreen)
  /\ UNCHANGED <<text, shown>>

(* The held output is flushed after the answer; an anchored one held none. *)
FinishesStream(r, failed) ==
  /\ r \notin aborted
  /\ Rendering(r) /\ active.mode = "Stream"
  /\ Ended(r)
  /\ finished' = finished \cup {r}
  /\ shown' = shown \o active.held
  /\ EndTurn(NoResponse,
             IF active.held = <<>> THEN ErrorSeam(screen, failed) ELSE Output,
             AltAfter(active.held))
  /\ UNCHANGED text

(* Deliberate fault: what had accumulated when the answer failed is lost.  *)
FinishesBlock_ErrorDropsText(r, failed) ==
  /\ r \notin aborted
  /\ Rendering(r) /\ active.mode = "Block"
  /\ Ended(r)
  /\ finished' = finished \cup {r}
  /\ text' = [text EXCEPT ![r] = @ + IF failed THEN 0 ELSE active.accumulated]
  /\ EndTurn(NoResponse,
             ErrorSeam(IF active.accumulated = 0 THEN screen ELSE Labelled(r),
                       failed),
             altScreen)
  /\ UNCHANGED shown

(* The accumulated text is inserted as one labelled block.                 *)
FinishesBlock(r, failed) ==
  /\ r \notin aborted
  /\ Rendering(r) /\ active.mode = "Block"
  /\ Ended(r)
  /\ finished' = finished \cup {r}
  /\ text' = [text EXCEPT ![r] = @ + active.accumulated]
  /\ EndTurn(NoResponse,
             ErrorSeam(IF active.accumulated = 0 THEN screen ELSE Labelled(r),
                       failed),
             altScreen)
  /\ UNCHANGED shown

Finish(r) ==
  \/ FinishesUnseen(r)
  \/ \E failed \in BOOLEAN :
       \/ FinishesElsewhere(r, failed)
       \/ FinishesStream(r, failed)
       \/ FinishesBlock(r, failed)

(* The connection is lost, once: what it had not ended will never be.  The *)
(* reader thread exits without a word, and the next dispatch reconnects.   *)
DaemonDies ==
  /\ ~died
  /\ queue # <<>>
  /\ queue' = <<>>
  /\ died' = TRUE
  /\ UNCHANGED <<dispatched, aborted, asked, overtaken, interrupted, notices,
                 procVars, keyVars, outputVars, answerVars>>

-----------------------------------------------------------------------------
(* Ctrl+C.                                                                 *)

(* The stdin thread swallows the key while the window is armed and writes  *)
(* it to the program otherwise; either way it tells the processor.         *)
PressInterrupt ==
  /\ pressed < MaxInterrupts
  /\ pressed' = pressed + 1
  /\ keys' = Append(keys, IF window THEN "interrupt" ELSE "input")
  /\ forwarded' = IF window THEN forwarded ELSE forwarded + 1
  /\ UNCHANGED <<dispatched, aborted, interrupted, claimed, notices, procVars,
                 daemonVars, outputVars, answerVars>>

(* user_interrupt: rendering stops at once and held output is released.    *)
UserInterrupt ==
  /\ active # NoResponse
  /\ dispatched' = [dispatched EXCEPT ![active.id] = "no"]
  /\ aborted' = aborted \cup {active.id}
  /\ interrupted' = interrupted \cup {active.id}
  /\ shown' = shown \o active.held
  /\ EndTurn(NoResponse,
             IF active.held = <<>> THEN Noticed(screen) ELSE Output,
             AltAfter(active.held))

NothingToInterrupt ==
  /\ EndTurn(active, screen, altScreen)
  /\ UNCHANGED <<dispatched, aborted, interrupted, shown>>

TakeKey(k) ==
  /\ keys # <<>> /\ Head(keys) = k
  /\ keys' = Tail(keys)
  /\ UNCHANGED <<pressed, produced, notices, daemonVars, answerVars>>

(* Msg::Input: the program has the key; the answer in flight is withdrawn  *)
(* with it, unless a full-screen program is what it was for.               *)
OnInput ==
  /\ TakeKey("input")
  /\ UNCHANGED <<forwarded, claimed>>
  /\ \/ ~altScreen /\ UserInterrupt
     \/ (altScreen \/ active = NoResponse) /\ NothingToInterrupt

(* Deliberate fault: a swallowed key whose answer has ended is lost.       *)
OnInterrupt_NotForwarded ==
  /\ TakeKey("interrupt")
  /\ UNCHANGED forwarded
  /\ \/ UserInterrupt /\ claimed' = [claimed EXCEPT ![active.mode] = @ + 1]
     \/ active = NoResponse /\ NothingToInterrupt /\ UNCHANGED claimed

(* Msg::Interrupt: the swallowed key stops the answer, or is forwarded     *)
(* after all if there is none any more.                                    *)
OnInterrupt ==
  /\ TakeKey("interrupt")
  /\ \/ /\ UserInterrupt
        /\ claimed' = [claimed EXCEPT ![active.mode] = @ + 1]
        /\ UNCHANGED forwarded
     \/ /\ active = NoResponse
        /\ NothingToInterrupt
        /\ forwarded' = forwarded + 1
        /\ UNCHANGED claimed

-----------------------------------------------------------------------------
(* Deadlines of the answer in flight pass, and the processor wakes.        *)
TimePasses(a) ==
  /\ EndTurn(a, screen, altScreen)
  /\ UNCHANGED <<dispatched, aborted, interrupted, notices, keyVars,
                 daemonVars, outputVars, answerVars>>

ReceiptDelayPasses ==
  /\ active # NoResponse /\ ~active.waited
  /\ TimePasses([active EXCEPT !.waited = TRUE])

StallDelayPasses ==
  /\ active # NoResponse /\ ~active.stalled
  /\ TimePasses([active EXCEPT !.waited = TRUE, !.stalled = TRUE])

DaemonDelta ==
  /\ queue # <<>>
  /\ \E resting \in BOOLEAN : OnDelta(Head(queue), resting)

DaemonToolActivity == queue # <<>> /\ OnToolActivity(Head(queue))

DaemonEnds == queue # <<>> /\ Finish(Head(queue))

Next ==
  \/ \E r \in Requests, standing \in {"ended", "running"}, resting \in BOOLEAN :
       Dispatch(r, standing, resting)
  \/ Notice
  \/ \E e \in Effects : OutputHeld(e) \/ FuseReleases(e) \/ OutputPasses(e)
  \/ DaemonDelta
  \/ DaemonToolActivity
  \/ DaemonEnds
  \/ DaemonDies
  \/ PressInterrupt
  \/ OnInput
  \/ OnInterrupt
  \/ ReceiptDelayPasses
  \/ StallDelayPasses

(* The processor drains its channel, and a daemon that lives ends every    *)
(* request (TerminalConnection's AnswersInOrder).                          *)
Fairness == WF_vars(DaemonEnds) /\ WF_vars(OnInput \/ OnInterrupt)

Spec == Init /\ [][Next]_vars /\ Fairness

-----------------------------------------------------------------------------
HeldOutput == IF active = NoResponse THEN <<>> ELSE active.held

(* Whatever is answered, interrupted, released or degraded meanwhile, the  *)
(* screen gets every byte the programs wrote, once and in their order; the *)
(* rest is held.  (Until the daemon dies or a request is overtaken: see    *)
(* HeldOutputSurvives and HeldOutputKept.)                                 *)
OutputInOrder == ~died /\ ~overtaken => shown \o HeldOutput = produced

(* "A hung daemon can never hold command output silently": once an answer  *)
(* has made no progress for the stall delay and output is held, the user   *)
(* has been told.                                                          *)
HeldNeverSilent ==
  Holding(active) /\ active.stalled /\ active.held # <<>> => active.stallShown

(* What the programs write is neither lost, reordered nor silently held.   *)
OutputSound == TypeOK /\ OutputInOrder /\ HeldNeverSilent

(* A request that ended without an interrupt has its whole answer on the   *)
(* screen, streamed, degraded or inserted; an interrupted one never gets   *)
(* more than it had.                                                       *)
AnswerComplete == \A r \in finished : text[r] = sent[r]

(* The processor's bookkeeping is about requests the daemon still owes an  *)
(* end: no answer in flight waits for one that will not come, and neither  *)
(* set grows with the session.                                             *)
OutstandingOnly ==
  LET owed == ToSet(queue)
  IN  ~died =>
      /\ active # NoResponse => active.id \in owed
      /\ aborted \subseteq owed
      /\ \A r \in Requests : dispatched[r] # "no" => r \in owed

(* No Ctrl+C is lost or doubled between the two threads: each was given to *)
(* the program, stopped one answer, or is still on its way.                *)
Swallowed == {i \in DOMAIN keys : keys[i] = "interrupt"}

InterruptsAccounted ==
  pressed = forwarded + claimed["Stream"] + claimed["Block"] + Cardinality(Swallowed)

(* Interrupts and ends meet: neither a Ctrl+C nor the request it withdrew  *)
(* is left over.                                                           *)
InterruptsSound == InterruptsAccounted /\ OutstandingOnly

(* The row a program left above the live line reads like the tail of the   *)
(* anchored answer: nothing tells the two apart.                           *)
Lookalike(r) ==
  /\ active # NoResponse /\ active.id = r /\ active.aiEnd
  /\ screen.owner = "output" /\ screen.tail

(* Answer text does not continue below output of a program: every piece    *)
(* that is rendered stands in a block of its own request.  (Unless the     *)
(* program's last row reads like the answer's: see NeverUnderOutput.)      *)
NeverInterleaved ==
  [][\A r \in Requests :
       text'[r] # text[r] => screen'.owner = r \/ Lookalike(r)]_vars

(* From the interrupt on nothing of that answer is rendered, however much  *)
(* of it was already on its way.                                           *)
InterruptSilences ==
  [][\A r \in interrupted : text'[r] = text[r]]_vars

(* Answer text appears in its own block only, and not after its interrupt. *)
TextKeepsItsPlace == NeverInterleaved /\ InterruptSilences

(* Held output is not held for good, unless the daemon dies.               *)
HeldIsReleased == HeldOutput # <<>> ~> (HeldOutput = <<>> \/ died)

-----------------------------------------------------------------------------
(* What the documents and comments say and the code does not do.           *)

(* "Killing the foreground program is inviolable, so the byte always       *)
(* reaches the child": a response of a running command never takes a       *)
(* Ctrl+C from the program.                                                *)
ProgramKeepsInterrupt == claimed["Block"] = 0

(* "The held output stays buffered until the answer finishes, the fuse     *)
(* fires, or the user presses Ctrl+C": and is on the screen after that.    *)
HeldOutputSurvives == shown \o HeldOutput = produced

(* The same of a daemon that lives.  "A delta for a different request      *)
(* means the previous one already finished" (presentation.rs 808): not if  *)
(* that one was dispatched while an earlier one had not begun.             *)
HeldOutputKept == ~died => shown \o HeldOutput = produced

(* "The rest of the response degrades to block mode - one seam at the end, *)
(* never line-level interleaving with program output": a piece rendered    *)
(* stands in a block of its own request, whatever the rows read like.      *)
NeverUnderOutput ==
  [][\A r \in Requests : text'[r] # text[r] => screen'.owner = r]_vars

(* "The answer and anything else stay in separate labeled blocks": every   *)
(* piece rendered follows its own label with no notice between.            *)
EveryResumptionLabelled ==
  [][\A r \in Requests : text'[r] # text[r] =>
       screen'.owner = r /\ (screen'.seam => r \in finished')]_vars
=============================================================================
