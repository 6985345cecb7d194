---------------------------- MODULE AnswerService ----------------------------
(***************************************************************************)
(* What a terminal connection promises its terminal (the contract stated   *)
(* above TerminalConnection in packages/ai-daemon/src/server.ts): requests *)
(* it accepts are each told one end, in the order they were asked, until   *)
(* one side hangs up; and while nobody hangs up every one of them is told. *)
(***************************************************************************)
CONSTANT Requests

VARIABLES
  asked,    \* accepted requests
  earlier,  \* pairs of them: the first was asked before the second
  told,     \* those that were told their end
  hungUp

vars == <<asked, earlier, told, hungUp>>

Init ==
  /\ asked = {}
  /\ earlier = {}
  /\ told = {}
  /\ hungUp = FALSE

Ask(r) ==
  /\ ~hungUp
  /\ r \notin asked
  /\ asked' = asked \cup {r}
  /\ earlier' = earlier \cup (asked \X {r})
  /\ UNCHANGED <<told, hungUp>>

(* Only the first of those not yet told.                                   *)
Tell(r) ==
  /\ ~hungUp
  /\ r \in asked \ told
  /\ \A q \in asked : <<q, r>> \in earlier => q \in told
  /\ told' = told \cup {r}
  /\ UNCHANGED <<asked, earlier, hungUp>>

HangUp ==
  /\ ~hungUp
  /\ hungUp' = TRUE
  /\ UNCHANGED <<asked, earlier, told>>

Next == (\E r \in Requests : Ask(r) \/ Tell(r)) \/ HangUp

Safety == Init /\ [][Next]_vars

(* Liveness as a leads-to rather than as fairness of Tell, so that it can  *)
(* be checked through a refinement mapping.                                *)
Patience == \A r \in Requests : r \in asked ~> (r \in told \/ hungUp)

Spec == Safety /\ Patience
=============================================================================
