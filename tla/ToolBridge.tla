----------------------------- MODULE ToolBridge -----------------------------
(***************************************************************************)
(* The daemon's half of the terminal tool round trip                       *)
(* (packages/ai-daemon/src/tool-bridge.ts, class ToolBridge).              *)
(*                                                                         *)
(* A tool call the agent makes is parked as a promise until the terminal   *)
(* answers it, its timer fires, its caller aborts, the request it belongs  *)
(* to ends, or the connection goes away.  Each of these is one synchronous *)
(* JavaScript callback, hence one action.  The parked promise is reachable *)
(* by three roads that the code must keep in step by hand: the `pending`   *)
(* map, the timeout, and the abort listener.                               *)
(*                                                                         *)
(* A response carries the request id and the call id it answers and        *)
(* nothing else.  Call ids restart at tool-1 on every connection, so a     *)
(* response to a call of an earlier connection of the same terminal can    *)
(* carry the id of a live call; only its request id tells it apart.        *)
(***************************************************************************)
EXTENDS Integers, FiniteSets

CONSTANTS
  Requests,             \* ids of the #? requests of this connection
  EarlierRequests,      \* ids this terminal used on an earlier connection
  NoRequest,            \* `undefined` in activeRequestId
  MaxCallsPerRequest,   \* MAX_CALLS_PER_REQUEST
  MaxResultCharacters,  \* MAX_RESULT_CHARACTERS_PER_REQUEST
  ResultSizes,          \* lengths a serialized result may have
  MaxCallId             \* bound: calls sent on one connection

ASSUME RequestsAssumption ==
  /\ NoRequest \notin Requests \cup EarlierRequests
  /\ Requests \cap EarlierRequests = {}

ASSUME BoundsAssumption ==
  /\ MaxCallsPerRequest \in Nat
  /\ MaxResultCharacters \in Nat
  /\ ResultSizes \subseteq Nat
  /\ MaxCallId \in Nat

VARIABLES
  activeRequestId,   \* the request whose window is open
  callCount,         \* calls sent in the window
  resultCharacters,  \* characters returned in the window
  nextCallId,
  disposed,
  pending,           \* keys of the pending map
  timers,            \* calls whose timeout is armed
  listeners,         \* calls whose abort listener is registered
  aborted,           \* requests whose abort signal has fired
  begun,             \* history: requests that had a window
  caller,            \* history: the request each call was sent for
  outcome,           \* what each call's promise resolved to
  answers,           \* history: the request id the settling response named
  size               \* history: length of the result each call returned

vars == <<activeRequestId, callCount, resultCharacters, nextCallId, disposed,
          pending, timers, listeners, aborted, begun, caller, outcome,
          answers, size>>

CallIds == 1..MaxCallId

Failures == {"terminal_error", "timeout", "request_inactive",
             "terminal_disconnected"}
Outcomes == {"unsent", "waiting", "result"} \cup Failures

TypeOK ==
  /\ activeRequestId \in Requests \cup {NoRequest}
  /\ callCount \in Nat
  /\ resultCharacters \in Nat
  /\ nextCallId \in 1..(MaxCallId + 1)
  /\ disposed \in BOOLEAN
  /\ pending \subseteq CallIds
  /\ timers \subseteq CallIds
  /\ listeners \subseteq CallIds
  /\ aborted \subseteq Requests
  /\ begun \subseteq Requests
  /\ caller \in [CallIds -> Requests \cup {NoRequest}]
  /\ outcome \in [CallIds -> Outcomes]
  /\ answers \in [CallIds -> Requests \cup EarlierRequests \cup {NoRequest}]
  /\ size \in [CallIds -> ResultSizes \cup {0}]

Init ==
  /\ activeRequestId = NoRequest
  /\ callCount = 0
  /\ resultCharacters = 0
  /\ nextCallId = 1
  /\ disposed = FALSE
  /\ pending = {}
  /\ timers = {}
  /\ listeners = {}
  /\ aborted = {}
  /\ begun = {}
  /\ caller = [c \in CallIds |-> NoRequest]
  /\ outcome = [c \in CallIds |-> "unsent"]
  /\ answers = [c \in CallIds |-> NoRequest]
  /\ size = [c \in CallIds |-> 0]

-----------------------------------------------------------------------------
(* The closure each call leaves behind: it resolves its promise once, and  *)
(* takes the abort listener down as it does.                               *)

Resolved(S, code) ==
  [c \in CallIds |->
     IF c \in S /\ outcome[c] = "waiting" THEN code ELSE outcome[c]]

(* Deliberate fault: the window's pending calls are settled, but their     *)
(* timers are left running.                                                *)
RejectAll_TimersLeftRunning(code) ==
  /\ outcome' = Resolved(pending, code)
  /\ listeners' = listeners \ pending
  /\ pending' = {}
  /\ UNCHANGED timers

RejectAll(code) ==
  /\ outcome' = Resolved(pending, code)
  /\ listeners' = listeners \ pending
  /\ timers' = timers \ pending
  /\ pending' = {}

(* One call leaves the registry: what settle, onAbort and the timeout do.  *)
Release(S, code) ==
  /\ outcome' = Resolved(S, code)
  /\ pending' = pending \ S
  /\ timers' = timers \ S
  /\ listeners' = listeners \ S

-----------------------------------------------------------------------------
(* Deliberate fault: the budgets of the previous question are kept.        *)
BeginRequest_BudgetKept(r) ==
  /\ activeRequestId' = r
  /\ begun' = begun \cup {r}
  /\ UNCHANGED <<callCount, resultCharacters, nextCallId, disposed, pending,
                 timers, listeners, aborted, caller, outcome, answers, size>>

BeginRequest(r) ==
  /\ activeRequestId' = r
  /\ callCount' = 0
  /\ resultCharacters' = 0
  /\ begun' = begun \cup {r}
  /\ UNCHANGED <<nextCallId, disposed, pending, timers, listeners, aborted,
                 caller, outcome, answers, size>>

EndRequest ==
  /\ activeRequestId' = NoRequest
  /\ RejectAll("request_inactive")
  /\ UNCHANGED <<callCount, resultCharacters, nextCallId, disposed, aborted,
                 begun, caller, answers, size>>

Dispose ==
  /\ disposed' = TRUE
  /\ activeRequestId' = NoRequest
  /\ RejectAll("terminal_disconnected")
  /\ UNCHANGED <<callCount, resultCharacters, nextCallId, aborted, begun,
                 caller, answers, size>>

-----------------------------------------------------------------------------
(* call(): the first guard that fails answers the caller at once and       *)
(* leaves the bridge as it is, so a refused call is a stuttering step.     *)

CallAdmitted ==
  /\ ~disposed
  /\ activeRequestId # NoRequest
  /\ callCount < MaxCallsPerRequest
  /\ resultCharacters < MaxResultCharacters
  /\ activeRequestId \notin aborted

(* Deliberate fault: the promise is parked without a timeout.              *)
Call_NoTimer ==
  /\ CallAdmitted
  /\ nextCallId <= MaxCallId
  /\ callCount' = callCount + 1
  /\ nextCallId' = nextCallId + 1
  /\ pending' = pending \cup {nextCallId}
  /\ listeners' = listeners \cup {nextCallId}
  /\ caller' = [caller EXCEPT ![nextCallId] = activeRequestId]
  /\ outcome' = [outcome EXCEPT ![nextCallId] = "waiting"]
  /\ UNCHANGED <<activeRequestId, resultCharacters, disposed, timers, aborted,
                 begun, answers, size>>

Call ==
  /\ CallAdmitted
  /\ nextCallId <= MaxCallId
  /\ callCount' = callCount + 1
  /\ nextCallId' = nextCallId + 1
  /\ pending' = pending \cup {nextCallId}
  /\ timers' = timers \cup {nextCallId}
  /\ listeners' = listeners \cup {nextCallId}
  /\ caller' = [caller EXCEPT ![nextCallId] = activeRequestId]
  /\ outcome' = [outcome EXCEPT ![nextCallId] = "waiting"]
  /\ UNCHANGED <<activeRequestId, resultCharacters, disposed, aborted, begun,
                 answers, size>>

(* settle(): unknown and settled calls are dropped, and so is an answer    *)
(* for a request that is not the active one, which leaves the call parked. *)

(* Deliberate fault: the call id alone decides.                            *)
AnswerAccepted_AnyRequest(r, c) == c \in pending

AnswerAccepted(r, c) == c \in pending /\ r = activeRequestId

SettleResult(r, c, n) ==
  /\ AnswerAccepted(r, c)
  /\ Release({c}, "result")
  /\ resultCharacters' = resultCharacters + n
  /\ answers' = [answers EXCEPT ![c] = r]
  /\ size' = [size EXCEPT ![c] = n]
  /\ UNCHANGED <<activeRequestId, callCount, nextCallId, disposed, aborted,
                 begun, caller>>

SettleError(r, c) ==
  /\ AnswerAccepted(r, c)
  /\ Release({c}, "terminal_error")
  /\ answers' = [answers EXCEPT ![c] = r]
  /\ UNCHANGED <<activeRequestId, callCount, resultCharacters, nextCallId,
                 disposed, aborted, begun, caller, size>>

TimeoutFires(c) ==
  /\ c \in timers
  /\ Release({c}, "timeout")
  /\ UNCHANGED <<activeRequestId, callCount, resultCharacters, nextCallId,
                 disposed, aborted, begun, caller, answers, size>>

(* The agent's abort signal: every listener registered on it runs.         *)
Abort(r) ==
  /\ aborted' = aborted \cup {r}
  /\ Release({c \in listeners : caller[c] = r}, "request_inactive")
  /\ UNCHANGED <<activeRequestId, callCount, resultCharacters, nextCallId,
                 disposed, begun, caller, answers, size>>

-----------------------------------------------------------------------------
(* The bridge's surroundings, for checking it alone.  TerminalConnection   *)
(* supplies the real caller of the window operations.                      *)

StartTurn(r) ==
  /\ activeRequestId = NoRequest
  /\ ~disposed
  /\ r \notin begun
  /\ BeginRequest(r)

EndTurn ==
  /\ activeRequestId # NoRequest
  /\ EndRequest

CloseConnection == ~disposed /\ Dispose

(* Also a turn without a window: the bridge may be created in its midst.   *)
AbortTurn(r) ==
  /\ r \notin aborted
  /\ Abort(r)

(* What the terminal can send: an answer to a call it was sent, any number *)
(* of times and however late, or one to a call of an earlier connection.   *)
Answerable(r, c) ==
  \/ r \in EarlierRequests
  \/ outcome[c] # "unsent" /\ r = caller[c]

ReceiveResult ==
  \E c \in CallIds, r \in Requests \cup EarlierRequests, n \in ResultSizes :
    Answerable(r, c) /\ SettleResult(r, c, n)

ReceiveError ==
  \E c \in CallIds, r \in Requests \cup EarlierRequests :
    Answerable(r, c) /\ SettleError(r, c)

Next ==
  \/ \E r \in Requests : StartTurn(r)
  \/ EndTurn
  \/ CloseConnection
  \/ Call
  \/ ReceiveResult
  \/ ReceiveError
  \/ \E c \in CallIds : TimeoutFires(c)
  \/ \E r \in Requests : AbortTurn(r)

Fairness == \A c \in CallIds : WF_vars(TimeoutFires(c))

Spec == Init /\ [][Next]_vars /\ Fairness

-----------------------------------------------------------------------------
Waiting == {c \in CallIds : outcome[c] = "waiting"}

(* A parked call can be reached by all three roads (a response, its        *)
(* timeout, its caller's abort) and a settled one by none of them: no call *)
(* is stranded, and no timer or listener outlives the call it was for.     *)
RegistryCoherent ==
  /\ pending = Waiting
  /\ timers = Waiting
  /\ listeners = Waiting

(* Nothing outlives its request: whatever ends a window (the answer ended, *)
(* it was cancelled, the terminal disconnected) every call still parked    *)
(* belongs to the request that is active now, and that request has not     *)
(* been aborted.                                                           *)
WaitingBelongsToActive ==
  \A c \in Waiting :
    /\ caller[c] = activeRequestId
    /\ activeRequestId \notin aborted
    /\ ~disposed

(* The bridge's registry is sound: well typed, coherent, and of the open   *)
(* window only.                                                            *)
BridgeSound == TypeOK /\ RegistryCoherent /\ WaitingBelongsToActive

(* A result reaches the model only from an answer to that very call, never *)
(* from one that a call of an earlier connection was waiting for.          *)
AnswersAreGenuine ==
  \A c \in CallIds :
    outcome[c] \in {"result", "terminal_error"} => answers[c] = caller[c]

CallsOf(r) == {c \in CallIds : caller[c] = r}

(* The call budget is that of the question being answered: it counts every *)
(* call sent for it and none of another question, and no question ever     *)
(* sends more than its limit.                                              *)
CallBudgetExact ==
  /\ activeRequestId # NoRequest =>
       callCount = Cardinality(CallsOf(activeRequestId))
  /\ \A r \in Requests : Cardinality(CallsOf(r)) <= MaxCallsPerRequest

(* The sum over all calls.                                                 *)
Total(number) ==
  LET upTo[c \in 0..MaxCallId] ==
        IF c = 0 THEN 0 ELSE upTo[c - 1] + number[c]
  IN  upTo[MaxCallId]

(* Characters of each result that was returned for request r.              *)
CharactersOf(r) == [c \in CallIds |-> IF caller[c] = r THEN size[c] ELSE 0]

(* So is the character budget: it counts every character read for the      *)
(* question being answered and none of another.                            *)
CharacterBudgetExact ==
  activeRequestId # NoRequest =>
    resultCharacters = Total(CharactersOf(activeRequestId))

(* Both budgets are of the question being answered, whatever ended before  *)
(* it and however (BeginRequest resets them).                              *)
BudgetsExact == CallBudgetExact /\ CharacterBudgetExact

(* An unsettled tool call stalls the agent's turn and so the answer: every *)
(* parked call is eventually settled, even if the terminal never answers.  *)
CallsSettle ==
  \A c \in CallIds : outcome[c] = "waiting" ~> outcome[c] # "waiting"
=============================================================================
