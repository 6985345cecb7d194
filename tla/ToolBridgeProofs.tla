-------------------------- MODULE ToolBridgeProofs --------------------------
(***************************************************************************)
(* Theorems about ToolBridge, for any number of requests and calls and any *)
(* budgets.  One inductive invariant carries them: the registry and the    *)
(* promises agree, every parked call belongs to the open window, and calls *)
(* are numbered without gaps in the order they were sent.  The budgets are *)
(* two more, on top of it: a request without a window sent no call, and a  *)
(* call without a result returned no character.                            *)
(***************************************************************************)
EXTENDS ToolBridge, FiniteSetTheorems, WellFoundedInduction, TLAPS

(* Call ids below nextCallId have been sent for some request; the others   *)
(* have not.  Without it a call could be sent under the id of a live one.  *)
CallsNumbered ==
  \A c \in CallIds :
    /\ outcome[c] = "unsent" <=> nextCallId <= c
    /\ caller[c] = NoRequest <=> nextCallId <= c

IInv ==
  /\ TypeOK
  /\ CallsNumbered
  /\ RegistryCoherent
  /\ WaitingBelongsToActive
  /\ AnswersAreGenuine

-----------------------------------------------------------------------------
(* What the closures of tool-bridge.ts leave behind: a released call is    *)
(* settled with the code it was released with, the others are untouched.   *)
LEMMA ResolvedType ==
  ASSUME TypeOK, NEW S, NEW code \in Outcomes
  PROVE  Resolved(S, code) \in [CallIds -> Outcomes]
BY DEF TypeOK, Resolved

(* A new bridge: nothing parked, no call numbered.                         *)
LEMMA InitInvariant == Init => IInv
<1> SUFFICES ASSUME Init PROVE IInv
  OBVIOUS
<1> USE DEF Init, CallIds
<1>1. TypeOK
  <2>1. 0 \in Nat /\ 1 \in 1..(MaxCallId + 1)
    BY BoundsAssumption
  <2>2. outcome \in [CallIds -> Outcomes] /\ size \in [CallIds -> ResultSizes \cup {0}]
    BY DEF Outcomes
  <2>3. caller \in [CallIds -> Requests \cup {NoRequest}]
    BY Zenon
  <2>4. answers \in [CallIds -> Requests \cup EarlierRequests \cup {NoRequest}]
    BY Zenon
  <2> QED BY <2>1, <2>2, <2>3, <2>4 DEF TypeOK
<1>2. CallsNumbered
  BY DEF CallsNumbered
<1>3. RegistryCoherent /\ WaitingBelongsToActive /\ AnswersAreGenuine
  BY DEF RegistryCoherent, WaitingBelongsToActive, AnswersAreGenuine, Waiting
<1> QED BY <1>1, <1>2, <1>3 DEF IInv

(* The three ways a set of parked calls leaves the registry (a window that *)
(* ends, a single call, an abort) keep it in step with the promises: the   *)
(* calls outside S stay parked, those in S do not.                         *)
LEMMA ReleaseCoherent ==
  ASSUME IInv, NEW S \in SUBSET CallIds, NEW code \in Outcomes \ {"unsent", "waiting"},
         Release(S, code)
  PROVE  /\ RegistryCoherent'
         /\ Waiting' = Waiting \ S
         /\ outcome' \in [CallIds -> Outcomes]
         /\ \A c \in CallIds : outcome'[c] = "unsent" <=> outcome[c] = "unsent"
         /\ \A c \in CallIds \ S : outcome'[c] = outcome[c]
<1>1. outcome' = Resolved(S, code)
  BY DEF Release
<1>2. outcome' \in [CallIds -> Outcomes]
  BY <1>1, ResolvedType DEF IInv
<1>3. \A c \in CallIds :
        outcome'[c] = IF c \in S /\ outcome[c] = "waiting" THEN code ELSE outcome[c]
  BY <1>1 DEF Resolved
<1>4. Waiting' = Waiting \ S
  BY <1>3 DEF Waiting
<1>5. RegistryCoherent'
  BY <1>4 DEF IInv, RegistryCoherent, Release
<1> QED BY <1>2, <1>3, <1>4, <1>5

(* rejectAll is the release of everything that is parked.                  *)
LEMMA RejectAllIsRelease ==
  ASSUME NEW code, RejectAll(code), IInv
  PROVE  Release(pending, code) /\ pending' = {}
BY DEF RejectAll, Release, Resolved, IInv, RegistryCoherent

(* While no window is open nothing is parked: endRequest and dispose left  *)
(* nothing behind.                                                         *)
LEMMA NoWindowNothingParked ==
  ASSUME IInv, activeRequestId = NoRequest
  PROVE  Waiting = {}
BY DEF IInv, WaitingBelongsToActive, CallsNumbered, Waiting

(* Closing the window, by endRequest or by dispose.                        *)
LEMMA CloseWindowPreserves ==
  ASSUME IInv, NEW code \in Failures, RejectAll(code),
         activeRequestId' = NoRequest, disposed' \in BOOLEAN,
         UNCHANGED <<callCount, resultCharacters, nextCallId, aborted, begun,
                     caller, answers, size>>,
         code # "terminal_error"
  PROVE  IInv'
<1>1. /\ Release(pending, code) /\ pending' = {}
      /\ pending \subseteq CallIds /\ code \in Outcomes \ {"unsent", "waiting"}
      /\ pending = Waiting
  BY RejectAllIsRelease DEF IInv, TypeOK, Outcomes, Failures, RegistryCoherent
<1>2. /\ RegistryCoherent'
      /\ Waiting' = {}
      /\ outcome' \in [CallIds -> Outcomes]
      /\ \A c \in CallIds : outcome'[c] = "unsent" <=> outcome[c] = "unsent"
      /\ \A c \in CallIds \ pending : outcome'[c] = outcome[c]
  BY <1>1, ReleaseCoherent
<1>3. TypeOK'
  BY <1>1, <1>2 DEF IInv, TypeOK, Release
<1>4. CallsNumbered'
  BY <1>2 DEF IInv, CallsNumbered
<1>5. WaitingBelongsToActive'
  BY <1>2 DEF WaitingBelongsToActive
<1>6. AnswersAreGenuine'
  <2> SUFFICES ASSUME NEW c \in CallIds,
                      outcome'[c] \in {"result", "terminal_error"}
               PROVE  outcome[c] = outcome'[c]
    BY DEF IInv, AnswersAreGenuine
  <2>1. c \in pending => outcome'[c] = code
    BY <1>1 DEF Release, Resolved, Waiting
  <2> QED BY <2>1, <1>2 DEF Failures
<1> QED BY <1>2, <1>3, <1>4, <1>5, <1>6 DEF IInv

(* Settling calls while the window stays open: a response, a timeout or an *)
(* abort.  What each changes besides is left to the caller of the lemma.   *)
LEMMA ReleasePreserves ==
  ASSUME IInv, NEW S \in SUBSET CallIds,
         NEW code \in Outcomes \ {"unsent", "waiting"}, Release(S, code),
         UNCHANGED <<activeRequestId, nextCallId, disposed, caller>>
  PROVE  /\ RegistryCoherent' /\ CallsNumbered'
         /\ outcome' \in [CallIds -> Outcomes]
         /\ {pending', timers', listeners'} \subseteq SUBSET CallIds
         /\ Waiting' = Waiting \ S
         /\ \A c \in CallIds \ S : outcome'[c] = outcome[c]
         /\ \A c \in S : outcome'[c] \in {outcome[c], code}
<1>1. /\ RegistryCoherent'
      /\ Waiting' = Waiting \ S
      /\ outcome' \in [CallIds -> Outcomes]
      /\ \A c \in CallIds : outcome'[c] = "unsent" <=> outcome[c] = "unsent"
      /\ \A c \in CallIds \ S : outcome'[c] = outcome[c]
  BY ReleaseCoherent
<1>2. CallsNumbered'
  BY <1>1 DEF IInv, CallsNumbered
<1>3. {pending', timers', listeners'} \subseteq SUBSET CallIds
  BY DEF IInv, TypeOK, Release
<1>4. \A c \in S : outcome'[c] \in {outcome[c], code}
  BY DEF Release, Resolved
<1> QED BY <1>1, <1>2, <1>3, <1>4

-----------------------------------------------------------------------------
(* beginRequest finds nothing parked, so the new window starts clean.      *)
LEMMA StartTurnPreserves ==
  ASSUME IInv, NEW r \in Requests, StartTurn(r)
  PROVE  IInv'
<1> USE DEF StartTurn, BeginRequest
<1>1. Waiting' = {} /\ Waiting = {}
  BY NoWindowNothingParked DEF Waiting
<1>2. TypeOK'
  BY DEF IInv, TypeOK
<1>3. RegistryCoherent' /\ CallsNumbered' /\ AnswersAreGenuine'
  BY <1>1 DEF IInv, RegistryCoherent, CallsNumbered, AnswersAreGenuine
<1>4. WaitingBelongsToActive'
  BY <1>1 DEF WaitingBelongsToActive
<1> QED BY <1>2, <1>3, <1>4 DEF IInv

(* call() parks under an id that was never used.                           *)
LEMMA CallPreserves ==
  ASSUME IInv, Call
  PROVE  IInv'
<1> USE DEF Call, CallAdmitted
<1>1. nextCallId \in CallIds /\ nextCallId \in Nat /\ MaxCallId \in Nat
  BY BoundsAssumption DEF IInv, TypeOK, CallIds
<1>2. activeRequestId \in Requests /\ activeRequestId # NoRequest
  BY RequestsAssumption DEF IInv, TypeOK
<1>3. TypeOK'
  <2>1. nextCallId' \in 1..(MaxCallId + 1) /\ callCount' \in Nat
    BY <1>1 DEF IInv, TypeOK
  <2>2. /\ pending' \subseteq CallIds
        /\ timers' \subseteq CallIds
        /\ listeners' \subseteq CallIds
        /\ caller' \in [CallIds -> Requests \cup {NoRequest}]
        /\ outcome' \in [CallIds -> Outcomes]
    BY <1>1, <1>2 DEF IInv, TypeOK, Outcomes
  <2> QED BY <2>1, <2>2 DEF IInv, TypeOK
<1>4. CallsNumbered'
  <2> SUFFICES ASSUME NEW c \in CallIds
               PROVE  /\ outcome'[c] = "unsent" <=> nextCallId' <= c
                      /\ caller'[c] = NoRequest <=> nextCallId' <= c
    BY DEF CallsNumbered
  <2>1. c \in Nat
    BY DEF CallIds
  <2>2. CASE c = nextCallId
    BY <1>1, <1>2, <2>1, <2>2 DEF IInv, TypeOK
  <2>3. CASE c # nextCallId
    BY <1>1, <2>1, <2>3 DEF IInv, TypeOK, CallsNumbered
  <2> QED BY <2>2, <2>3
<1>5. Waiting' = Waiting \cup {nextCallId}
  BY <1>1 DEF IInv, TypeOK, Waiting
<1>6. RegistryCoherent'
  BY <1>5 DEF IInv, RegistryCoherent
<1>7. WaitingBelongsToActive'
  BY <1>1, <1>5 DEF IInv, TypeOK, WaitingBelongsToActive
<1>8. AnswersAreGenuine'
  <2>1. outcome[nextCallId] = "unsent"
    BY <1>1 DEF IInv, CallsNumbered
  <2> QED BY <1>1, <2>1 DEF IInv, TypeOK, AnswersAreGenuine
<1> QED BY <1>3, <1>4, <1>6, <1>7, <1>8 DEF IInv

(* A response settles a call only if it names the active request, and a    *)
(* parked call belongs to that request.                                    *)
LEMMA SettlePreserves ==
  ASSUME IInv, NEW r \in Requests \cup EarlierRequests, NEW c \in CallIds,
         NEW code \in {"result", "terminal_error"},
         AnswerAccepted(r, c), Release({c}, code),
         answers' = [answers EXCEPT ![c] = r],
         resultCharacters' \in Nat, size' \in [CallIds -> ResultSizes \cup {0}],
         UNCHANGED <<activeRequestId, callCount, nextCallId, disposed, aborted,
                     begun, caller>>
  PROVE  IInv'
<1>1. code \in Outcomes \ {"unsent", "waiting"} /\ {c} \in SUBSET CallIds
  BY DEF Outcomes, Failures
<1>2. /\ RegistryCoherent' /\ CallsNumbered'
      /\ outcome' \in [CallIds -> Outcomes]
      /\ {pending', timers', listeners'} \subseteq SUBSET CallIds
      /\ Waiting' = Waiting \ {c}
      /\ \A d \in CallIds \ {c} : outcome'[d] = outcome[d]
  BY <1>1, ReleasePreserves
<1>3. TypeOK'
  BY <1>2 DEF IInv, TypeOK
<1>4. WaitingBelongsToActive'
  BY <1>2 DEF IInv, WaitingBelongsToActive
<1>5. caller[c] = r
  BY DEF IInv, AnswerAccepted, RegistryCoherent, WaitingBelongsToActive
<1>6. AnswersAreGenuine'
  <2>1. answers'[c] = r /\ \A d \in CallIds \ {c} : answers'[d] = answers[d]
    BY DEF IInv, TypeOK
  <2> QED BY <1>2, <1>5, <2>1 DEF IInv, AnswersAreGenuine
<1> QED BY <1>2, <1>3, <1>4, <1>6 DEF IInv

(* tool_result and tool_error.                                             *)
LEMMA ReceivePreserves ==
  ASSUME IInv, ReceiveResult \/ ReceiveError
  PROVE  IInv'
<1>1. ASSUME NEW c \in CallIds, NEW r \in Requests \cup EarlierRequests,
             NEW n \in ResultSizes, SettleResult(r, c, n)
      PROVE  IInv'
  <2>1. resultCharacters' \in Nat
    BY <1>1, BoundsAssumption DEF IInv, TypeOK, SettleResult
  <2>2. size' \in [CallIds -> ResultSizes \cup {0}]
    BY <1>1 DEF IInv, TypeOK, SettleResult
  <2> QED BY <1>1, <2>1, <2>2, SettlePreserves DEF SettleResult
<1>2. ASSUME NEW c \in CallIds, NEW r \in Requests \cup EarlierRequests,
             SettleError(r, c)
      PROVE  IInv'
  <2>1. resultCharacters' \in Nat /\ size' \in [CallIds -> ResultSizes \cup {0}]
    BY <1>2 DEF IInv, TypeOK, SettleError
  <2> QED BY <1>2, <2>1, SettlePreserves DEF SettleError
<1> QED BY <1>1, <1>2 DEF ReceiveResult, ReceiveError

(* The timeout of one call.                                                *)
LEMMA TimeoutPreserves ==
  ASSUME IInv, NEW c \in CallIds, TimeoutFires(c)
  PROVE  IInv'
<1> USE DEF TimeoutFires
<1>1. "timeout" \in Outcomes \ {"unsent", "waiting"} /\ {c} \in SUBSET CallIds
  BY DEF Outcomes, Failures
<1>2. /\ RegistryCoherent' /\ CallsNumbered'
      /\ outcome' \in [CallIds -> Outcomes]
      /\ {pending', timers', listeners'} \subseteq SUBSET CallIds
      /\ Waiting' = Waiting \ {c}
      /\ \A d \in CallIds \ {c} : outcome'[d] = outcome[d]
      /\ outcome'[c] \in {outcome[c], "timeout"}
  BY <1>1, ReleasePreserves
<1>3. TypeOK'
  BY <1>2 DEF IInv, TypeOK
<1>4. WaitingBelongsToActive'
  BY <1>2 DEF IInv, WaitingBelongsToActive
<1>5. AnswersAreGenuine'
  BY <1>2 DEF IInv, AnswersAreGenuine
<1> QED BY <1>2, <1>3, <1>4, <1>5 DEF IInv

(* The abort signal settles every call of its request, and so all of the   *)
(* window's.                                                               *)
LEMMA AbortPreserves ==
  ASSUME IInv, NEW r \in Requests, Abort(r)
  PROVE  IInv'
<1> DEFINE S == {c \in listeners : caller[c] = r}
<1>1. /\ "request_inactive" \in Outcomes \ {"unsent", "waiting"}
      /\ S \in SUBSET CallIds
      /\ Release(S, "request_inactive")
  BY DEF Abort, Outcomes, Failures, IInv, TypeOK
<1> HIDE DEF S
<1>2. /\ RegistryCoherent' /\ CallsNumbered'
      /\ outcome' \in [CallIds -> Outcomes]
      /\ {pending', timers', listeners'} \subseteq SUBSET CallIds
      /\ Waiting' = Waiting \ S
      /\ \A d \in CallIds \ S : outcome'[d] = outcome[d]
      /\ \A d \in S : outcome'[d] \in {outcome[d], "request_inactive"}
  BY <1>1, ReleasePreserves DEF Abort
<1>3. TypeOK'
  BY <1>2 DEF IInv, TypeOK, Abort
<1>4. WaitingBelongsToActive'
  <2>1. \A c \in Waiting \ S : caller[c] # r
    BY DEF S, IInv, RegistryCoherent
  <2> QED BY <1>2, <2>1 DEF IInv, WaitingBelongsToActive, Abort
<1>5. AnswersAreGenuine'
  BY <1>2 DEF IInv, AnswersAreGenuine, Abort
<1> QED BY <1>2, <1>3, <1>4, <1>5 DEF IInv

(* The parts together: IInv is inductive.                                  *)
LEMMA StepInvariant == IInv /\ [Next]_vars => IInv'
<1> SUFFICES ASSUME IInv, [Next]_vars PROVE IInv'
  OBVIOUS
<1>1. CASE \E r \in Requests : StartTurn(r)
  BY <1>1, StartTurnPreserves
<1>2. CASE EndTurn
  BY <1>2, CloseWindowPreserves DEF EndTurn, EndRequest, Failures, IInv, TypeOK
<1>3. CASE CloseConnection
  BY <1>3, CloseWindowPreserves DEF CloseConnection, Dispose, Failures
<1>4. CASE Call
  BY <1>4, CallPreserves
<1>5. CASE ReceiveResult \/ ReceiveError
  BY <1>5, ReceivePreserves
<1>6. CASE \E c \in CallIds : TimeoutFires(c)
  BY <1>6, TimeoutPreserves
<1>7. CASE \E r \in Requests : AbortTurn(r)
  BY <1>7, AbortPreserves DEF AbortTurn
<1>8. CASE UNCHANGED vars
  BY <1>8 DEF vars, IInv, TypeOK, CallsNumbered, RegistryCoherent,
              WaitingBelongsToActive, AnswersAreGenuine, Waiting
<1> QED BY <1>1, <1>2, <1>3, <1>4, <1>5, <1>6, <1>7, <1>8 DEF Next

(* The bridge is well typed; the pending map, the timers and the abort     *)
(* listeners of tool-bridge.ts are always those of exactly the calls whose *)
(* promise is unsettled; and no parked call outlives the window, the abort *)
(* or the connection of the request it was made for.                       *)
THEOREM BridgeAlwaysSound == Spec => []BridgeSound
<1>1. IInv => BridgeSound
  BY DEF IInv, BridgeSound
<1> QED BY <1>1, InitInvariant, StepInvariant, PTL DEF Spec

(* However late, repeated or stale the terminal's answers are, a call is   *)
(* only ever settled by an answer that names its own request.              *)
THEOREM AnswersAlwaysGenuine == Spec => []AnswersAreGenuine
BY InitInvariant, StepInvariant, PTL DEF Spec, IInv

-----------------------------------------------------------------------------
(* The call budget.  What makes it inductive: a question that had no       *)
(* window has no calls, so opening one at zero counts right.               *)
BudgetInv ==
  /\ \A r \in Requests : r \notin begun => CallsOf(r) = {}
  /\ activeRequestId # NoRequest => activeRequestId \in begun
  /\ CallBudgetExact

(* The calls of a request can be counted.                                  *)
LEMMA CallsOfFinite ==
  ASSUME NEW r
  PROVE  IsFiniteSet(CallsOf(r)) /\ Cardinality(CallsOf(r)) \in Nat
<1>1. IsFiniteSet(1..MaxCallId)
  BY FS_Interval, BoundsAssumption
<1>2. CallsOf(r) \subseteq 1..MaxCallId
  BY DEF CallsOf, CallIds
<1> QED BY <1>1, <1>2, FS_Subset, FS_CardinalityType

(* A new bridge has sent nothing.                                          *)
LEMMA InitBudget == Init => BudgetInv
<1> SUFFICES ASSUME Init PROVE BudgetInv
  OBVIOUS
<1>1. \A r \in Requests : CallsOf(r) = {}
  BY RequestsAssumption DEF Init, CallsOf
<1>2. \A r \in Requests : Cardinality(CallsOf(r)) = 0
  BY <1>1, FS_EmptySet
<1> QED BY <1>1, <1>2, BoundsAssumption DEF Init, BudgetInv, CallBudgetExact

(* Whatever sends no call and opens no window leaves the budget exact.     *)
LEMMA BudgetKept ==
  ASSUME BudgetInv, caller' = caller, callCount' = callCount, begun' = begun,
         activeRequestId' \in {activeRequestId, NoRequest}
  PROVE  BudgetInv'
<1>1. \A r : CallsOf(r)' = CallsOf(r)
  BY DEF CallsOf
<1> QED BY <1>1 DEF BudgetInv, CallBudgetExact

(* A request's first window starts at zero, and it has sent nothing        *)
(* before.                                                                 *)
LEMMA StartTurnBudget ==
  ASSUME IInv, BudgetInv, NEW r \in Requests, StartTurn(r)
  PROVE  BudgetInv'
<1> USE DEF StartTurn, BeginRequest
<1>1. \A q : CallsOf(q)' = CallsOf(q)
  BY DEF CallsOf
<1>2. CallsOf(r) = {} /\ Cardinality(CallsOf(r)) = 0
  BY FS_EmptySet DEF BudgetInv
<1>3. CallBudgetExact'
  BY <1>1, <1>2 DEF BudgetInv, CallBudgetExact
<1> QED BY <1>1, <1>3 DEF BudgetInv

(* A call is counted with the request it was sent for.                     *)
LEMMA CallBudget ==
  ASSUME IInv, BudgetInv, Call
  PROVE  BudgetInv'
<1> USE DEF Call, CallAdmitted
<1>1. nextCallId \in CallIds /\ caller[nextCallId] = NoRequest
  <2>1. nextCallId \in CallIds /\ nextCallId <= nextCallId
    BY BoundsAssumption DEF IInv, TypeOK, CallIds
  <2> QED BY <2>1 DEF IInv, CallsNumbered
<1>2. activeRequestId \in Requests /\ activeRequestId # NoRequest
  BY RequestsAssumption DEF IInv, TypeOK
<1>3. CallsOf(activeRequestId)' = CallsOf(activeRequestId) \cup {nextCallId}
  BY <1>1 DEF CallsOf, IInv, TypeOK
<1>4. \A r \in Requests \ {activeRequestId} : CallsOf(r)' = CallsOf(r)
  BY <1>1, RequestsAssumption DEF CallsOf, IInv, TypeOK
<1>5. Cardinality(CallsOf(activeRequestId))' = Cardinality(CallsOf(activeRequestId)) + 1
  <2>1. nextCallId \notin CallsOf(activeRequestId)
    BY <1>1, <1>2 DEF CallsOf
  <2>2. Cardinality(CallsOf(activeRequestId) \cup {nextCallId})
          = Cardinality(CallsOf(activeRequestId)) + 1
    BY <2>1, CallsOfFinite, FS_AddElement
  <2> QED BY <1>3, <2>2
<1>6. callCount = Cardinality(CallsOf(activeRequestId)) /\ callCount \in Nat
  BY <1>2, CallsOfFinite DEF BudgetInv, CallBudgetExact
<1>7. Cardinality(CallsOf(activeRequestId))' <= MaxCallsPerRequest
  BY <1>5, <1>6, BoundsAssumption
<1>8. CallBudgetExact'
  BY <1>2, <1>4, <1>5, <1>6, <1>7 DEF BudgetInv, CallBudgetExact
<1> QED BY <1>2, <1>4, <1>8 DEF BudgetInv

(* The parts together.                                                     *)
LEMMA StepBudget == IInv /\ BudgetInv /\ [Next]_vars => BudgetInv'
<1> SUFFICES ASSUME IInv, BudgetInv, [Next]_vars PROVE BudgetInv'
  OBVIOUS
<1>1. CASE \E r \in Requests : StartTurn(r)
  BY <1>1, StartTurnBudget
<1>2. CASE EndTurn \/ CloseConnection
  BY <1>2, BudgetKept DEF EndTurn, EndRequest, CloseConnection, Dispose
<1>3. CASE Call
  BY <1>3, CallBudget
<1>4. CASE ReceiveResult \/ ReceiveError
  BY <1>4, BudgetKept DEF ReceiveResult, ReceiveError, SettleResult, SettleError
<1>5. CASE \E c \in CallIds : TimeoutFires(c)
  BY <1>5, BudgetKept DEF TimeoutFires
<1>6. CASE \E r \in Requests : AbortTurn(r)
  BY <1>6, BudgetKept DEF AbortTurn, Abort
<1>7. CASE UNCHANGED vars
  BY <1>7, BudgetKept DEF vars
<1> QED BY <1>1, <1>2, <1>3, <1>4, <1>5, <1>6, <1>7 DEF Next

(* MAX_CALLS_PER_REQUEST is a limit per question: whatever fails, times    *)
(* out or is cancelled, the count is exactly the calls of this question.   *)
THEOREM CallBudgetAlwaysExact == Spec => []CallBudgetExact
<1>1. Init => IInv /\ BudgetInv
  BY InitInvariant, InitBudget
<1>2. (IInv /\ BudgetInv) /\ [Next]_vars => (IInv /\ BudgetInv)'
  BY StepInvariant, StepBudget
<1> QED BY <1>1, <1>2, PTL DEF Spec, BudgetInv

-----------------------------------------------------------------------------
(* The character budget.  Sums over the calls, first: a set of naturals    *)
(* that is not empty has a least element.                                  *)
LEMMA LeastExists ==
  ASSUME NEW S \in SUBSET Nat, S # {}
  PROVE  \E x \in S : \A y \in S : x <= y
<1> DEFINE T == {0..x : x \in S}
           R == StrictSubsetOrdering(Nat)
<1>1. T # {} /\ T \subseteq FiniteSubsetsOf(Nat)
  <2>1. \A x \in S : IsFiniteSet(0..x) /\ 0..x \subseteq Nat
    BY FS_Interval
  <2> QED BY <2>1 DEF FiniteSubsetsOf
<1>2. PICK I \in T : \A J \in T : ~ (<<J, I>> \in R)
  <2>1. IsWellFoundedOn(R, FiniteSubsetsOf(Nat))
    BY FS_StrictSubsetOrderingWellFounded
  <2> HIDE DEF T, R
  <2> QED BY <1>1, <2>1, WFMin
<1>3. PICK x \in S : I = 0..x
  OBVIOUS
<1>4. ASSUME NEW y \in S, y < x PROVE FALSE
  <2>1. 0..y \in T
    OBVIOUS
  <2>2. 0..y \subseteq 0..x /\ x \in 0..x /\ x \notin 0..y
    BY <1>4
  <2>3. 0..y \in SUBSET Nat /\ 0..x \in SUBSET Nat
    OBVIOUS
  <2>4. <<0..y, I>> \in R
    BY <1>3, <2>2, <2>3 DEF StrictSubsetOrdering
  <2> QED BY <1>2, <2>1, <2>4
<1> QED BY <1>4

(* What holds at 0 and carries over to the next holds up to n. *)
LEMMA Counting ==
  ASSUME NEW n \in Nat, NEW S, 0 \in S, \A i \in 1..n : i - 1 \in S => i \in S
  PROVE  0..n \subseteq S
<1> DEFINE Missing == (0..n) \ S
<1>1. SUFFICES ASSUME Missing # {} PROVE FALSE
  OBVIOUS
<1>2. Missing \in SUBSET Nat
  OBVIOUS
<1>3. PICK x \in Missing : \A y \in Missing : x <= y
  <2> HIDE DEF Missing
  <2> QED BY <1>1, <1>2, LeastExists
<1>4. x \in 1..n /\ x - 1 \in 0..n /\ x - 1 \notin Missing
  BY <1>3
<1> QED BY <1>4

(* The sums of the first numbers. *)
IsSum(t, number, n) ==
  /\ t \in [0..n -> Int]
  /\ t[0] = 0
  /\ \A i \in 1..n : t[i] = t[i - 1] + number[i]

(* They exist, however many there are. *)
LEMMA SumExists ==
  ASSUME NEW n \in Nat, NEW number \in [1..n -> Int]
  PROVE  \E t : IsSum(t, number, n)
<1> DEFINE S == {m \in 0..n : \E t : IsSum(t, number, m)}
<1>1. 0 \in S
  <2> DEFINE t == [i \in 0..0 |-> 0]
  <2>1. t \in [0..0 -> Int] /\ t[0] = 0
    OBVIOUS
  <2>2. \A i \in 1..0 : FALSE
    OBVIOUS
  <2> HIDE DEF t
  <2>3. IsSum(t, number, 0)
    BY <2>1, <2>2 DEF IsSum
  <2> QED BY <2>3
<1>2. ASSUME NEW i \in 1..n, i - 1 \in S PROVE i \in S
  <2>1. PICK t : IsSum(t, number, i - 1)
    BY <1>2
  <2> DEFINE u == [k \in 0..i |-> IF k = i THEN t[i - 1] + number[i] ELSE t[k]]
  <2>2. t[i - 1] + number[i] \in Int
    BY <2>1 DEF IsSum
  <2>3. \A k \in 0..i : k = i \/ k \in 0..(i - 1)
    OBVIOUS
  <2>4. u \in [0..i -> Int] /\ u[0] = 0
    BY <2>1, <2>2, <2>3 DEF IsSum
  <2>5. u[i] = t[i - 1] + number[i] /\ \A k \in 0..(i - 1) : u[k] = t[k]
    OBVIOUS
  <2> HIDE DEF u
  <2>6. ASSUME NEW k \in 1..i PROVE u[k] = u[k - 1] + number[k]
    <3>1. CASE k = i
      <4>1. i - 1 \in 0..(i - 1)
        OBVIOUS
      <4> QED BY <2>5, <3>1, <4>1
    <3>2. CASE k # i
      <4>1. k \in 1..(i - 1) /\ k - 1 \in 0..(i - 1) /\ k \in 0..(i - 1)
        BY <3>2
      <4>2. t[k] = t[k - 1] + number[k]
        BY <2>1, <4>1 DEF IsSum
      <4> QED BY <2>5, <4>1, <4>2
    <3> QED BY <3>1, <3>2
  <2>7. IsSum(u, number, i)
    BY <2>4, <2>6 DEF IsSum
  <2>8. i \in 0..n
    OBVIOUS
  <2> QED BY <2>7, <2>8
<1>3. n \in S
  <2> HIDE DEF S
  <2>1. 0..n \subseteq S
    BY <1>1, <1>2, Counting
  <2> QED BY <2>1
<1> QED BY <1>3

(* Total is the last of them.                                              *)
LEMMA TotalIsSum ==
  ASSUME NEW number \in [CallIds -> Int]
  PROVE  \E t : IsSum(t, number, MaxCallId) /\ Total(number) = t[MaxCallId]
<1> DEFINE n == MaxCallId
           P(t) == t = [i \in 0..n |-> IF i = 0 THEN 0 ELSE t[i - 1] + number[i]]
<1>1. n \in Nat /\ number \in [1..n -> Int]
  BY BoundsAssumption DEF CallIds
<1>2. Total(number) = (CHOOSE t : P(t))[n]
  BY DEF Total
<1> HIDE DEF n
<1>3. PICK h : IsSum(h, number, n)
  BY <1>1, SumExists
<1>4. P(h)
  <2>1. \A i \in 0..n : i # 0 => i \in 1..n
    BY <1>1
  <2>2. \A i \in 0..n : h[i] = IF i = 0 THEN 0 ELSE h[i - 1] + number[i]
    BY <1>3, <2>1 DEF IsSum
  <2>3. h = [i \in 0..n |-> h[i]]
    BY <1>3 DEF IsSum
  <2> QED BY <2>2, <2>3
<1> DEFINE t == CHOOSE t : P(t)
<1>5. P(t)
  BY <1>4
<1> HIDE DEF t
<1>6. t[0] = 0 /\ \A i \in 1..n : t[i] = t[i - 1] + number[i]
  <2>1. \A i \in 0..n : t[i] = IF i = 0 THEN 0 ELSE t[i - 1] + number[i]
    BY <1>5
  <2>2. 0 \in 0..n /\ \A i \in 1..n : i \in 0..n /\ i # 0
    BY <1>1
  <2> QED BY <2>1, <2>2
<1>7. t \in [0..n -> Int]
  <2> DEFINE S == {i \in 0..n : t[i] \in Int}
  <2>1. 0 \in S /\ \A i \in 1..n : i - 1 \in S => i \in S
    BY <1>1, <1>6
  <2>2. 0..n \subseteq S
    <3> HIDE DEF S
    <3> QED BY <1>1, <2>1, Counting
  <2>3. t = [i \in 0..n |-> t[i]]
    BY <1>5
  <2> QED BY <2>2, <2>3
<1>8. IsSum(t, number, n)
  BY <1>6, <1>7 DEF IsSum
<1> QED BY <1>2, <1>8 DEF t, n

(* A sum changes by as much as the one number that changes.                *)
LEMMA TotalChanges ==
  ASSUME NEW a \in [CallIds -> Int], NEW b \in [CallIds -> Int],
         NEW c \in CallIds, \A i \in CallIds \ {c} : a[i] = b[i]
  PROVE  Total(a) \in Int /\ Total(b) = Total(a) - a[c] + b[c]
<1> DEFINE n == MaxCallId
<1>1. n \in Nat /\ CallIds = 1..n
  BY BoundsAssumption DEF CallIds
<1>2. PICK s : IsSum(s, a, n) /\ Total(a) = s[n]
  BY TotalIsSum
<1>3. PICK t : IsSum(t, b, n) /\ Total(b) = t[n]
  BY TotalIsSum
<1> HIDE DEF n
<1>4. \A i \in 0..n : s[i] \in Int /\ t[i] \in Int
  BY <1>2, <1>3 DEF IsSum
<1>5. \A i \in 1..n : /\ a[i] \in Int /\ b[i] \in Int
                      /\ s[i] = s[i - 1] + a[i] /\ t[i] = t[i - 1] + b[i]
                      /\ i # c => a[i] = b[i]
  BY <1>1, <1>2, <1>3 DEF IsSum
<1> DEFINE S == {i \in 0..n : t[i] = IF i < c THEN s[i] ELSE s[i] - a[c] + b[c]}
<1>6. 0 \in S
  BY <1>1, <1>2, <1>3 DEF IsSum
<1>7. ASSUME NEW i \in 1..n, i - 1 \in S PROVE i \in S
  <2>1. i \in 0..n /\ i - 1 \in 0..n /\ c \in 1..n
    BY <1>1
  <2>2. s[i - 1] \in Int /\ t[i - 1] \in Int /\ a[c] \in Int /\ b[c] \in Int
    BY <1>4, <1>5, <2>1
  <2>3. CASE i < c
    <3>1. t[i - 1] = s[i - 1] /\ a[i] = b[i]
      BY <1>5, <1>7, <2>1, <2>3
    <3> QED BY <1>5, <2>1, <2>3, <3>1
  <2>4. CASE i = c
    <3>1. t[i - 1] = s[i - 1]
      BY <1>7, <2>1, <2>4
    <3>2. t[i] = s[i] - a[c] + b[c]
      BY <1>5, <2>2, <2>4, <3>1
    <3> QED BY <2>1, <2>4, <3>2
  <2>5. CASE c < i
    <3>1. t[i - 1] = s[i - 1] - a[c] + b[c] /\ a[i] = b[i]
      BY <1>5, <1>7, <2>1, <2>5
    <3>2. t[i] = s[i] - a[c] + b[c]
      BY <1>5, <2>2, <3>1
    <3> QED BY <2>1, <2>5, <3>2
  <2> QED BY <2>1, <2>3, <2>4, <2>5
<1>8. n \in S
  <2> HIDE DEF S
  <2>1. 0..n \subseteq S
    BY <1>1, <1>6, <1>7, Counting
  <2> QED BY <1>1, <2>1
<1>9. ~(n < c)
  BY <1>1
<1> QED BY <1>1, <1>2, <1>3, <1>4, <1>8, <1>9

(* A sum of nothing is nothing. *)
LEMMA TotalNothing ==
  ASSUME NEW a \in [CallIds -> Int], \A c \in CallIds : a[c] = 0
  PROVE  Total(a) = 0
<1> DEFINE n == MaxCallId
<1>1. n \in Nat /\ CallIds = 1..n
  BY BoundsAssumption DEF CallIds
<1>2. PICK s : IsSum(s, a, n) /\ Total(a) = s[n]
  BY TotalIsSum
<1> HIDE DEF n
<1> DEFINE Zero == {i \in 0..n : s[i] = 0}
<1>3. 0 \in Zero /\ \A i \in 1..n : i - 1 \in Zero => i \in Zero
  BY <1>1, <1>2 DEF IsSum
<1>4. 0..n \subseteq Zero
  <2> HIDE DEF Zero
  <2> QED BY <1>1, <1>3, Counting
<1> QED BY <1>1, <1>2, <1>4

(* A call that returned no result returned no characters; and the budget   *)
(* is exact.                                                               *)
CharacterInv ==
  /\ \A c \in CallIds : outcome[c] # "result" => size[c] = 0
  /\ CharacterBudgetExact

(* Numbers of characters are numbers. *)
LEMMA CharactersTyped ==
  ASSUME NEW r, TypeOK
  PROVE  /\ CharactersOf(r) \in [CallIds -> Int]
         /\ \A c \in CallIds : size[c] \in Nat
<1>1. \A c \in CallIds : size[c] \in Nat
  <2>1. size \in [CallIds -> ResultSizes \cup {0}]
    BY DEF TypeOK
  <2>2. ResultSizes \subseteq Nat
    BY BoundsAssumption
  <2>3. \A n \in ResultSizes \cup {0} : n \in Nat
    BY <2>2
  <2> QED BY <2>1, <2>3
<1>2. \A c \in CallIds : (IF caller[c] = r THEN size[c] ELSE 0) \in Int
  BY <1>1
<1> QED BY <1>1, <1>2 DEF CharactersOf

(* A new bridge has returned nothing. *)
LEMMA InitCharacters == Init => CharacterInv
BY DEF Init, CharacterInv, CharacterBudgetExact

(* Promises that are settled stay settled. *)
LEMMA OutcomeMoves ==
  ASSUME NEW S, NEW code, outcome' = Resolved(S, code), NEW c \in CallIds
  PROVE  outcome'[c] = outcome[c] \/ outcome[c] = "waiting"
BY DEF Resolved

(* Whatever returns no result and opens no window leaves the budget exact. *)
LEMMA CharactersKept ==
  ASSUME CharacterInv, caller' = caller, size' = size,
         resultCharacters' = resultCharacters,
         activeRequestId' \in {activeRequestId, NoRequest},
         \A c \in CallIds : outcome'[c] = outcome[c] \/ outcome[c] = "waiting"
  PROVE  CharacterInv'
<1>1. \A r : CharactersOf(r)' = CharactersOf(r)
  BY DEF CharactersOf
<1>2. CharacterBudgetExact'
  BY <1>1 DEF CharacterInv, CharacterBudgetExact
<1>3. \A c \in CallIds : outcome'[c] # "result" => size'[c] = 0
  BY DEF CharacterInv
<1> QED BY <1>2, <1>3 DEF CharacterInv

(* A request's first window starts at zero, and nothing was returned for   *)
(* it before.                                                              *)
LEMMA StartTurnCharacters ==
  ASSUME IInv, BudgetInv, CharacterInv, NEW r \in Requests, StartTurn(r)
  PROVE  CharacterInv'
<1>1. /\ r \notin begun /\ activeRequestId' = r /\ resultCharacters' = 0
      /\ caller' = caller /\ size' = size /\ outcome' = outcome
  BY DEF StartTurn, BeginRequest
<1>2. CharactersOf(r)' = CharactersOf(r)
  BY <1>1 DEF CharactersOf
<1>3. CallsOf(r) = {}
  BY <1>1 DEF BudgetInv
<1>4. \A c \in CallIds : CharactersOf(r)[c] = 0
  BY <1>3 DEF CallsOf, CharactersOf
<1>5. Total(CharactersOf(r)) = 0
  <2>1. CharactersOf(r) \in [CallIds -> Int]
    BY CharactersTyped DEF IInv
  <2> QED BY <1>4, <2>1, TotalNothing
<1>6. CharacterBudgetExact'
  BY <1>1, <1>2, <1>5 DEF CharacterBudgetExact
<1> QED BY <1>1, <1>6 DEF CharacterInv

(* A call has returned nothing yet.                                        *)
LEMMA CallCharacters ==
  ASSUME IInv, CharacterInv, Call
  PROVE  CharacterInv'
<1>1. /\ activeRequestId' = activeRequestId /\ size' = size
      /\ resultCharacters' = resultCharacters
      /\ caller' = [caller EXCEPT ![nextCallId] = activeRequestId]
      /\ outcome' = [outcome EXCEPT ![nextCallId] = "waiting"]
  BY DEF Call
<1>2. nextCallId \in CallIds /\ outcome[nextCallId] = "unsent"
  <2>1. nextCallId \in CallIds /\ nextCallId <= nextCallId
    BY BoundsAssumption DEF IInv, TypeOK, CallIds, Call
  <2> QED BY <2>1 DEF IInv, CallsNumbered
<1>3. size[nextCallId] = 0
  BY <1>2 DEF CharacterInv
<1>4. CharactersOf(activeRequestId)' = CharactersOf(activeRequestId)
  <2>1. \A c \in CallIds : c # nextCallId => caller'[c] = caller[c]
    BY <1>1 DEF IInv, TypeOK
  <2>2. \A c \in CallIds :
          (IF caller'[c] = activeRequestId THEN size[c] ELSE 0)
            = IF caller[c] = activeRequestId THEN size[c] ELSE 0
    BY <1>3, <2>1
  <2> QED BY <1>1, <2>2 DEF CharactersOf
<1>5. CharacterBudgetExact'
  BY <1>1, <1>4 DEF CharacterInv, CharacterBudgetExact
<1>6. \A c \in CallIds : outcome'[c] # "result" => size'[c] = 0
  BY <1>1, <1>2, <1>3 DEF CharacterInv, IInv, TypeOK
<1> QED BY <1>5, <1>6 DEF CharacterInv

(* A result is counted with the request it was read for, once.             *)
LEMMA ResultCharacters ==
  ASSUME IInv, CharacterInv,
         NEW r, NEW c \in CallIds, NEW n \in ResultSizes, SettleResult(r, c, n)
  PROVE  CharacterInv'
<1>1. /\ c \in pending /\ activeRequestId' = activeRequestId
      /\ resultCharacters' = resultCharacters + n
      /\ size' = [size EXCEPT ![c] = n]
      /\ caller' = caller
      /\ outcome' = Resolved({c}, "result")
  BY DEF SettleResult, AnswerAccepted, Release
<1>2. TypeOK /\ outcome[c] = "waiting" /\ caller[c] = activeRequestId
  BY <1>1 DEF IInv, RegistryCoherent, WaitingBelongsToActive, Waiting
<1>3. size[c] = 0
  BY <1>2 DEF CharacterInv
<1>4. n \in Nat /\ size \in [CallIds -> Nat]
  <2>1. size = [i \in CallIds |-> size[i]]
    BY <1>2 DEF TypeOK
  <2>2. \A i \in CallIds : size[i] \in Nat
    BY <1>2, CharactersTyped
  <2>3. ResultSizes \subseteq Nat
    BY BoundsAssumption
  <2>4. size \in [CallIds -> Nat]
    BY <2>1, <2>2
  <2> QED BY <2>3, <2>4
<1> DEFINE a == CharactersOf(activeRequestId)
           b == CharactersOf(activeRequestId)'
<1>5. /\ a \in [CallIds -> Int] /\ b \in [CallIds -> Int]
      /\ a[c] = 0 /\ b[c] = n
      /\ \A i \in CallIds \ {c} : a[i] = b[i]
  <2>1. size'[c] = n /\ \A i \in CallIds \ {c} : size'[i] = size[i]
    BY <1>1, <1>4
  <2>2. \A i \in CallIds : size'[i] \in Int /\ size[i] \in Int
    BY <1>4, <2>1
  <2>3. a = [i \in CallIds |-> IF caller[i] = activeRequestId THEN size[i] ELSE 0]
    BY DEF CharactersOf
  <2>4. b = [i \in CallIds |-> IF caller[i] = activeRequestId THEN size'[i] ELSE 0]
    BY <1>1 DEF CharactersOf
  <2> HIDE DEF a, b
  <2> QED BY <1>2, <1>3, <2>1, <2>2, <2>3, <2>4
<1> HIDE DEF a, b
<1>6. Total(a) \in Int /\ Total(b) = Total(a) - 0 + n
  BY <1>5, TotalChanges
<1>7. CharacterBudgetExact'
  <2>1. activeRequestId # NoRequest => resultCharacters = Total(a)
    BY DEF CharacterInv, CharacterBudgetExact, a
  <2>2. activeRequestId # NoRequest => resultCharacters' = Total(b)
    BY <1>1, <1>4, <1>6, <2>1
  <2> QED BY <1>1, <2>2 DEF CharacterBudgetExact, b
<1>8. ASSUME NEW i \in CallIds, outcome'[i] # "result" PROVE size'[i] = 0
  <2>1. i # c
    BY <1>1, <1>2, <1>8 DEF Resolved
  <2>2. outcome'[i] = outcome[i] /\ size'[i] = size[i]
    BY <1>1, <1>4, <2>1 DEF Resolved
  <2> QED BY <1>8, <2>2 DEF CharacterInv
<1> QED BY <1>7, <1>8 DEF CharacterInv

(* The parts together.                                                     *)
LEMMA StepCharacters ==
  IInv /\ BudgetInv /\ CharacterInv /\ [Next]_vars => CharacterInv'
<1> SUFFICES ASSUME IInv, BudgetInv, CharacterInv, [Next]_vars
             PROVE  CharacterInv'
  OBVIOUS
<1>1. CASE \E r \in Requests : StartTurn(r)
  BY <1>1, StartTurnCharacters
<1>2. CASE EndTurn \/ CloseConnection
  <2>1. \E code : outcome' = Resolved(pending, code)
    BY <1>2 DEF EndTurn, EndRequest, CloseConnection, Dispose, RejectAll
  <2>2. /\ activeRequestId' = NoRequest
        /\ UNCHANGED <<caller, size, resultCharacters>>
    BY <1>2 DEF EndTurn, EndRequest, CloseConnection, Dispose
  <2> QED BY <2>1, <2>2, OutcomeMoves, CharactersKept
<1>3. CASE Call
  BY <1>3, CallCharacters
<1>4. CASE ReceiveResult
  BY <1>4, ResultCharacters DEF ReceiveResult
<1>5. ASSUME NEW S, NEW code, outcome' = Resolved(S, code),
             UNCHANGED <<activeRequestId, caller, size, resultCharacters>>
      PROVE  CharacterInv'
  BY <1>5, OutcomeMoves, CharactersKept
<1>6. CASE ReceiveError
  BY <1>5, <1>6 DEF ReceiveError, SettleError, Release
<1>7. CASE \E c \in CallIds : TimeoutFires(c)
  BY <1>5, <1>7 DEF TimeoutFires, Release
<1>8. CASE \E r \in Requests : AbortTurn(r)
  BY <1>5, <1>8 DEF AbortTurn, Abort, Release
<1>9. CASE UNCHANGED vars
  BY <1>9, CharactersKept DEF vars
<1> QED BY <1>1, <1>2, <1>3, <1>4, <1>6, <1>7, <1>8, <1>9 DEF Next

(* Both budgets are those of the question being answered: the calls and    *)
(* the characters counted are exactly those sent and read for it, whatever *)
(* failed, timed out, came late or was cancelled before it.                *)
THEOREM BudgetsAlwaysExact == Spec => []BudgetsExact
<1>1. Init => IInv /\ BudgetInv /\ CharacterInv
  BY InitInvariant, InitBudget, InitCharacters
<1>2. (IInv /\ BudgetInv /\ CharacterInv) /\ [Next]_vars
        => (IInv /\ BudgetInv /\ CharacterInv)'
  BY StepInvariant, StepBudget, StepCharacters
<1>3. BudgetInv /\ CharacterInv => BudgetsExact
  BY DEF BudgetInv, CharacterInv, BudgetsExact
<1> QED BY <1>1, <1>2, <1>3, PTL DEF Spec
=============================================================================
