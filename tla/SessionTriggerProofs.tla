------------------------ MODULE SessionTriggerProofs ------------------------
(***************************************************************************)
(* The questions of a session, for any questions, deadline tiers and       *)
(* bounds: each is settled once and is of a line really accepted           *)
(* (QuestionsSound), fires on silence that is its own and in the order     *)
(* asked (FiringSound), and in an integrated shell waits only inside its   *)
(* command span (SpanOwnsPending).                                         *)
(*                                                                         *)
(* SpanOwnsPending and the silence hold whatever the shell reports, the    *)
(* user types and the answers hold back.  The other two need every start   *)
(* marker to have its end, what is typed to be read by who runs, and no    *)
(* output to be held back over a line typed at the prompt: bash breaks the *)
(* first when it keeps a line out of its history                           *)
(* (MCSessionTrigger_History finds it), type-ahead the second, and a       *)
(* question edited while an answer begins the third                        *)
(* (MCSessionTrigger_MidLine).                                             *)
(*                                                                         *)
(* The invariant ties the session to what it has not been told yet, the    *)
(* output held back and then the stream (Unread): read from the session's  *)
(* span, the markers open and close spans in turn and end at the span of   *)
(* the shell (Stream, Owes); a start marker follows the line that scrolled,*)
(* once, and only for an accepted question not heard of (Marked); a line   *)
(* read off the screen is shown once (Shown). Hence an end marker finds its*)
(* question waiting or settled, and never fires it from its text.          *)
(*                                                                         *)
(* The poll is a loop over what is pending.  By counting (Counting), its   *)
(* result is described by the places that fired and those that wait on     *)
(* (Splits, Parted), which is all that the rest uses of it.                *)
(***************************************************************************)
EXTENDS SessionTrigger, FiniteSetTheorems, SequenceTheorems, WellFoundedInduction, TLAPS

-----------------------------------------------------------------------------
(* The loop of the poll.                                                   *)

Due(s, p) == Stabilized(s, p) \/ Maxed(s, p)
Kept(p) == [p EXCEPT !.receipt_notified = @ \/ ReceiptDue(p)]
Sent(s, p) == Fire(p, Why(s, p), StillRunning(s, p))

(* What a pass leaves alone. *)
SameOtherwise(s, u) ==
  /\ u.command_active = s.command_active /\ u.cancelled = s.cancelled
  /\ u.captured_since_output = s.captured_since_output
  /\ u.quiet = s.quiet /\ u.line = s.line /\ u.shape = s.shape /\ u.alt = s.alt

(* Places of P in increasing order. *)
Rising(f, n) ==
  /\ f \in Seq(Nat)
  /\ \A a \in 1..Len(f) : f[a] \in 1..n
  /\ \A a, b \in 1..Len(f) : a < b => f[a] < f[b]

(* u is s after its first n questions were examined: those at places f wait on, those at *)
(* places g fired, in their order.                                                       *)
Splits(s, u, n, f, g) ==
  /\ Rising(f, n) /\ Rising(g, n)
  /\ \A k \in 1..n : IF Due(s, s.pending[k]) THEN \E a \in 1..Len(g) : g[a] = k
                                             ELSE \E a \in 1..Len(f) : f[a] = k
  /\ Len(u.pending) = Len(f)
  /\ \A a \in 1..Len(f) : u.pending[a] = Kept(s.pending[f[a]]) /\ ~Due(s, s.pending[f[a]])
  /\ Len(u.fired) = Len(s.fired) + Len(g)
  /\ \A a \in 1..Len(s.fired) : u.fired[a] = s.fired[a]
  /\ \A a \in 1..Len(g) : /\ u.fired[Len(s.fired) + a] = Sent(s, s.pending[g[a]])
                          /\ Due(s, s.pending[g[a]])
  /\ u.span_settled <=> \/ s.span_settled
                        \/ \E k \in 1..n : /\ Due(s, s.pending[k])
                                           /\ StillRunning(s, s.pending[k])

Passed(s, u, n) ==
  /\ u \in SessionState /\ SameOtherwise(s, u)
  /\ \E f, g : Splits(s, u, n, f, g)

(* A set of naturals that is not empty has a least element. *)
LEMMA NatLeast ==
  ASSUME NEW S \in SUBSET Nat, S # {}
  PROVE  \E x \in S : \A y \in S : x <= y
<1> DEFINE T == {0..x : x \in S}
           R == StrictSubsetOrdering(Nat)
<1>1. T # {} /\ T \subseteq FiniteSubsetsOf(Nat)
  <2>1. \A x \in S : IsFiniteSet(0..x) /\ 0..x \subseteq Nat
    BY FS_Interval
  <2> QED BY <2>1 DEF FiniteSubsetsOf
<1>2. PICK I \in T : \A J \in T : ~ (<<J, I>> \in R)
  <2>1. IsWellFoundedOn(R, FiniteSubsetsOf(Nat))
    BY FS_StrictSubsetOrderingWellFounded
  <2> HIDE DEF T, R
  <2> QED BY <1>1, <2>1, WFMin
<1>3. PICK x \in S : I = 0..x
  OBVIOUS
<1>4. ASSUME NEW y \in S, y < x PROVE FALSE
  <2>1. 0..y \in T
    OBVIOUS
  <2>2. 0..y \subseteq 0..x /\ x \in 0..x /\ x \notin 0..y
    BY <1>4
  <2>3. 0..y \in SUBSET Nat /\ 0..x \in SUBSET Nat
    OBVIOUS
  <2>4. <<0..y, I>> \in R
    BY <1>3, <2>2, <2>3 DEF StrictSubsetOrdering
  <2> QED BY <1>2, <2>1, <2>4
<1> QED BY <1>4

(* A set of counters with 0 and, with each but n, the next, has all up to n. *)
LEMMA Counting ==
  ASSUME NEW n \in Nat, NEW S, 0 \in S, \A i \in 1..n : i - 1 \in S => i \in S
  PROVE  0..n \subseteq S
<1> DEFINE Missing == (0..n) \ S
<1>1. SUFFICES ASSUME Missing # {} PROVE FALSE
  OBVIOUS
<1>2. Missing \in SUBSET Nat
  OBVIOUS
<1>3. PICK x \in Missing : \A y \in Missing : x <= y
  <2> HIDE DEF Missing
  <2> QED BY <1>1, <1>2, NatLeast
<1>4. x \in 1..n /\ x - 1 \in 0..n /\ x - 1 \notin Missing
  BY <1>3
<1> QED BY <1>4

IsLoop(s, n, g) ==
  g = [i \in 0..n |->
         IF i = 0 THEN [s EXCEPT !.pending = <<>>]
         ELSE Examined(s, g[i - 1], s.pending[i])]

(* The loop computes something, however much is pending. *)
LEMMA LoopExists ==
  ASSUME NEW s, NEW n \in Nat
  PROVE  \E g : IsLoop(s, n, g)
<1> DEFINE S == {i \in 0..n : \E g : IsLoop(s, i, g)}
<1>1. 0 \in S
  <2>1. IsLoop(s, 0, [i \in 0..0 |-> [s EXCEPT !.pending = <<>>]])
    BY DEF IsLoop
  <2> QED BY <2>1
<1>2. ASSUME NEW i \in 1..n, i - 1 \in S PROVE i \in S
  <2>1. PICK g : IsLoop(s, i - 1, g)
    BY <1>2
  <2> DEFINE h == [j \in 0..i |-> IF j < i THEN g[j] ELSE Examined(s, g[i - 1], s.pending[i])]
  <2>2. \A j \in 0..(i - 1) : h[j] = g[j]
    OBVIOUS
  <2>3. h[i] = Examined(s, h[i - 1], s.pending[i])
    OBVIOUS
  <2>4. \A j \in 0..(i - 1) : h[j] = IF j = 0 THEN [s EXCEPT !.pending = <<>>]
                                     ELSE Examined(s, h[j - 1], s.pending[j])
    <3> HIDE DEF h
    <3>1. \A j \in 0..(i - 1) : g[j] = IF j = 0 THEN [s EXCEPT !.pending = <<>>]
                                       ELSE Examined(s, g[j - 1], s.pending[j])
      BY <2>1 DEF IsLoop
    <3>2. \A j \in 1..(i - 1) : j - 1 \in 0..(i - 1)
      OBVIOUS
    <3> QED BY <2>2, <3>1, <3>2
  <2>5. h = [j \in 0..i |-> h[j]]
    OBVIOUS
  <2>6. IsLoop(s, i, h)
    <3> HIDE DEF h
    <3>1. \A j \in 0..i : h[j] = IF j = 0 THEN [s EXCEPT !.pending = <<>>]
                                 ELSE Examined(s, h[j - 1], s.pending[j])
      BY <2>3, <2>4
    <3> QED BY <2>5, <3>1 DEF IsLoop
  <2> QED BY <2>6
<1>3. 0..n \subseteq S
  <2> HIDE DEF S
  <2> QED BY <1>1, <1>2, Counting
<1> QED BY <1>3

(* Arithmetic of the deadlines. *)
LEMMA HorizonNat ==
  Horizon \in Nat /\ \A o \in Origins : MaxWait[o] \in Nat /\ MaxWait[o] <= Horizon
BY TimesAssumption DEF Horizon, Origins

(* What a pass sends and keeps is of the question it examined. *)
LEMMA SentTyped ==
  ASSUME NEW s \in SessionState, NEW p \in PendingQuestion
  PROVE  /\ Sent(s, p) \in Trigger /\ Kept(p) \in PendingQuestion
         /\ Sent(s, p).question = p.question
         /\ Sent(s, p).completion = Why(s, p)
         /\ Kept(p).question = p.question /\ Kept(p).origin = p.origin /\ Kept(p).age = p.age
         /\ StillRunning(s, p) \in BOOLEAN
<1>1. p.question \in Questions /\ p.origin \in Origins /\ p.age \in 0..Horizon
      /\ p.receipt_notified \in BOOLEAN
  BY DEF PendingQuestion
<1>2. s.command_active \in BOOLEAN
  BY DEF SessionState
<1>3. StillRunning(s, p) \in BOOLEAN
  BY <1>2 DEF StillRunning
<1>4. ReceiptDue(p) \in BOOLEAN
  BY DEF ReceiptDue
<1>5. Why(s, p) \in {"CommandEnd", "Stabilized", "MaxWait"}
  BY DEF Why
<1>6. Sent(s, p) \in Trigger
  BY <1>1, <1>3, <1>5 DEF Sent, Fire, Trigger
<1>7. Kept(p) \in PendingQuestion
  BY <1>1, <1>4 DEF Kept, PendingQuestion
<1> QED BY <1>1, <1>3, <1>6, <1>7 DEF Sent, Fire, Kept, PendingQuestion

(* One more place, above all the others. *)
LEMMA RisingOn ==
  ASSUME NEW n \in Nat, NEW f, Rising(f, n)
  PROVE  /\ Rising(f, n + 1) /\ Rising(Append(f, n + 1), n + 1)
         /\ Len(Append(f, n + 1)) = Len(f) + 1
         /\ \A a \in 1..Len(f) : Append(f, n + 1)[a] = f[a]
         /\ Append(f, n + 1)[Len(f) + 1] = n + 1
BY DEF Rising

(* One more pass of the loop. *)
LEMMA PassOn ==
  ASSUME NEW s \in SessionState, NEW n \in Nat, n < Len(s.pending),
         NEW u, Passed(s, u, n)
  PROVE  Passed(s, Examined(s, u, s.pending[n + 1]), n + 1)
<1> DEFINE p == s.pending[n + 1]  v == Examined(s, u, p)
<1>0. p \in PendingQuestion /\ s.pending \in Seq(PendingQuestion)
  BY DEF SessionState
<1>1. /\ u.pending \in Seq(PendingQuestion) /\ u.fired \in Seq(Trigger)
      /\ u.span_settled \in BOOLEAN /\ u \in SessionState
      /\ Len(s.fired) \in Nat /\ Len(u.pending) \in Nat
  BY DEF Passed, SessionState
<1>2. PICK f, g : Splits(s, u, n, f, g)
  BY DEF Passed
<1>3. /\ Sent(s, p) \in Trigger /\ Kept(p) \in PendingQuestion /\ StillRunning(s, p) \in BOOLEAN
  BY <1>0, SentTyped
<1>4. Rising(f, n) /\ Rising(g, n) /\ Len(f) \in Nat /\ Len(g) \in Nat
  BY <1>2 DEF Splits, Rising
<1>7. p = s.pending[n + 1]
  OBVIOUS
<1>5. CASE Due(s, p)
  <2>1. v = [u EXCEPT !.fired = Append(u.fired, Sent(s, p)),
                      !.span_settled = u.span_settled \/ StillRunning(s, p)]
    BY <1>5 DEF Examined, Due, Sent
  <2>2. v \in SessionState /\ SameOtherwise(u, v)
    <3> HIDE DEF p
    <3>1. Append(u.fired, Sent(s, p)) \in Seq(Trigger)
      BY <1>1, <1>3
    <3>2. (u.span_settled \/ StillRunning(s, p)) \in BOOLEAN
      BY <1>1, <1>3
    <3> QED BY <1>1, <2>1, <3>1, <3>2 DEF SessionState, SameOtherwise
  <2>3. /\ v.pending = u.pending /\ v.fired = Append(u.fired, Sent(s, p))
        /\ v.span_settled = (u.span_settled \/ StillRunning(s, p))
    BY <1>1, <2>1 DEF SessionState
  <2> HIDE DEF v, p
  <2>8. Len(u.fired) = Len(s.fired) + Len(g)
    BY <1>2 DEF Splits
  <2>9. /\ Len(v.fired) = Len(s.fired) + (Len(g) + 1)
        /\ \A a \in 1..Len(s.fired) : v.fired[a] = u.fired[a]
        /\ \A a \in 1..Len(g) : v.fired[Len(s.fired) + a] = u.fired[Len(s.fired) + a]
        /\ v.fired[Len(s.fired) + (Len(g) + 1)] = Sent(s, p)
    <3>1. u.fired \in Seq(Trigger) /\ Len(s.fired) \in Nat /\ Len(g) \in Nat
      BY <1>1, <1>4
    <3>2. v.fired = Append(u.fired, Sent(s, p))
      BY <2>3
    <3>3. Sent(s, p) \in Trigger
      BY <1>3
    <3> DEFINE q == u.fired  e == Sent(s, p)  m == Len(s.fired)  k == Len(g)
    <3>4. q \in Seq(Trigger) /\ e \in Trigger /\ m \in Nat /\ k \in Nat /\ Len(q) = m + k
      BY <2>8, <3>1, <3>3
    <3>5. v.fired = Append(q, e)
      BY <3>2
    <3> HIDE DEF q, e, m, k
    <3>6. /\ Len(Append(q, e)) = m + (k + 1)
          /\ \A a \in 1..m : Append(q, e)[a] = q[a]
          /\ \A a \in 1..k : Append(q, e)[m + a] = q[m + a]
          /\ Append(q, e)[m + (k + 1)] = e
      BY <3>4
    <3>7. /\ Len(v.fired) = m + (k + 1)
          /\ \A a \in 1..m : v.fired[a] = q[a]
          /\ \A a \in 1..k : v.fired[m + a] = q[m + a]
          /\ v.fired[m + (k + 1)] = e
      BY <3>5, <3>6, Zenon
    <3> QED BY <3>7 DEF q, e, m, k
  <2>4. Splits(s, v, n + 1, f, Append(g, n + 1))
    <3> DEFINE h == Append(g, n + 1)
    <3>1. /\ Rising(f, n + 1) /\ Rising(h, n + 1) /\ Len(h) = Len(g) + 1
          /\ \A a \in 1..Len(g) : h[a] = g[a]
          /\ h[Len(g) + 1] = n + 1
      BY <1>4, RisingOn
    <3> HIDE DEF h
    <3>2. \A k \in 1..(n + 1) : IF Due(s, s.pending[k]) THEN \E a \in 1..Len(h) : h[a] = k
                                                        ELSE \E a \in 1..Len(f) : f[a] = k
      <4> SUFFICES ASSUME NEW k \in 1..(n + 1)
                   PROVE  IF Due(s, s.pending[k]) THEN \E a \in 1..Len(h) : h[a] = k
                                                  ELSE \E a \in 1..Len(f) : f[a] = k
        OBVIOUS
      <4>1. CASE k = n + 1
        BY <1>4, <1>5, <1>7, <3>1, <4>1
      <4>2. CASE k \in 1..n
        <5>1. IF Due(s, s.pending[k]) THEN \E a \in 1..Len(g) : g[a] = k
                                      ELSE \E a \in 1..Len(f) : f[a] = k
          BY <1>2, <4>2 DEF Splits
        <5> QED BY <1>4, <3>1, <5>1
      <4> QED BY <4>1, <4>2
    <3>3. /\ Len(v.fired) = Len(s.fired) + Len(h)
          /\ \A a \in 1..Len(s.fired) : v.fired[a] = s.fired[a]
      <4>1. \A a \in 1..Len(s.fired) : u.fired[a] = s.fired[a]
        BY <1>2 DEF Splits
      <4> QED BY <2>9, <3>1, <4>1
    <3>4. \A a \in 1..Len(h) : /\ v.fired[Len(s.fired) + a] = Sent(s, s.pending[h[a]])
                               /\ Due(s, s.pending[h[a]])
      <4>1. \A a \in 1..Len(g) : /\ u.fired[Len(s.fired) + a] = Sent(s, s.pending[g[a]])
                                 /\ Due(s, s.pending[g[a]])
        BY <1>2 DEF Splits
      <4>2. \A a \in 1..Len(g) : /\ v.fired[Len(s.fired) + a] = Sent(s, s.pending[h[a]])
                                 /\ Due(s, s.pending[h[a]])
        BY <2>9, <3>1, <4>1
      <4>3. /\ v.fired[Len(s.fired) + Len(h)] = Sent(s, s.pending[h[Len(h)]])
            /\ Due(s, s.pending[h[Len(h)]])
        BY <1>5, <1>7, <2>9, <3>1
      <4>4. \A a \in 1..Len(h) : a \in 1..Len(g) \/ a = Len(h)
        BY <1>4, <3>1
      <4> QED BY <4>2, <4>3, <4>4
    <3>5. v.span_settled <=> \/ s.span_settled
                             \/ \E k \in 1..(n + 1) : /\ Due(s, s.pending[k])
                                                      /\ StillRunning(s, s.pending[k])
      <4>1. u.span_settled <=> \/ s.span_settled
                               \/ \E k \in 1..n : /\ Due(s, s.pending[k])
                                                  /\ StillRunning(s, s.pending[k])
        BY <1>2 DEF Splits
      <4>2. 1..(n + 1) = (1..n) \cup {n + 1}
        OBVIOUS
      <4>3. v.span_settled <=> u.span_settled \/ StillRunning(s, p)
        BY <2>3
      <4> QED BY <1>5, <1>7, <4>1, <4>2, <4>3
    <3>7. v.pending = u.pending
      BY <2>3
    <3>8. Len(u.pending) = Len(f) /\ \A a \in 1..Len(f) :
            u.pending[a] = Kept(s.pending[f[a]]) /\ ~Due(s, s.pending[f[a]])
      BY <1>2 DEF Splits
    <3>6. Splits(s, v, n + 1, f, h)
      BY <3>1, <3>2, <3>3, <3>4, <3>5, <3>7, <3>8 DEF Splits
    <3> QED BY <3>6 DEF h
  <2>5. SameOtherwise(s, v)
    BY <2>2 DEF Passed, SameOtherwise
  <2>6. Passed(s, v, n + 1)
    BY <2>2, <2>4, <2>5 DEF Passed
  <2> QED BY <1>7, <2>6 DEF v
<1>6. CASE ~Due(s, p)
  <2>1. v = [u EXCEPT !.pending = Append(u.pending, Kept(p))]
    BY <1>6 DEF Examined, Due, Kept
  <2>2. v \in SessionState /\ SameOtherwise(u, v)
    <3> HIDE DEF p
    <3>1. Append(u.pending, Kept(p)) \in Seq(PendingQuestion)
      BY <1>1, <1>3
    <3> QED BY <1>1, <2>1, <3>1 DEF SessionState, SameOtherwise
  <2>3. /\ v.fired = u.fired /\ v.pending = Append(u.pending, Kept(p))
        /\ v.span_settled = u.span_settled
    BY <1>1, <2>1 DEF SessionState
  <2> HIDE DEF v, p
  <2>4. Splits(s, v, n + 1, Append(f, n + 1), g)
    <3> DEFINE h == Append(f, n + 1)
    <3>1. /\ Rising(g, n + 1) /\ Rising(h, n + 1) /\ Len(h) = Len(f) + 1
          /\ \A a \in 1..Len(f) : h[a] = f[a]
          /\ h[Len(f) + 1] = n + 1
      BY <1>4, RisingOn
    <3> HIDE DEF h
    <3>2. \A k \in 1..(n + 1) : IF Due(s, s.pending[k]) THEN \E a \in 1..Len(g) : g[a] = k
                                                        ELSE \E a \in 1..Len(h) : h[a] = k
      <4> SUFFICES ASSUME NEW k \in 1..(n + 1)
                   PROVE  IF Due(s, s.pending[k]) THEN \E a \in 1..Len(g) : g[a] = k
                                                  ELSE \E a \in 1..Len(h) : h[a] = k
        OBVIOUS
      <4>1. CASE k = n + 1
        BY <1>4, <1>6, <1>7, <3>1, <4>1
      <4>2. CASE k \in 1..n
        <5>1. IF Due(s, s.pending[k]) THEN \E a \in 1..Len(g) : g[a] = k
                                      ELSE \E a \in 1..Len(f) : f[a] = k
          BY <1>2, <4>2 DEF Splits
        <5> QED BY <1>4, <3>1, <5>1
      <4> QED BY <4>1, <4>2
    <3>3. /\ Len(u.pending) = Len(f) /\ Len(v.pending) = Len(h)
      BY <1>1, <1>2, <1>4, <2>3, <3>1 DEF Splits
    <3>4. \A a \in 1..Len(h) : v.pending[a] = Kept(s.pending[h[a]]) /\ ~Due(s, s.pending[h[a]])
      <4>1. \A a \in 1..Len(f) : v.pending[a] = u.pending[a]
        BY <1>1, <1>4, <2>3, <3>3
      <4>2. v.pending[Len(h)] = Kept(p)
        BY <1>1, <1>4, <2>3, <3>1, <3>3
      <4>3. \A a \in 1..Len(f) : u.pending[a] = Kept(s.pending[f[a]]) /\ ~Due(s, s.pending[f[a]])
        BY <1>2 DEF Splits
      <4> QED BY <1>4, <1>6, <1>7, <3>1, <4>1, <4>2, <4>3
    <3>5. v.span_settled <=> \/ s.span_settled
                             \/ \E k \in 1..(n + 1) : /\ Due(s, s.pending[k])
                                                      /\ StillRunning(s, s.pending[k])
      <4>1. u.span_settled <=> \/ s.span_settled
                               \/ \E k \in 1..n : /\ Due(s, s.pending[k])
                                                  /\ StillRunning(s, s.pending[k])
        BY <1>2 DEF Splits
      <4>2. 1..(n + 1) = (1..n) \cup {n + 1}
        OBVIOUS
      <4>3. v.span_settled <=> u.span_settled
        BY <2>3
      <4> QED BY <1>6, <1>7, <4>1, <4>2, <4>3
    <3>7. v.fired = u.fired
      BY <2>3
    <3>8. /\ Len(u.fired) = Len(s.fired) + Len(g)
          /\ \A a \in 1..Len(s.fired) : u.fired[a] = s.fired[a]
          /\ \A a \in 1..Len(g) : /\ u.fired[Len(s.fired) + a] = Sent(s, s.pending[g[a]])
                                  /\ Due(s, s.pending[g[a]])
      BY <1>2 DEF Splits
    <3>6. Splits(s, v, n + 1, h, g)
      BY <3>1, <3>2, <3>3, <3>4, <3>5, <3>7, <3>8 DEF Splits
    <3> QED BY <3>6 DEF h
  <2>5. SameOtherwise(s, v)
    BY <2>2 DEF Passed, SameOtherwise
  <2>6. Passed(s, v, n + 1)
    BY <2>2, <2>4, <2>5 DEF Passed
  <2> QED BY <1>7, <2>6 DEF v
<1> QED BY <1>5, <1>6

(* Before the first pass nothing has fired and nothing waits on. *)
LEMMA PassNone ==
  ASSUME NEW s \in SessionState
  PROVE  Passed(s, [s EXCEPT !.pending = <<>>], 0)
<1> DEFINE u == [s EXCEPT !.pending = <<>>]
<1>1. u \in SessionState /\ SameOtherwise(s, u) /\ u.pending = <<>> /\ u.fired = s.fired
      /\ u.span_settled = s.span_settled
  <2>1. <<>> \in Seq(PendingQuestion)
    OBVIOUS
  <2> QED BY <2>1 DEF SessionState, SameOtherwise
<1> HIDE DEF u
<1>2. Splits(s, u, 0, <<>>, <<>>)
  BY <1>1 DEF Splits, Rising, SessionState
<1> QED BY <1>1, <1>2 DEF Passed, u

(* The poll. *)
LEMMA PolledPasses ==
  ASSUME NEW s \in SessionState, ~(s.pending = <<>> \/ s.alt)
  PROVE  Passed(s, Polled(s), Len(s.pending))
<1> DEFINE n == Len(s.pending)
<1>1. n \in Nat
  BY DEF SessionState
<1>2. Polled(s) = (CHOOSE h : IsLoop(s, n, h))[n]
  BY DEF Polled, IsLoop
<1>3. PICK g : IsLoop(s, n, g) /\ Polled(s) = g[n]
  BY <1>1, <1>2, LoopExists
<1> DEFINE S == {i \in 0..n : Passed(s, g[i], i)}
<1>4. 0 \in S
  BY <1>1, <1>3, PassNone DEF IsLoop
<1>5. ASSUME NEW i \in 1..n, i - 1 \in S PROVE i \in S
  <2>1. g[i] = Examined(s, g[i - 1], s.pending[(i - 1) + 1])
    <3>1. i \in 0..n /\ i # 0 /\ (i - 1) + 1 = i
      BY <1>1
    <3>2. g[i] = IF i = 0 THEN [s EXCEPT !.pending = <<>>]
                          ELSE Examined(s, g[i - 1], s.pending[i])
      <4> HIDE DEF n
      <4> QED BY <1>3, <3>1 DEF IsLoop
    <3> QED BY <3>1, <3>2
  <2>2. i - 1 \in Nat /\ i - 1 < Len(s.pending) /\ Passed(s, g[i - 1], i - 1)
    BY <1>1, <1>5
  <2>3. Passed(s, g[i], (i - 1) + 1)
    BY <2>1, <2>2, PassOn
  <2> QED BY <2>3
<1>6. 0..n \subseteq S
  <2> HIDE DEF S, n
  <2> QED BY <1>1, <1>4, <1>5, Counting
<1> QED BY <1>1, <1>3, <1>6

-----------------------------------------------------------------------------
(* What the invariant says.  Everything speaks of a session s and a stream p *)
(* rather than of the variables, so that a step is taken apart in lemmas     *)
(* without primes.                                                           *)

Fired(s) == {s.fired[i].question : i \in DOMAIN s.fired}

\* A question that is pending, or was.
Touched(s, q) == q \in Pending(s) \cup Fired(s) \cup s.cancelled

\* Each question is in one place of one of the three.
Once(s) ==
  /\ \A i, j \in DOMAIN s.pending : s.pending[i].question = s.pending[j].question => i = j
  /\ \A i, j \in DOMAIN s.fired : s.fired[i].question = s.fired[j].question => i = j
  /\ Pending(s) \cap Fired(s) = {} /\ (Pending(s) \cup Fired(s)) \cap s.cancelled = {}

\* What waits is in the order it was asked.
Aging(s) ==
  \A i, j \in DOMAIN s.pending : i < j => s.pending[j].age <= s.pending[i].age

\* In an integrated shell what waits belongs to a span.
Owned(s) == s.pending # <<>> => s.command_active

\* The span koshell is in, or none: that of a line, of which the shell knows the question.
Spans == {<<>>} \cup {<<x>> : x \in Lines}

\* The question of the span's own line waits, or has been dealt with.
Waiting(s, q) ==
  \E i \in DOMAIN s.pending : s.pending[i].question = q /\ s.pending[i].origin = "PromptLine"
Owes(s, span) ==
  /\ s.command_active <=> span # <<>>
  /\ \A q \in Questions : span = <<q>> => s.span_settled \/ Waiting(s, q)

\* The span after an item: markers open and close spans in turn, and a line typed at the
\* prompt is shown outside.
Follows(item, before, after, pl) ==
  /\ item.kind = "output" =>
       /\ after = before
       /\ item.line \in Questions /\ pl[item.line] = "prompt" => after = <<>>
  /\ item.kind = "command_start" => before = <<>> /\ after = <<item.question>>
  /\ item.kind = "command_end" => before = <<item.question>> /\ after = <<>>

\* The spans between the items of stream p, from the one koshell is in to that of the shell.
Stream(p, span, last, pl) ==
  /\ span \in [0..Len(p) -> Spans]
  /\ span[Len(p)] = last
  /\ \A i \in 1..Len(p) : Follows(p[i], span[i - 1], span[i], pl)

Blank(item) == item.kind = "output" /\ item.line = NoQuestion
IsStart(item, q) == item.kind = "command_start" /\ item.question = q
Shows(item, q) == item.kind = "output" /\ item.line = q

\* No line typed at an integrated prompt is under the cursor.
Fresh(s, pl) == \A q \in Questions : integrated /\ pl[q] = "prompt" => s.line # q

\* Markers: only with the hooks; the start of a line comes after it has scrolled, once, if
\* it was accepted.
Marked(p, s, acc, pl) ==
  /\ \A i \in 1..Len(p) : p[i].kind # "output" => integrated
  /\ \A i \in 1..Len(p) : p[i].kind = "command_start" =>
       /\ i = 1 => Fresh(s, pl)
       /\ i > 1 => Blank(p[i - 1])
  /\ \A q \in Questions :
       /\ \A i \in 1..Len(p) : IsStart(p[i], q) => q \in acc /\ ~Touched(s, q)
       /\ \A i, j \in 1..Len(p) : IsStart(p[i], q) /\ IsStart(p[j], q) => i = j

\* Where a question is read off the screen.
Screen(q, pl) == ~integrated \/ pl[q] = "program"

\* A line read off the screen is shown once, and read at most once while it is.
Shown(p, s, pl) ==
  /\ \A q \in Questions : Screen(q, pl) =>
       /\ \A i, j \in 1..Len(p) : Shows(p[i], q) /\ Shows(p[j], q) => i = j
       /\ \A i \in 1..Len(p) : Shows(p[i], q) => ~Touched(s, q) /\ s.line # q
       /\ s.line = q /\ Touched(s, q) => s.captured_since_output
  /\ \A q \in Questions : pl[q] = "unused" => \A i \in 1..Len(p) : ~Shows(p[i], q)

\* The session, and what it has not read yet.
Tape(p, s, last, acc, pl) ==
  /\ \E span : Stream(p, span, last, pl) /\ Owes(s, span[0])
  /\ Marked(p, s, acc, pl)
  /\ Shown(p, s, pl)

\* What the session knows of questions: nothing of one not typed; at an integrated prompt
\* only accepted ones; and that line is under the cursor outside spans only.
Known(s, acc, pl) ==
  \A q \in Questions :
    /\ pl[q] = "unused" => ~Touched(s, q) /\ s.line # q
    /\ integrated /\ pl[q] = "prompt" =>
         /\ Touched(s, q) => q \in acc
         /\ s.line = q => ~s.command_active

\* A line being typed, or entered and not read, is of where it was typed.
Underway(q) ==
  /\ place[q] = "prompt" /\ ~shell.running /\ q \notin accepted
  \/ /\ place[q] = "program"
     /\ shell.running

Typing ==
  /\ \A q \in Questions : (typed = q \/ entered = <<q>>) => Underway(q)
  /\ Len(entered) <= 1 /\ (typed = NoQuestion \/ entered = <<>>)
  /\ \A q \in accepted : place[q] = "prompt"
  /\ shell.question \in Questions => shell.question \in accepted

InSpan == IF shell.running /\ shell.marks = "both" THEN <<shell.question>> ELSE <<>>

-----------------------------------------------------------------------------
(* What a session's sequences are. *)
LEMMA SessionTyped ==
  ASSUME NEW s \in SessionState
  PROVE  /\ s.pending \in Seq(PendingQuestion) /\ Len(s.pending) \in Nat
         /\ DOMAIN s.pending = 1..Len(s.pending)
         /\ \A i \in 1..Len(s.pending) : s.pending[i] \in PendingQuestion
         /\ s.fired \in Seq(Trigger) /\ Len(s.fired) \in Nat
         /\ DOMAIN s.fired = 1..Len(s.fired)
         /\ \A i \in 1..Len(s.fired) : s.fired[i] \in Trigger
         /\ s.cancelled \in SUBSET Questions /\ s.quiet \in 0..Horizon
         /\ s.line \in Lines /\ s.shape \in Shapes
         /\ s.command_active \in BOOLEAN /\ s.span_settled \in BOOLEAN
         /\ s.captured_since_output \in BOOLEAN /\ s.alt \in BOOLEAN
BY DEF SessionState

(* A pending question's fields. *)
LEMMA PendingTyped ==
  ASSUME NEW p \in PendingQuestion
  PROVE  /\ p.question \in Questions /\ p.origin \in Origins
         /\ p.age \in 0..Horizon /\ p.age \in Nat /\ p.receipt_notified \in BOOLEAN
<1>1. /\ p.question \in Questions /\ p.origin \in Origins
      /\ p.age \in 0..Horizon /\ p.receipt_notified \in BOOLEAN
  BY DEF PendingQuestion
<1> QED BY <1>1, HorizonNat

(* The poll, by what it sends and keeps of what at which place: f says which waited on, g *)
(* which fired.                                                                            *)
Parted(s, u, f, g) ==
  /\ Len(f) \in Nat /\ Len(g) \in Nat /\ Len(s.pending) \in Nat /\ Len(s.fired) \in Nat
  /\ DOMAIN s.pending = 1..Len(s.pending) /\ DOMAIN s.fired = 1..Len(s.fired)
  /\ DOMAIN u.pending = 1..Len(f) /\ DOMAIN u.fired = 1..(Len(s.fired) + Len(g))
  /\ \A a \in 1..Len(f) : /\ f[a] \in 1..Len(s.pending)
                          /\ u.pending[a].question = s.pending[f[a]].question
                          /\ u.pending[a].origin = s.pending[f[a]].origin
                          /\ u.pending[a].age = s.pending[f[a]].age
                          /\ ~Due(s, s.pending[f[a]])
  /\ \A a \in 1..Len(g) : /\ g[a] \in 1..Len(s.pending)
                          /\ u.fired[Len(s.fired) + a] = Sent(s, s.pending[g[a]])
                          /\ u.fired[Len(s.fired) + a].question = s.pending[g[a]].question
                          /\ Due(s, s.pending[g[a]])
  /\ \A a \in 1..Len(s.fired) : u.fired[a] = s.fired[a]
  /\ \A k \in 1..Len(s.pending) :
       \/ Due(s, s.pending[k]) /\ \E a \in 1..Len(g) : g[a] = k
       \/ ~Due(s, s.pending[k]) /\ \E a \in 1..Len(f) : f[a] = k
  /\ \A a, b \in 1..Len(f) : a < b => f[a] < f[b]
  /\ \A a, b \in 1..Len(g) : a < b => g[a] < g[b]
  /\ \A n \in DOMAIN u.fired : n \in 1..Len(s.fired) \/ \E a \in 1..Len(g) : n = Len(s.fired) + a
  /\ u.span_settled <=> \/ s.span_settled
                        \/ \E k \in 1..Len(s.pending) : /\ Due(s, s.pending[k])
                                                        /\ StillRunning(s, s.pending[k])

(* What fired, as what had fired and what fires. *)
LEMMA FiredPlaces ==
  ASSUME NEW m \in Nat, NEW k \in Nat, NEW n \in 1..(m + k)
  PROVE  n \in 1..m \/ \E a \in 1..k : n = m + a
<1>1. CASE n > m
  <2>1. n - m \in 1..k /\ n = m + (n - m)
    BY <1>1
  <2> QED BY <2>1
<1>2. CASE n <= m
  BY <1>2
<1> QED BY <1>1, <1>2

(* Splits, with the fields of what fired and waits on spelled out. *)
LEMMA SplitParts ==
  ASSUME NEW s \in SessionState, NEW u \in SessionState, NEW f, NEW g,
         Splits(s, u, Len(s.pending), f, g)
  PROVE  Parted(s, u, f, g)
<1>1. /\ Len(f) \in Nat /\ Len(g) \in Nat
      /\ \A a \in 1..Len(f) : f[a] \in 1..Len(s.pending)
      /\ \A a \in 1..Len(g) : g[a] \in 1..Len(s.pending)
      /\ \A a, b \in 1..Len(f) : a < b => f[a] < f[b]
      /\ \A a, b \in 1..Len(g) : a < b => g[a] < g[b]
  <2>1. Rising(f, Len(s.pending)) /\ Rising(g, Len(s.pending))
    BY DEF Splits
  <2> QED BY <2>1 DEF Rising
<1>2. ASSUME NEW k \in 1..Len(s.pending)
      PROVE  /\ Sent(s, s.pending[k]).question = s.pending[k].question
             /\ Kept(s.pending[k]).question = s.pending[k].question
             /\ Kept(s.pending[k]).origin = s.pending[k].origin
             /\ Kept(s.pending[k]).age = s.pending[k].age
  <2> DEFINE p == s.pending[k]
  <2>1. p \in PendingQuestion
    BY SessionTyped
  <2> HIDE DEF p
  <2>2. /\ Sent(s, p).question = p.question /\ Kept(p).question = p.question
        /\ Kept(p).origin = p.origin /\ Kept(p).age = p.age
    BY <2>1, SentTyped
  <2> QED BY <2>2 DEF p
<1>3. \A k \in 1..Len(s.pending) :
        \/ Due(s, s.pending[k]) /\ \E a \in 1..Len(g) : g[a] = k
        \/ ~Due(s, s.pending[k]) /\ \E a \in 1..Len(f) : f[a] = k
  BY DEF Splits
<1>4. \A a \in 1..Len(f) : u.pending[a] = Kept(s.pending[f[a]]) /\ ~Due(s, s.pending[f[a]])
  BY DEF Splits
<1>5. \A a \in 1..Len(g) : /\ u.fired[Len(s.fired) + a] = Sent(s, s.pending[g[a]])
                           /\ Due(s, s.pending[g[a]])
  BY DEF Splits
<1>6. /\ Len(u.pending) = Len(f) /\ Len(u.fired) = Len(s.fired) + Len(g)
      /\ \A a \in 1..Len(s.fired) : u.fired[a] = s.fired[a]
  BY DEF Splits
<1>7. /\ Len(s.pending) \in Nat /\ Len(s.fired) \in Nat
      /\ DOMAIN s.pending = 1..Len(s.pending) /\ DOMAIN s.fired = 1..Len(s.fired)
      /\ DOMAIN u.pending = 1..Len(u.pending) /\ DOMAIN u.fired = 1..Len(u.fired)
  BY SessionTyped
<1>8. \A n \in DOMAIN u.fired :
        n \in 1..Len(s.fired) \/ \E a \in 1..Len(g) : n = Len(s.fired) + a
  <2> DEFINE m == Len(s.fired)  k == Len(g)
  <2>1. m \in Nat /\ k \in Nat /\ DOMAIN u.fired = 1..(m + k)
    BY <1>1, <1>6, <1>7
  <2> HIDE DEF m, k
  <2>2. \A n \in DOMAIN u.fired : n \in 1..m \/ \E a \in 1..k : n = m + a
    BY <2>1, FiredPlaces
  <2> QED BY <2>2 DEF m, k
<1>9. u.span_settled <=> \/ s.span_settled
                         \/ \E k \in 1..Len(s.pending) : /\ Due(s, s.pending[k])
                                                         /\ StillRunning(s, s.pending[k])
  BY DEF Splits
<1>10. \A a \in 1..Len(f) : /\ u.pending[a].question = s.pending[f[a]].question
                            /\ u.pending[a].origin = s.pending[f[a]].origin
                            /\ u.pending[a].age = s.pending[f[a]].age
  BY <1>1, <1>2, <1>4
<1>11. \A a \in 1..Len(g) : u.fired[Len(s.fired) + a].question = s.pending[g[a]].question
  BY <1>1, <1>2, <1>5
<1> QED BY <1>1, <1>3, <1>4, <1>5, <1>6, <1>7, <1>8, <1>9, <1>10, <1>11 DEF Parted

(* The poll leaves a session as it is or parts what is pending. *)
LEMMA PolledParts ==
  ASSUME NEW s \in SessionState
  PROVE  /\ Polled(s) \in SessionState /\ SameOtherwise(s, Polled(s))
         /\ Polled(s) = s \/ \E f, g : Parted(s, Polled(s), f, g)
<1>1. CASE s.pending = <<>> \/ s.alt
  <2>1. Polled(s) = s
    BY <1>1 DEF Polled
  <2> QED BY <2>1 DEF SameOtherwise
<1>2. CASE ~(s.pending = <<>> \/ s.alt)
  <2>1. Passed(s, Polled(s), Len(s.pending))
    BY <1>2, PolledPasses
  <2> DEFINE u == Polled(s)
  <2> HIDE DEF u
  <2>2. Passed(s, u, Len(s.pending))
    BY <2>1 DEF u
  <2>3. u \in SessionState /\ SameOtherwise(s, u) /\ \E f, g : Splits(s, u, Len(s.pending), f, g)
    BY <2>2 DEF Passed
  <2>4. \E f, g : Parted(s, u, f, g)
    BY <2>3, SplitParts
  <2> QED BY <2>3, <2>4 DEF u
<1> QED BY <1>1, <1>2

(* The poll moves questions and loses none. *)
LEMMA PartedTouches ==
  ASSUME NEW s, NEW u, NEW f, NEW g, Parted(s, u, f, g), SameOtherwise(s, u)
  PROVE  /\ Pending(u) \subseteq Pending(s)
         /\ Fired(s) \subseteq Fired(u)
         /\ Fired(u) \subseteq Fired(s) \cup Pending(s)
         /\ Pending(s) \subseteq Pending(u) \cup Fired(u)
         /\ \A q : Touched(u, q) <=> Touched(s, q)
<1>2. Pending(u) \subseteq Pending(s)
  <2> SUFFICES ASSUME NEW a \in DOMAIN u.pending PROVE u.pending[a].question \in Pending(s)
    BY DEF Pending
  <2>1. a \in 1..Len(f) /\ f[a] \in DOMAIN s.pending
        /\ u.pending[a].question = s.pending[f[a]].question
    BY DEF Parted
  <2> QED BY <2>1 DEF Pending
<1>3. Fired(s) \subseteq Fired(u)
  <2>1. \A a \in DOMAIN s.fired : a \in DOMAIN u.fired /\ u.fired[a] = s.fired[a]
    BY DEF Parted
  <2> QED BY <2>1 DEF Fired
<1>4. Fired(u) \subseteq Fired(s) \cup Pending(s)
  <2> SUFFICES ASSUME NEW n \in DOMAIN u.fired
               PROVE  u.fired[n].question \in Fired(s) \cup Pending(s)
    BY DEF Fired
  <2>1. CASE n \in 1..Len(s.fired)
    BY <2>1 DEF Fired, Parted
  <2>2. CASE \E a \in 1..Len(g) : n = Len(s.fired) + a
    <3>1. PICK a \in 1..Len(g) : n = Len(s.fired) + a
      BY <2>2
    <3>2. g[a] \in DOMAIN s.pending /\ u.fired[n].question = s.pending[g[a]].question
      BY <3>1 DEF Parted
    <3> QED BY <3>2 DEF Pending
  <2> QED BY <2>1, <2>2 DEF Parted
<1>5. Pending(s) \subseteq Pending(u) \cup Fired(u)
  <2> SUFFICES ASSUME NEW i \in DOMAIN s.pending
               PROVE  s.pending[i].question \in Pending(u) \cup Fired(u)
    BY DEF Pending
  <2>1. CASE \E a \in 1..Len(g) : g[a] = i
    <3>1. PICK a \in 1..Len(g) : g[a] = i
      BY <2>1
    <3>2. /\ Len(s.fired) + a \in DOMAIN u.fired
          /\ u.fired[Len(s.fired) + a].question = s.pending[i].question
      BY <3>1 DEF Parted
    <3> QED BY <3>2 DEF Fired
  <2>2. CASE \E a \in 1..Len(f) : f[a] = i
    <3>1. PICK a \in 1..Len(f) : f[a] = i
      BY <2>2
    <3>2. a \in DOMAIN u.pending /\ u.pending[a].question = s.pending[i].question
      BY <3>1 DEF Parted
    <3> QED BY <3>2 DEF Pending
  <2>3. (\E a \in 1..Len(g) : g[a] = i) \/ \E a \in 1..Len(f) : f[a] = i
    BY DEF Parted
  <2> QED BY <2>1, <2>2, <2>3
<1>6. u.cancelled = s.cancelled
  BY DEF SameOtherwise
<1>7. \A q : Touched(u, q) <=> Touched(s, q)
  BY <1>2, <1>3, <1>4, <1>5, <1>6 DEF Touched
<1> QED BY <1>2, <1>3, <1>4, <1>5, <1>7

(* A question sent was sent before, or was pending at its place. *)
LEMMA PartedFired ==
  ASSUME NEW s, NEW u, NEW f, NEW g, Parted(s, u, f, g), NEW n \in DOMAIN u.fired
  PROVE  \/ /\ n \in DOMAIN s.fired /\ u.fired[n] = s.fired[n]
            /\ u.fired[n].question \in Fired(s)
         \/ \E a \in 1..Len(g) : /\ n = Len(s.fired) + a /\ g[a] \in DOMAIN s.pending
                                 /\ u.fired[n].question = s.pending[g[a]].question
                                 /\ u.fired[n].question \in Pending(s)
<1>1. CASE n \in 1..Len(s.fired)
  <2>1. n \in DOMAIN s.fired /\ u.fired[n] = s.fired[n]
    BY <1>1 DEF Parted
  <2> QED BY <2>1 DEF Fired
<1>2. ASSUME NEW a \in 1..Len(g), n = Len(s.fired) + a
      PROVE  /\ g[a] \in DOMAIN s.pending
             /\ u.fired[n].question = s.pending[g[a]].question
             /\ u.fired[n].question \in Pending(s)
  <2>1. g[a] \in DOMAIN s.pending /\ u.fired[n].question = s.pending[g[a]].question
    BY <1>2 DEF Parted
  <2> QED BY <2>1 DEF Pending
<1>3. n \in 1..Len(s.fired) \/ \E a \in 1..Len(g) : n = Len(s.fired) + a
  BY DEF Parted
<1> QED BY <1>1, <1>2, <1>3

(* Rising places are different. *)
LEMMA PlacesApart ==
  ASSUME NEW f, NEW n, Len(f) \in Nat, \A a \in 1..Len(f) : f[a] \in 1..n,
         \A a, b \in 1..Len(f) : a < b => f[a] < f[b],
         NEW i \in 1..Len(f), NEW j \in 1..Len(f), f[i] = f[j]
  PROVE  i = j
<1>1. ~(i < j) /\ ~(j < i)
  <2>1. f[i] \in 1..n /\ ~(f[i] < f[i])
    OBVIOUS
  <2> QED BY <2>1
<1> QED BY <1>1

(* The poll sends a question once, and does not keep what it sent. *)
LEMMA PartedOnce ==
  ASSUME NEW s, NEW u, NEW f, NEW g, Parted(s, u, f, g), SameOtherwise(s, u), Once(s)
  PROVE  Once(u)
<1>1. \A i, j \in DOMAIN s.pending : s.pending[i].question = s.pending[j].question => i = j
  BY DEF Once
<1>2. \A i, j \in DOMAIN s.fired : s.fired[i].question = s.fired[j].question => i = j
  BY DEF Once
<1>3. ASSUME NEW i \in DOMAIN u.pending, NEW j \in DOMAIN u.pending,
             u.pending[i].question = u.pending[j].question
      PROVE  i = j
  <2>1. /\ i \in 1..Len(f) /\ j \in 1..Len(f)
        /\ f[i] \in DOMAIN s.pending /\ f[j] \in DOMAIN s.pending
        /\ s.pending[f[i]].question = s.pending[f[j]].question
    BY <1>3 DEF Parted
  <2>2. f[i] = f[j]
    BY <1>1, <2>1
  <2>3. /\ Len(f) \in Nat /\ \A a \in 1..Len(f) : f[a] \in 1..Len(s.pending)
        /\ \A a, b \in 1..Len(f) : a < b => f[a] < f[b]
    BY DEF Parted
  <2> QED BY <2>1, <2>2, <2>3, PlacesApart
<1>4. ASSUME NEW i \in DOMAIN u.fired, NEW j \in DOMAIN u.fired,
             u.fired[i].question = u.fired[j].question
      PROVE  i = j
  <2>1. Pending(s) \cap Fired(s) = {}
    BY DEF Once
  <2>2. CASE i \in DOMAIN s.fired /\ j \in DOMAIN s.fired
    <3>1. u.fired[i] = s.fired[i] /\ u.fired[j] = s.fired[j]
      BY <2>2 DEF Parted
    <3> QED BY <1>2, <1>4, <2>2, <3>1
  <2>3. ASSUME NEW a \in 1..Len(g), i = Len(s.fired) + a, g[a] \in DOMAIN s.pending,
               u.fired[i].question = s.pending[g[a]].question,
               NEW b \in 1..Len(g), j = Len(s.fired) + b, g[b] \in DOMAIN s.pending,
               u.fired[j].question = s.pending[g[b]].question
        PROVE  i = j
    <3>1. g[a] = g[b]
      BY <1>1, <1>4, <2>3
    <3>2. /\ Len(g) \in Nat /\ \A c \in 1..Len(g) : g[c] \in 1..Len(s.pending)
          /\ \A c, d \in 1..Len(g) : c < d => g[c] < g[d]
      BY DEF Parted
    <3>3. a = b
      BY <3>1, <3>2, PlacesApart
    <3> QED BY <2>3, <3>3
  <2>4. \/ i \in DOMAIN s.fired /\ u.fired[i].question \in Fired(s)
        \/ \E a \in 1..Len(g) : /\ i = Len(s.fired) + a /\ g[a] \in DOMAIN s.pending
                                /\ u.fired[i].question = s.pending[g[a]].question
                                /\ u.fired[i].question \in Pending(s)
    BY PartedFired
  <2>5. \/ j \in DOMAIN s.fired /\ u.fired[j].question \in Fired(s)
        \/ \E a \in 1..Len(g) : /\ j = Len(s.fired) + a /\ g[a] \in DOMAIN s.pending
                                /\ u.fired[j].question = s.pending[g[a]].question
                                /\ u.fired[j].question \in Pending(s)
    BY PartedFired
  <2> QED BY <1>4, <2>1, <2>2, <2>3, <2>4, <2>5
<1>5. Pending(u) \cap Fired(u) = {}
  <2> SUFFICES ASSUME NEW i \in DOMAIN u.pending, NEW j \in DOMAIN u.fired,
                      u.pending[i].question = u.fired[j].question
               PROVE  FALSE
    BY DEF Pending, Fired
  <2>1. /\ i \in 1..Len(f) /\ f[i] \in DOMAIN s.pending
        /\ u.pending[i].question = s.pending[f[i]].question
        /\ ~Due(s, s.pending[f[i]])
    BY DEF Parted
  <2>2. u.pending[i].question \in Pending(s)
    BY <2>1 DEF Pending
  <2>3. u.fired[j].question \notin Fired(s)
    BY <2>2 DEF Once
  <2>4. PICK a \in 1..Len(g) : /\ g[a] \in DOMAIN s.pending
                               /\ u.fired[j].question = s.pending[g[a]].question
    BY <2>3, PartedFired
  <2>5. g[a] = f[i]
    BY <1>1, <2>1, <2>4
  <2>6. Due(s, s.pending[g[a]])
    BY DEF Parted
  <2> QED BY <2>1, <2>5, <2>6
<1>6. (Pending(u) \cup Fired(u)) \cap u.cancelled = {}
  <2>1. u.cancelled = s.cancelled
    BY DEF SameOtherwise
  <2>2. Pending(u) \cup Fired(u) \subseteq Pending(s) \cup Fired(s)
    BY PartedTouches
  <2> QED BY <2>1, <2>2 DEF Once
<1> QED BY <1>3, <1>4, <1>5, <1>6 DEF Once

(* What waits on is still in the order it was asked. *)
LEMMA PartedAging ==
  ASSUME NEW s, NEW u, NEW f, NEW g, Parted(s, u, f, g), Aging(s)
  PROVE  Aging(u)
<1> SUFFICES ASSUME NEW i \in DOMAIN u.pending, NEW j \in DOMAIN u.pending, i < j
             PROVE  u.pending[j].age <= u.pending[i].age
  BY DEF Aging
<1>1. /\ f[i] \in DOMAIN s.pending /\ f[j] \in DOMAIN s.pending /\ f[i] < f[j]
      /\ u.pending[i].age = s.pending[f[i]].age /\ u.pending[j].age = s.pending[f[j]].age
  BY DEF Parted
<1> QED BY <1>1 DEF Aging

(* The poll fills no empty queue, and marks the span settled if its question fires. *)
LEMMA PartedOwned ==
  ASSUME NEW s, NEW u, NEW f, NEW g, Parted(s, u, f, g), SameOtherwise(s, u), s \in SessionState,
         u \in SessionState
  PROVE  /\ Owned(s) => Owned(u)
         /\ \A span : Owes(s, span) => Owes(u, span)
<1>1. u.command_active = s.command_active
  BY DEF SameOtherwise
<1>2. s.pending = <<>> => u.pending = <<>>
  <2>1. s.pending = <<>> => Len(u.pending) = 0
    <3> SUFFICES ASSUME s.pending = <<>>, Len(u.pending) # 0 PROVE FALSE
      OBVIOUS
    <3>1. DOMAIN u.pending = 1..Len(u.pending) /\ Len(u.pending) \in Nat
      BY SessionTyped
    <3>2. 1 \in DOMAIN u.pending
      BY <3>1
    <3>3. f[1] \in 1..Len(s.pending)
      BY <3>2 DEF Parted
    <3> QED BY <3>3
  <2>2. u.pending \in Seq(PendingQuestion)
    BY SessionTyped
  <2> QED BY <2>1, <2>2
<1>3. ASSUME NEW q, Waiting(s, q), s.command_active
      PROVE  u.span_settled \/ Waiting(u, q)
  <2>1. PICK k \in DOMAIN s.pending :
          s.pending[k].question = q /\ s.pending[k].origin = "PromptLine"
    BY <1>3 DEF Waiting
  <2>2. CASE Due(s, s.pending[k])
    <3>1. StillRunning(s, s.pending[k]) /\ k \in 1..Len(s.pending)
      BY <1>3, <2>1 DEF StillRunning, Parted
    <3> QED BY <2>2, <3>1 DEF Parted
  <2>3. CASE ~Due(s, s.pending[k])
    <3>1. k \in 1..Len(s.pending)
      BY DEF Parted
    <3>2. PICK a \in 1..Len(f) : f[a] = k
      BY <2>3, <3>1 DEF Parted
    <3>3. /\ a \in DOMAIN u.pending /\ u.pending[a].question = s.pending[k].question
          /\ u.pending[a].origin = s.pending[k].origin
      BY <3>2 DEF Parted
    <3> QED BY <2>1, <3>3 DEF Waiting
  <2> QED BY <2>2, <2>3
<1>4. s.span_settled => u.span_settled
  BY DEF Parted
<1>5. ASSUME NEW span, Owes(s, span) PROVE Owes(u, span)
  <2>1. s.command_active <=> span # <<>>
    BY <1>5 DEF Owes
  <2>2. ASSUME NEW q \in Questions, span = <<q>> PROVE u.span_settled \/ Waiting(u, q)
    <3>1. s.span_settled \/ Waiting(s, q)
      BY <1>5, <2>2 DEF Owes
    <3>2. s.command_active
      BY <2>1, <2>2
    <3> QED BY <1>3, <1>4, <3>1, <3>2
  <2> QED BY <1>1, <2>1, <2>2 DEF Owes
<1> QED BY <1>1, <1>2, <1>5 DEF Owned

-----------------------------------------------------------------------------
(* What changes of the session keep.                                       *)

(* What a change of the session that brings no question keeps. *)
Quieter(s, u) ==
  /\ u.command_active = s.command_active
  /\ u.line \in {s.line, NoQuestion} /\ u.captured_since_output = s.captured_since_output
  /\ \A q : Touched(u, q) <=> Touched(s, q)
  /\ \A span : Owes(s, span) => Owes(u, span)
  /\ Owned(s) => Owned(u)
  /\ Once(s) => Once(u)
  /\ Aging(s) => Aging(u)

Sound(s, p, last, acc, pl) ==
  /\ s \in SessionState /\ p \in Seq(PtyItem)
  /\ Once(s) /\ Aging(s)
  /\ integrated => Owned(s)
  /\ Tape(p, s, last, acc, pl)
  /\ Known(s, acc, pl)

(* Such a change keeps the session in step with the stream. *)
LEMMA QuieterSound ==
  ASSUME NEW s, NEW u \in SessionState, NEW p, NEW last, NEW acc, NEW pl,
         Quieter(s, u), Sound(s, p, last, acc, pl)
  PROVE  Sound(u, p, last, acc, pl)
<1>1. Once(u) /\ Aging(u) /\ (integrated => Owned(u)) /\ p \in Seq(PtyItem)
  BY DEF Quieter, Sound
<1>2. Known(u, acc, pl)
  <2>1. Known(s, acc, pl)
    BY DEF Sound
  <2>2. /\ u.command_active = s.command_active /\ (u.line = s.line \/ u.line = NoQuestion)
        /\ \A q : Touched(u, q) <=> Touched(s, q)
    BY DEF Quieter
  <2>3. NoQuestion \notin Questions
    BY QuestionsAssumption
  <2> QED BY <2>1, <2>2, <2>3 DEF Known
<1>3. Tape(p, u, last, acc, pl)
  <2>1. Tape(p, s, last, acc, pl)
    BY DEF Sound
  <2>2. \E span : Stream(p, span, last, pl) /\ Owes(u, span[0])
    BY <2>1 DEF Tape, Quieter
  <2>3. /\ (u.line = s.line \/ u.line = NoQuestion)
        /\ u.captured_since_output = s.captured_since_output
        /\ \A q : Touched(u, q) <=> Touched(s, q)
    BY DEF Quieter
  <2>4. Fresh(s, pl) => Fresh(u, pl)
    BY <2>3, QuestionsAssumption DEF Fresh
  <2>5. Marked(p, u, acc, pl)
    BY <2>1, <2>3, <2>4 DEF Tape, Marked
  <2>6. Shown(p, u, pl)
    BY <2>1, <2>3, QuestionsAssumption DEF Tape, Shown
  <2> QED BY <2>2, <2>5, <2>6 DEF Tape
<1> QED BY <1>1, <1>2, <1>3 DEF Sound

(* The poll. *)
LEMMA PolledQuieter ==
  ASSUME NEW s \in SessionState
  PROVE  Polled(s) \in SessionState /\ Quieter(s, Polled(s))
<1> DEFINE u == Polled(s)
<1> HIDE DEF u
<1>1. /\ u \in SessionState /\ SameOtherwise(s, u)
      /\ u = s \/ \E f, g : Parted(s, u, f, g)
  BY PolledParts DEF u
<1>2. CASE u = s
  BY <1>1, <1>2 DEF Quieter, u
<1>3. ASSUME NEW f, NEW g, Parted(s, u, f, g)
      PROVE  Quieter(s, u)
  <2>1. \A q : Touched(u, q) <=> Touched(s, q)
    BY <1>1, <1>3, PartedTouches
  <2>2. Once(s) => Once(u)
    BY <1>1, <1>3, PartedOnce
  <2>3. Aging(s) => Aging(u)
    BY <1>3, PartedAging
  <2>4. (Owned(s) => Owned(u)) /\ \A span : Owes(s, span) => Owes(u, span)
    BY <1>1, <1>3, PartedOwned
  <2>5. /\ u.command_active = s.command_active
        /\ u.line \in {s.line, NoQuestion} /\ u.captured_since_output = s.captured_since_output
    BY <1>1 DEF SameOtherwise
  <2> QED BY <2>1, <2>2, <2>3, <2>4, <2>5 DEF Quieter
<1> QED BY <1>1, <1>2, <1>3 DEF u

(* Questions that only grow older. *)
Older(s, u) ==
  /\ u.command_active = s.command_active /\ u.span_settled = s.span_settled
  /\ u.line = s.line /\ u.captured_since_output = s.captured_since_output
  /\ u.fired = s.fired /\ u.cancelled = s.cancelled
  /\ u.alt = s.alt /\ u.shape = s.shape
  /\ DOMAIN s.pending = DOMAIN u.pending
  /\ u.pending = <<>> <=> s.pending = <<>>
  /\ \A i \in DOMAIN s.pending :
       /\ u.pending[i].question = s.pending[i].question
       /\ u.pending[i].origin = s.pending[i].origin
  /\ Aging(s) => Aging(u)

(* Growing older brings no question. *)
LEMMA OlderQuieter ==
  ASSUME NEW s, NEW u, Older(s, u)
  PROVE  Quieter(s, u)
<1>1. Pending(u) = Pending(s) /\ Fired(u) = Fired(s)
  BY DEF Older, Pending, Fired
<1>2. \A q : Touched(u, q) <=> Touched(s, q)
  BY <1>1 DEF Older, Touched
<1>3. Once(s) => Once(u)
  <2>1. /\ \A i, j \in DOMAIN s.pending : s.pending[i].question = s.pending[j].question => i = j
        => \A i, j \in DOMAIN u.pending : u.pending[i].question = u.pending[j].question => i = j
    BY DEF Older
  <2>2. u.fired = s.fired /\ u.cancelled = s.cancelled
    BY DEF Older
  <2> QED BY <1>1, <2>1, <2>2 DEF Once
<1>4. \A q : Waiting(s, q) => Waiting(u, q)
  BY DEF Older, Waiting
<1>5. /\ \A span : Owes(s, span) => Owes(u, span)
      /\ Owned(s) => Owned(u)
  BY <1>4 DEF Older, Owes, Owned
<1> QED BY <1>2, <1>3, <1>5 DEF Quieter, Older

(* A tick of the clock. *)
Aged(p) == [p EXCEPT !.age = Lesser(@ + 1, Horizon)]
Later(s) == [s EXCEPT !.quiet = Lesser(@ + 1, Horizon),
                      !.pending = [i \in DOMAIN @ |-> Aged(@[i])]]

(* A tick makes what is pending older, and nothing else. *)
LEMMA LaterOlder ==
  ASSUME NEW s \in SessionState
  PROVE  Later(s) \in SessionState /\ Older(s, Later(s))
<1> DEFINE u == Later(s)
<1>1. u.pending = [i \in DOMAIN s.pending |-> Aged(s.pending[i])]
  BY DEF Later, SessionState
<1>2. DOMAIN s.pending = 1..Len(s.pending) /\ Len(s.pending) \in Nat
  BY SessionTyped
<1>3. ASSUME NEW i \in 1..Len(s.pending)
      PROVE  /\ s.pending[i] \in PendingQuestion
             /\ u.pending[i] = Aged(s.pending[i])
  BY <1>1, <1>2, SessionTyped
<1>4. ASSUME NEW i \in 1..Len(s.pending)
      PROVE  /\ u.pending[i].question = s.pending[i].question
             /\ u.pending[i].origin = s.pending[i].origin
             /\ u.pending[i].age = Lesser(s.pending[i].age + 1, Horizon)
             /\ u.pending[i] \in PendingQuestion
  <2> DEFINE p == s.pending[i]  v == u.pending[i]
  <2>1. p \in PendingQuestion /\ v = [p EXCEPT !.age = Lesser(p.age + 1, Horizon)]
    BY <1>3 DEF Aged
  <2> HIDE DEF p, v
  <2>2. p.age \in 0..Horizon
    BY <2>1, PendingTyped
  <2>3. Lesser(p.age + 1, Horizon) \in 0..Horizon
    BY <2>2, HorizonNat DEF Lesser
  <2>4. v.question = p.question /\ v.origin = p.origin /\ v.age = Lesser(p.age + 1, Horizon)
        /\ v \in PendingQuestion
    BY <2>1, <2>3 DEF PendingQuestion
  <2> QED BY <2>4 DEF p, v
<1>5. u.pending \in Seq(PendingQuestion) /\ DOMAIN u.pending = DOMAIN s.pending
      /\ Len(u.pending) = Len(s.pending)
  <2> HIDE DEF u
  <2>1. \A i \in 1..Len(s.pending) : u.pending[i] \in PendingQuestion
    BY <1>4
  <2>2. u.pending \in [1..Len(s.pending) -> PendingQuestion]
    BY <1>1, <1>2, <2>1
  <2> QED BY <1>2, <2>2
<1>6. /\ u.command_active = s.command_active /\ u.span_settled = s.span_settled
      /\ u.line = s.line /\ u.captured_since_output = s.captured_since_output
      /\ u.fired = s.fired /\ u.cancelled = s.cancelled
      /\ u.alt = s.alt /\ u.shape = s.shape
      /\ u.quiet = Lesser(s.quiet + 1, Horizon)
  BY DEF Later, SessionState
<1>7. u \in SessionState
  <2>1. Lesser(s.quiet + 1, Horizon) \in 0..Horizon
    BY SessionTyped, HorizonNat DEF Lesser
  <2>2. u = [s EXCEPT !.quiet = u.quiet, !.pending = u.pending]
    BY <1>1, <1>6 DEF Later
  <2> HIDE DEF u
  <2> QED BY <1>5, <1>6, <2>1, <2>2 DEF SessionState
<1>8. Aging(s) => Aging(u)
  <2> SUFFICES ASSUME Aging(s), NEW i \in DOMAIN s.pending, NEW j \in DOMAIN s.pending, i < j
               PROVE  u.pending[j].age <= u.pending[i].age
    BY <1>5 DEF Aging
  <2>1. s.pending[j].age <= s.pending[i].age
    BY DEF Aging
  <2>2. s.pending[j] \in PendingQuestion /\ s.pending[i] \in PendingQuestion
    BY SessionTyped
  <2>3. s.pending[j].age \in Nat /\ s.pending[i].age \in Nat /\ Horizon \in Nat
    BY <2>2, PendingTyped, HorizonNat
  <2>4. /\ u.pending[j].age = Lesser(s.pending[j].age + 1, Horizon)
        /\ u.pending[i].age = Lesser(s.pending[i].age + 1, Horizon)
    BY <1>2, <1>4
  <2> HIDE DEF u
  <2> QED BY <2>1, <2>3, <2>4 DEF Lesser
<1>9. u.pending = <<>> <=> s.pending = <<>>
  BY <1>5, SessionTyped
<1> HIDE DEF u
<1>10. Older(s, u)
  BY <1>2, <1>4, <1>5, <1>6, <1>8, <1>9 DEF Older
<1> QED BY <1>7, <1>10 DEF u

(* The screen repainted. *)
LEMMA RepaintQuieter ==
  ASSUME NEW s \in SessionState, NEW line \in {s.line, NoQuestion}, NEW shape \in Shapes
  PROVE  /\ [s EXCEPT !.line = line, !.shape = shape] \in SessionState
         /\ Quieter(s, [s EXCEPT !.line = line, !.shape = shape])
<1> DEFINE u == [s EXCEPT !.line = line, !.shape = shape]
<1>1. u \in SessionState
  <2>1. line \in Lines
    BY SessionTyped DEF Lines
  <2> QED BY <2>1 DEF SessionState
<1>2. /\ u.command_active = s.command_active /\ u.pending = s.pending /\ u.fired = s.fired
      /\ u.cancelled = s.cancelled /\ u.span_settled = s.span_settled
      /\ u.captured_since_output = s.captured_since_output /\ u.line = line
  BY DEF SessionState
<1> HIDE DEF u
<1>3. Pending(u) = Pending(s) /\ Fired(u) = Fired(s) /\ \A q : Waiting(u, q) <=> Waiting(s, q)
  BY <1>2 DEF Pending, Fired, Waiting
<1>4. \A q : Touched(u, q) <=> Touched(s, q)
  BY <1>2, <1>3 DEF Touched
<1>5. (Once(s) => Once(u)) /\ (Aging(s) => Aging(u)) /\ (Owned(s) => Owned(u))
  BY <1>2, <1>3 DEF Once, Aging, Owned
<1>6. \A span : Owes(s, span) => Owes(u, span)
  BY <1>2, <1>3 DEF Owes
<1>7. Quieter(s, u)
  BY <1>2, <1>4, <1>5, <1>6 DEF Quieter
<1> QED BY <1>1, <1>7 DEF u

(* Ctrl+C. *)
LEMMA InterruptedQuieter ==
  ASSUME NEW s \in SessionState
  PROVE  Interrupted(s) \in SessionState /\ Quieter(s, Interrupted(s))
<1> DEFINE u == Interrupted(s)
<1>1. CASE s.alt
  <2>1. u = s
    BY <1>1 DEF Interrupted
  <2> QED BY <2>1 DEF Quieter
<1>2. CASE ~s.alt
  <2>1. Pending(s) \subseteq Questions
    <3> SUFFICES ASSUME NEW i \in DOMAIN s.pending PROVE s.pending[i].question \in Questions
      BY DEF Pending
    <3>1. s.pending[i] \in PendingQuestion
      BY SessionTyped
    <3> QED BY <3>1, PendingTyped
  <2>2. /\ u.command_active = s.command_active /\ u.pending = <<>> /\ u.fired = s.fired
        /\ u.cancelled = s.cancelled \cup Pending(s)
        /\ u.span_settled = (s.span_settled \/ s.command_active)
        /\ u.captured_since_output = s.captured_since_output /\ u.line = s.line
    BY <1>2 DEF Interrupted, SessionState, Pending
  <2>3. u \in SessionState
    <3>1. u.cancelled \in SUBSET Questions
      BY <2>1, <2>2, SessionTyped
    <3>2. u = [s EXCEPT !.span_settled = s.span_settled \/ s.command_active,
                        !.cancelled = u.cancelled, !.pending = <<>>]
      BY <1>2, <2>2 DEF Interrupted, Pending
    <3>3. (s.span_settled \/ s.command_active) \in BOOLEAN /\ <<>> \in Seq(PendingQuestion)
      OBVIOUS
    <3> HIDE DEF u
    <3> QED BY <3>1, <3>2, <3>3 DEF SessionState
  <2> HIDE DEF u
  <2>4. Pending(u) = {} /\ Fired(u) = Fired(s)
    BY <2>2 DEF Pending, Fired
  <2>5. \A q : Touched(u, q) <=> Touched(s, q)
    BY <2>2, <2>4 DEF Touched
  <2>6. Once(s) => Once(u)
    BY <2>2, <2>4 DEF Once
  <2>7. Owned(u) /\ Aging(u)
    BY <2>2 DEF Owned, Aging
  <2>8. s.command_active => u.span_settled
    BY <2>2
  <2>9. ASSUME NEW span, Owes(s, span) PROVE Owes(u, span)
    <3>1. u.command_active <=> span # <<>>
      BY <2>2, <2>9 DEF Owes
    <3>2. ASSUME NEW q \in Questions, span = <<q>> PROVE u.span_settled
      <4>1. s.command_active
        BY <2>9, <3>2 DEF Owes
      <4> QED BY <4>1, <2>8
    <3> QED BY <3>1, <3>2 DEF Owes
  <2>10. Quieter(s, u)
    BY <2>2, <2>5, <2>6, <2>7, <2>9 DEF Quieter
  <2> QED BY <2>3, <2>10 DEF u
<1> QED BY <1>1, <1>2

-----------------------------------------------------------------------------
(* Reading the stream.                                                     *)

(* What is read of a stream, item by item. *)
LEMMA TailPlaces ==
  ASSUME NEW p \in Seq(PtyItem), p # <<>>
  PROVE  /\ Tail(p) \in Seq(PtyItem) /\ Len(p) \in Nat /\ Len(p) > 0
         /\ Len(Tail(p)) = Len(p) - 1 /\ Head(p) = p[1] /\ 1 \in 1..Len(p)
         /\ \A i \in 1..Len(Tail(p)) : Tail(p)[i] = p[i + 1] /\ i + 1 \in 1..Len(p) /\ i + 1 # 1
OBVIOUS

(* When an item is read the spans go on from the next one. *)
LEMMA StreamOn ==
  ASSUME NEW p \in Seq(PtyItem), p # <<>>, NEW span, NEW last, NEW pl, Stream(p, span, last, pl)
  PROVE  \E next : /\ Stream(Tail(p), next, last, pl) /\ next[0] = span[1]
                   /\ span[0] \in Spans /\ span[1] \in Spans
                   /\ Follows(Head(p), span[0], span[1], pl)
<1> DEFINE n == Len(p)  m == Len(Tail(p))  next == [i \in 0..m |-> span[i + 1]]
<1>1. n \in Nat /\ n > 0 /\ m = n - 1 /\ Head(p) = p[1] /\ \A i \in 1..m : Tail(p)[i] = p[i + 1]
  BY TailPlaces
<1>2. /\ span \in [0..n -> Spans] /\ span[n] = last
      /\ \A i \in 1..n : Follows(p[i], span[i - 1], span[i], pl)
  BY DEF Stream
<1> HIDE DEF n, m
<1>3. next \in [0..m -> Spans] /\ next[m] = last /\ next[0] = span[1]
  <2>1. \A i \in 0..m : i + 1 \in 0..n
    BY <1>1
  <2>2. \A i \in 0..m : next[i] = span[i + 1] /\ span[i + 1] \in Spans
    BY <1>2, <2>1
  <2>3. m \in 0..m /\ 0 \in 0..m /\ m + 1 = n /\ 0 + 1 = 1
    BY <1>1
  <2> QED BY <1>2, <2>2, <2>3
<1>4. ASSUME NEW i \in 1..m
      PROVE  Follows(Tail(p)[i], next[i - 1], next[i], pl)
  <2>1. i + 1 \in 1..n /\ i \in 0..m /\ i - 1 \in 0..m /\ (i + 1) - 1 = i /\ (i - 1) + 1 = i
    BY <1>1
  <2>2. next[i - 1] = span[i] /\ next[i] = span[i + 1] /\ Tail(p)[i] = p[i + 1]
    BY <1>1, <2>1
  <2>3. Follows(p[i + 1], span[(i + 1) - 1], span[i + 1], pl)
    BY <1>2, <2>1
  <2> QED BY <2>1, <2>2, <2>3
<1>5. span[0] \in Spans /\ span[1] \in Spans /\ Follows(Head(p), span[0], span[1], pl)
  <2>1. 0 \in 0..n /\ 1 \in 0..n /\ 1 \in 1..n /\ 1 - 1 = 0
    BY <1>1
  <2> QED BY <1>1, <1>2, <2>1
<1>6. Stream(Tail(p), next, last, pl)
  BY <1>3, <1>4 DEF Stream, m
<1> QED BY <1>3, <1>5, <1>6

(* What remains unread keeps its markers apart, if what is touched now is not started there. *)
LEMMA MarkedOn ==
  ASSUME NEW p \in Seq(PtyItem), p # <<>>, NEW s, NEW u, NEW acc, NEW pl, Marked(p, s, acc, pl),
         Blank(Head(p)) => Fresh(u, pl),
         \A q \in Questions : Touched(u, q) => Touched(s, q) \/ IsStart(Head(p), q)
  PROVE  Marked(Tail(p), u, acc, pl)
<1>1. /\ Head(p) = p[1] /\ 1 \in 1..Len(p)
      /\ \A i \in 1..Len(Tail(p)) : Tail(p)[i] = p[i + 1] /\ i + 1 \in 1..Len(p) /\ i + 1 # 1
  BY TailPlaces
<1>2. \A i \in 1..Len(Tail(p)) : Tail(p)[i].kind # "output" => integrated
  BY <1>1 DEF Marked
<1>3. ASSUME NEW i \in 1..Len(Tail(p)), Tail(p)[i].kind = "command_start"
      PROVE  /\ i = 1 => Fresh(u, pl)
             /\ i > 1 => Blank(Tail(p)[i - 1])
  <2>1. i + 1 \in 1..Len(p) /\ i + 1 > 1 /\ p[i + 1].kind = "command_start" /\ (i + 1) - 1 = i
    BY <1>1, <1>3
  <2>2. Blank(p[(i + 1) - 1])
    BY <2>1 DEF Marked
  <2>3. Blank(p[i])
    BY <2>1, <2>2
  <2>4. CASE i = 1
    BY <1>1, <2>3, <2>4
  <2>5. CASE i > 1
    <3>1. i - 1 \in 1..Len(Tail(p)) /\ (i - 1) + 1 = i
      BY <2>5, TailPlaces
    <3>2. Tail(p)[i - 1] = p[i]
      BY <1>1, <3>1
    <3> QED BY <2>3, <2>5, <3>2
  <2> QED BY <2>4, <2>5, TailPlaces
<1>4. ASSUME NEW q \in Questions, NEW i \in 1..Len(Tail(p)), IsStart(Tail(p)[i], q)
      PROVE  q \in acc /\ ~Touched(u, q)
  <2>1. IsStart(p[i + 1], q) /\ i + 1 \in 1..Len(p) /\ i + 1 # 1
    BY <1>1, <1>4
  <2>2. q \in acc /\ ~Touched(s, q)
    BY <2>1 DEF Marked
  <2>3. ~IsStart(p[1], q)
    BY <1>1, <2>1 DEF Marked
  <2> QED BY <1>1, <2>2, <2>3
<1>5. ASSUME NEW q \in Questions, NEW i \in 1..Len(Tail(p)), NEW j \in 1..Len(Tail(p)),
             IsStart(Tail(p)[i], q), IsStart(Tail(p)[j], q)
      PROVE  i = j
  <2>1. /\ IsStart(p[i + 1], q) /\ i + 1 \in 1..Len(p)
        /\ IsStart(p[j + 1], q) /\ j + 1 \in 1..Len(p)
    BY <1>1, <1>5
  <2>2. i + 1 = j + 1
    BY <2>1 DEF Marked
  <2> QED BY <2>2
<1> QED BY <1>2, <1>3, <1>4, <1>5 DEF Marked

(* What remains unread is shown once, if what is touched now was not read off the screen. *)
LEMMA ShownOn ==
  ASSUME NEW p \in Seq(PtyItem), p # <<>>, NEW s, NEW u, NEW pl, Shown(p, s, pl),
         \A q \in Questions : Screen(q, pl) => (Touched(u, q) <=> Touched(s, q)),
         \/ u.line = s.line /\ u.captured_since_output = s.captured_since_output
         \/ Shows(Head(p), u.line)
  PROVE  Shown(Tail(p), u, pl)
<1>1. /\ Head(p) = p[1] /\ 1 \in 1..Len(p)
      /\ \A i \in 1..Len(Tail(p)) : Tail(p)[i] = p[i + 1] /\ i + 1 \in 1..Len(p) /\ i + 1 # 1
  BY TailPlaces
<1>2. ASSUME NEW q \in Questions, Screen(q, pl)
      PROVE  /\ \A i, j \in 1..Len(Tail(p)) :
                  Shows(Tail(p)[i], q) /\ Shows(Tail(p)[j], q) => i = j
             /\ \A i \in 1..Len(Tail(p)) : Shows(Tail(p)[i], q) => ~Touched(u, q) /\ u.line # q
             /\ u.line = q /\ Touched(u, q) => u.captured_since_output
  <2>1. /\ \A i, j \in 1..Len(p) : Shows(p[i], q) /\ Shows(p[j], q) => i = j
        /\ \A i \in 1..Len(p) : Shows(p[i], q) => ~Touched(s, q) /\ s.line # q
        /\ s.line = q /\ Touched(s, q) => s.captured_since_output
    BY <1>2 DEF Shown
  <2>2. Touched(u, q) <=> Touched(s, q)
    BY <1>2
  <2>3. ASSUME NEW i \in 1..Len(Tail(p)), NEW j \in 1..Len(Tail(p)),
               Shows(Tail(p)[i], q), Shows(Tail(p)[j], q)
        PROVE  i = j
    <3>1. i + 1 = j + 1
      BY <1>1, <2>1, <2>3
    <3> QED BY <3>1
  <2>4. ASSUME NEW i \in 1..Len(Tail(p)), Shows(Tail(p)[i], q)
        PROVE  ~Touched(u, q) /\ u.line # q
    <3>1. Shows(p[i + 1], q) /\ i + 1 \in 1..Len(p) /\ i + 1 # 1
      BY <1>1, <2>4
    <3>2. ~Shows(p[1], q)
      BY <1>1, <2>1, <3>1
    <3> QED BY <1>1, <2>1, <2>2, <3>1, <3>2
  <2>5. ASSUME u.line = q, Touched(u, q) PROVE u.captured_since_output
    <3>1. ~Shows(p[1], q)
      BY <1>1, <2>1, <2>2, <2>5
    <3> QED BY <1>1, <2>1, <2>2, <2>5, <3>1
  <2> QED BY <2>3, <2>4, <2>5
<1>3. \A q \in Questions : pl[q] = "unused" => \A i \in 1..Len(Tail(p)) : ~Shows(Tail(p)[i], q)
  BY <1>1 DEF Shown
<1> QED BY <1>2, <1>3 DEF Shown

(* Output is read: it moves the screen, and frees the capture. *)
LEMMA RecordSound ==
  ASSUME NEW s, NEW p, p # <<>>, NEW last, NEW acc, NEW pl, Sound(s, p, last, acc, pl),
         Head(p).kind = "output"
  PROVE  Sound(RecordOutput(s, Head(p)), Tail(p), last, acc, pl)
<1> DEFINE item == Head(p)  u == RecordOutput(s, item)
<1>1. /\ s \in SessionState /\ p \in Seq(PtyItem) /\ Once(s) /\ Aging(s)
      /\ (integrated => Owned(s)) /\ Tape(p, s, last, acc, pl) /\ Known(s, acc, pl)
  BY DEF Sound
<1>2. item \in PtyItem /\ item.kind = "output" /\ item = p[1] /\ 1 \in 1..Len(p)
  BY <1>1
<1> HIDE DEF item
<1>3. item.line \in Lines /\ item.shape \in Shapes /\ item.alt \in BOOLEAN
  BY <1>2 DEF PtyItem, OutputItem
<1>4. u \in SessionState
  <2>1. s \in SessionState /\ 0 \in 0..Horizon
    BY <1>1, HorizonNat
  <2> QED BY <1>3, <2>1 DEF RecordOutput, SessionState
<1>5. /\ u.line = item.line /\ u.command_active = s.command_active /\ u.pending = s.pending
      /\ u.fired = s.fired /\ u.cancelled = s.cancelled /\ u.span_settled = s.span_settled
  BY <1>1 DEF RecordOutput, SessionState
<1> HIDE DEF u
<1>6. Pending(u) = Pending(s) /\ Fired(u) = Fired(s) /\ \A q : Waiting(u, q) <=> Waiting(s, q)
  BY <1>5 DEF Pending, Fired, Waiting
<1>7. \A q : Touched(u, q) <=> Touched(s, q)
  BY <1>5, <1>6 DEF Touched
<1>8. Once(u) /\ Aging(u) /\ (integrated => Owned(u))
  BY <1>1, <1>5, <1>6 DEF Once, Aging, Owned
<1>9. PICK span : Stream(p, span, last, pl) /\ Owes(s, span[0])
  BY <1>1 DEF Tape
<1>10. PICK next : /\ Stream(Tail(p), next, last, pl) /\ next[0] = span[1]
                   /\ Follows(item, span[0], span[1], pl)
  BY <1>1, <1>9, StreamOn DEF item
<1>11. /\ next[0] = span[0]
       /\ item.line \in Questions /\ pl[item.line] = "prompt" => span[0] = <<>>
  BY <1>2, <1>10 DEF Follows
<1>12. Owes(u, next[0])
  BY <1>5, <1>6, <1>9, <1>11 DEF Owes
<1>13. Marked(Tail(p), u, acc, pl)
  <2>1. Marked(p, s, acc, pl)
    BY <1>1 DEF Tape
  <2>2. Blank(item) => Fresh(u, pl)
    BY <1>5, QuestionsAssumption DEF Blank, Fresh
  <2> QED BY <1>1, <1>7, <2>1, <2>2, MarkedOn DEF item
<1>14. Shown(Tail(p), u, pl)
  <2>1. Shown(p, s, pl)
    BY <1>1 DEF Tape
  <2>2. Shows(item, u.line)
    BY <1>2, <1>5 DEF Shows
  <2> QED BY <1>1, <1>7, <2>1, <2>2, ShownOn DEF item
<1>15. Tape(Tail(p), u, last, acc, pl)
  BY <1>10, <1>12, <1>13, <1>14 DEF Tape
<1>16. Known(u, acc, pl)
  <2> SUFFICES ASSUME NEW q \in Questions
               PROVE  /\ pl[q] = "unused" => ~Touched(u, q) /\ u.line # q
                      /\ integrated /\ pl[q] = "prompt" =>
                           /\ Touched(u, q) => q \in acc
                           /\ u.line = q => ~u.command_active
    BY DEF Known
  <2>1. /\ pl[q] = "unused" => ~Touched(s, q)
        /\ integrated /\ pl[q] = "prompt" => (Touched(s, q) => q \in acc)
    BY <1>1 DEF Known
  <2>2. pl[q] = "unused" => u.line # q
    <3>1. pl[q] = "unused" => ~Shows(p[1], q)
      BY <1>1, <1>2 DEF Tape, Shown
    <3> QED BY <1>2, <1>5, <3>1 DEF Shows
  <2>3. pl[q] = "prompt" /\ u.line = q => ~u.command_active
    BY <1>5, <1>9, <1>11 DEF Owes
  <2> QED BY <1>7, <2>1, <2>2, <2>3
<1>17. Tail(p) \in Seq(PtyItem)
  BY <1>1, TailPlaces
<1> QED BY <1>1, <1>4, <1>8, <1>15, <1>16, <1>17 DEF Sound, u, item

(* A start marker: its question joins the queue of a new span. *)
LEMMA StartSound ==
  ASSUME NEW s, NEW p, p # <<>>, NEW last, NEW acc, NEW pl, Sound(s, p, last, acc, pl),
         \A q \in acc : pl[q] = "prompt", Head(p).kind = "command_start"
  PROVE  Sound(CommandStart(s, Head(p).question), Tail(p), last, acc, pl)
<1> DEFINE item == Head(p)  asked == item.question  u == CommandStart(s, asked)
<1>1. /\ s \in SessionState /\ p \in Seq(PtyItem) /\ Once(s) /\ Aging(s)
      /\ (integrated => Owned(s)) /\ Tape(p, s, last, acc, pl) /\ Known(s, acc, pl)
  BY DEF Sound
<1>2. item \in PtyItem /\ item.kind = "command_start" /\ item = p[1] /\ 1 \in 1..Len(p)
  BY <1>1
<1> HIDE DEF item
<1>3. asked \in Lines
  BY <1>2 DEF PtyItem, OutputItem
<1>4. integrated /\ Fresh(s, pl)
  BY <1>1, <1>2 DEF Tape, Marked
<1>5. PICK span : Stream(p, span, last, pl) /\ Owes(s, span[0])
  BY <1>1 DEF Tape
<1>6. PICK next : /\ Stream(Tail(p), next, last, pl) /\ next[0] = span[1]
                  /\ Follows(item, span[0], span[1], pl)
  BY <1>1, <1>5, StreamOn DEF item
<1>7. span[0] = <<>> /\ next[0] = <<asked>>
  BY <1>2, <1>6 DEF Follows
<1>8. ~s.command_active /\ s.pending = <<>>
  BY <1>1, <1>4, <1>5, <1>7 DEF Owes, Owned
<1>9. asked \in Questions => asked \in acc /\ ~Touched(s, asked) /\ pl[asked] = "prompt"
  BY <1>1, <1>2 DEF Tape, Marked, IsStart
<1>10. /\ u.line = s.line /\ u.command_active /\ u.fired = s.fired /\ u.cancelled = s.cancelled
       /\ u.captured_since_output = s.captured_since_output
       /\ ~u.span_settled
       /\ asked # NoQuestion => u.pending = <<Submitted(asked, "PromptLine")>>
       /\ asked = NoQuestion => u.pending = <<>>
  BY <1>1, <1>8 DEF CommandStart, SessionState
<1>11. asked # NoQuestion => asked \in Questions
  BY <1>3 DEF Lines
<1>12. u.pending \in Seq(PendingQuestion)
  <2>1. asked \in Questions => Submitted(asked, "PromptLine") \in PendingQuestion
    BY HorizonNat DEF Submitted, PendingQuestion, Origins
  <2> HIDE DEF u, asked
  <2>2. CASE asked # NoQuestion
    <3> DEFINE x == Submitted(asked, "PromptLine")
    <3>1. x \in PendingQuestion
      BY <1>11, <2>1, <2>2
    <3>2. u.pending = <<x>>
      BY <1>10, <2>2
    <3> HIDE DEF x
    <3> QED BY <3>1, <3>2
  <2>3. CASE asked = NoQuestion
    <3>1. u.pending = <<>>
      BY <1>10, <2>3
    <3> QED BY <3>1
  <2> QED BY <2>2, <2>3
<1>13. u \in SessionState
  <2>1. u.span_settled \in BOOLEAN
    BY <1>1 DEF CommandStart, SessionState
  <2>2. u = [s EXCEPT !.span_settled = u.span_settled, !.pending = u.pending,
                      !.command_active = TRUE]
    BY <1>1 DEF CommandStart, SessionState
  <2> HIDE DEF u
  <2>3. s \in SessionState
    BY <1>1
  <2> QED BY <1>12, <2>1, <2>2, <2>3 DEF SessionState
<1> HIDE DEF u, asked
<1>14. \/ /\ asked \in Questions /\ Len(u.pending) = 1 /\ DOMAIN u.pending = {1}
          /\ u.pending[1].question = asked /\ u.pending[1].origin = "PromptLine"
       \/ asked = NoQuestion /\ u.pending = <<>> /\ DOMAIN u.pending = {}
  <2>1. CASE asked # NoQuestion
    <3> DEFINE x == Submitted(asked, "PromptLine")
    <3>1. x.question = asked /\ x.origin = "PromptLine"
      BY DEF Submitted
    <3> HIDE DEF x
    <3>2. u.pending = <<x>>
      BY <1>10, <2>1 DEF x
    <3>3. Len(u.pending) = 1 /\ DOMAIN u.pending = {1} /\ u.pending[1] = x
      BY <3>2
    <3> QED BY <1>11, <2>1, <3>1, <3>3
  <2>2. CASE asked = NoQuestion
    <3>1. u.pending = <<>>
      BY <1>10, <2>2
    <3>2. DOMAIN u.pending = {}
      BY <3>1
    <3> QED BY <2>2, <3>1, <3>2
  <2> QED BY <2>1, <2>2
<1>15. /\ Pending(u) = IF asked \in Questions THEN {asked} ELSE {}
       /\ Pending(s) = {} /\ Fired(u) = Fired(s)
  BY <1>8, <1>10, <1>14, QuestionsAssumption DEF Pending, Fired
<1>16. \A q \in Questions : Touched(u, q) <=> Touched(s, q) \/ q = asked
  BY <1>10, <1>15, QuestionsAssumption DEF Touched
<1>17. Once(u)
  <2>1. asked \in Questions => asked \notin Fired(s) /\ asked \notin s.cancelled
    BY <1>9 DEF Touched
  <2>2. \A i, j \in DOMAIN u.pending : i = j
    BY <1>14
  <2>3. \A i, j \in DOMAIN u.fired : u.fired[i].question = u.fired[j].question => i = j
    BY <1>1, <1>10 DEF Once
  <2>4. Fired(s) \cap s.cancelled = {}
    BY <1>1 DEF Once
  <2> QED BY <1>10, <1>15, <2>1, <2>2, <2>3, <2>4 DEF Once
<1>18. Aging(u) /\ Owned(u)
  <2>1. \A i, j \in DOMAIN u.pending : ~(i < j)
    BY <1>14
  <2> QED BY <1>10, <2>1 DEF Aging, Owned
<1>19. Owes(u, next[0])
  <2>1. ASSUME NEW q \in Questions, <<asked>> = <<q>> PROVE Waiting(u, q)
    <3>1. asked = q
      BY <2>1
    <3>2. asked # NoQuestion
      BY <3>1, QuestionsAssumption
    <3> QED BY <1>14, <3>1, <3>2 DEF Waiting
  <2> QED BY <1>7, <1>10, <2>1 DEF Owes
<1>20. Marked(Tail(p), u, acc, pl)
  <2>1. Marked(p, s, acc, pl)
    BY <1>1 DEF Tape
  <2>2. ~Blank(item) /\ IsStart(item, asked)
    BY <1>2 DEF Blank, IsStart, asked
  <2> QED BY <1>1, <1>16, <2>1, <2>2, MarkedOn DEF item
<1>21. Shown(Tail(p), u, pl)
  <2>1. Shown(p, s, pl)
    BY <1>1 DEF Tape
  <2>2. \A q \in Questions : Screen(q, pl) => q # asked
    BY <1>4, <1>9 DEF Screen
  <2> QED BY <1>1, <1>10, <1>16, <2>1, <2>2, ShownOn
<1>22. Tape(Tail(p), u, last, acc, pl)
  BY <1>6, <1>19, <1>20, <1>21 DEF Tape
<1>23. Known(u, acc, pl)
  <2> SUFFICES ASSUME NEW q \in Questions
               PROVE  /\ pl[q] = "unused" => ~Touched(u, q) /\ u.line # q
                      /\ integrated /\ pl[q] = "prompt" =>
                           /\ Touched(u, q) => q \in acc
                           /\ u.line = q => ~u.command_active
    BY DEF Known
  <2>1. /\ pl[q] = "unused" => ~Touched(s, q)
        /\ integrated /\ pl[q] = "prompt" => (Touched(s, q) => q \in acc)
    BY <1>1 DEF Known
  <2>2. pl[q] = "unused" => s.line # q
    BY <1>1 DEF Known
  <2>3. pl[q] = "prompt" => s.line # q
    BY <1>4 DEF Fresh
  <2> QED BY <1>9, <1>10, <1>16, <2>1, <2>2, <2>3
<1>24. Tail(p) \in Seq(PtyItem)
  BY <1>1, TailPlaces
<1> QED BY <1>13, <1>17, <1>18, <1>22, <1>23, <1>24 DEF Sound, u, asked, item

(* Two sequences in a row. *)
LEMMA Joined ==
  ASSUME NEW S, NEW a \in Seq(S), NEW b \in Seq(S)
  PROVE  /\ a \o b \in Seq(S) /\ Len(a \o b) = Len(a) + Len(b)
         /\ DOMAIN (a \o b) = 1..(Len(a) + Len(b))
         /\ \A i \in 1..Len(a) : (a \o b)[i] = a[i]
         /\ \A i \in 1..Len(b) : (a \o b)[Len(a) + i] = b[i]
         /\ b = <<>> => a \o b = a
OBVIOUS

(* An end marker sends the pending questions in their order. *)
LEMMA FireAllIs ==
  ASSUME NEW pending \in Seq(PendingQuestion)
  PROVE  /\ FireAll(pending) \in Seq(Trigger) /\ Len(FireAll(pending)) = Len(pending)
         /\ \A i \in 1..Len(pending) :
              FireAll(pending)[i] = Fire(pending[i], "CommandEnd", FALSE)
<1> DEFINE n == Len(pending)  all == FireAll(pending)
<1>1. n \in Nat /\ DOMAIN pending = 1..n /\ \A i \in 1..n : pending[i] \in PendingQuestion
  OBVIOUS
<1>2. all = [i \in 1..n |-> Fire(pending[i], "CommandEnd", FALSE)]
  BY <1>1 DEF FireAll
<1>3. \A i \in 1..n : Fire(pending[i], "CommandEnd", FALSE) \in Trigger
  BY <1>1, PendingTyped DEF Fire, Trigger
<1> HIDE DEF n, all
<1>4. all \in [1..n -> Trigger]
  BY <1>2, <1>3
<1>5. all \in Seq(Trigger) /\ Len(all) = n
  BY <1>1, <1>4
<1> QED BY <1>1, <1>2, <1>5 DEF n, all

(* The end marker sends what is pending, or the line's question if nothing was. *)
LEMMA EndFires ==
  ASSUME NEW s \in SessionState, NEW asked \in Lines
  PROVE  LET u == CommandEnd(s, asked)
             n == Len(s.fired)
         IN /\ u \in SessionState
            /\ u.pending = <<>> /\ ~u.command_active /\ ~u.span_settled
            /\ u.line = s.line /\ u.captured_since_output = s.captured_since_output
            /\ u.cancelled = s.cancelled
            /\ \A i \in 1..n : u.fired[i] = s.fired[i]
            /\ \A i \in n + 1 .. Len(u.fired) : u.fired[i].completion = "CommandEnd"
            /\ s.pending # <<>> \/ s.span_settled \/ asked = NoQuestion =>
                 /\ Len(u.fired) = n + Len(s.pending)
                 /\ \A i \in 1..Len(s.pending) :
                      u.fired[n + i].question = s.pending[i].question
<1> DEFINE u == CommandEnd(s, asked)  n == Len(s.fired)  m == Len(s.pending)
           own == Fallback(s, asked)  all == FireAll(s.pending)
<1>1. /\ s.pending \in Seq(PendingQuestion) /\ s.fired \in Seq(Trigger)
      /\ n \in Nat /\ m \in Nat
      /\ \A i \in 1..m : s.pending[i] \in PendingQuestion
  BY SessionTyped
<1>2. /\ all \in Seq(Trigger) /\ Len(all) = m
      /\ \A i \in 1..m : all[i] = Fire(s.pending[i], "CommandEnd", FALSE)
  BY <1>1, FireAllIs
<1>3. /\ own \in Seq(Trigger) /\ \A i \in 1..Len(own) : own[i].completion = "CommandEnd"
      /\ (s.pending # <<>> \/ s.span_settled \/ asked = NoQuestion => own = <<>>)
  <2>1. CASE s.pending = <<>> /\ ~s.span_settled /\ asked # NoQuestion
    <3> DEFINE x == Submitted(asked, "PromptLine")
    <3>1. x \in PendingQuestion
      <4>1. asked \in Questions
        BY <2>1 DEF Lines
      <4> QED BY <4>1, HorizonNat DEF Submitted, PendingQuestion, Origins
    <3> HIDE DEF x
    <3>2. <<x>> \in Seq(PendingQuestion) /\ Len(<<x>>) = 1
      BY <3>1
    <3>3. /\ FireAll(<<x>>) \in Seq(Trigger) /\ Len(FireAll(<<x>>)) = 1
          /\ \A i \in 1..1 : FireAll(<<x>>)[i] = Fire(<<x>>[i], "CommandEnd", FALSE)
      BY <3>2, FireAllIs
    <3>4. own = FireAll(<<x>>)
      BY <2>1 DEF Fallback, x
    <3>5. \A i \in 1..1 : own[i].completion = "CommandEnd"
      BY <3>3, <3>4 DEF Fire
    <3> HIDE DEF own
    <3> QED BY <2>1, <3>3, <3>4, <3>5
  <2>2. CASE ~(s.pending = <<>> /\ ~s.span_settled /\ asked # NoQuestion)
    <3>1. own = <<>>
      BY <2>2 DEF Fallback
    <3> HIDE DEF own
    <3> QED BY <3>1
  <2> QED BY <2>1, <2>2
<1>4. /\ u = [s EXCEPT !.command_active = FALSE, !.span_settled = FALSE,
                       !.pending = <<>>, !.fired = @ \o (all \o own)]
  BY DEF CommandEnd, SpanEnds
<1> HIDE DEF u, own, all
<1> DEFINE new == all \o own
<1>5. /\ new \in Seq(Trigger) /\ Len(new) = m + Len(own) /\ Len(own) \in Nat
      /\ \A i \in 1..m : new[i] = all[i]
      /\ \A i \in 1..Len(own) : new[m + i] = own[i]
      /\ own = <<>> => new = all
  BY <1>2, <1>3, Joined
<1>6. \A i \in 1..Len(new) : new[i].completion = "CommandEnd"
  <2> SUFFICES ASSUME NEW i \in 1..Len(new) PROVE new[i].completion = "CommandEnd"
    OBVIOUS
  <2> HIDE DEF new
  <2>1. i \in 1..m \/ \E a \in 1..Len(own) : i = m + a
    <3> HIDE DEF n, m
    <3>1. i \in 1..(m + Len(own))
      BY <1>5
    <3> QED BY <1>1, <1>5, <3>1, FiredPlaces
  <2>2. CASE i \in 1..m
    <3>1. new[i] = Fire(s.pending[i], "CommandEnd", FALSE)
      <4> HIDE DEF m
      <4> QED BY <1>2, <1>5, <2>2
    <3> QED BY <3>1 DEF Fire
  <2>3. CASE \E a \in 1..Len(own) : i = m + a
    <3> HIDE DEF m
    <3>1. PICK a \in 1..Len(own) : i = m + a
      BY <2>3
    <3> QED BY <1>3, <1>5, <3>1
  <2> QED BY <2>1, <2>2, <2>3
<1> HIDE DEF new
<1> DEFINE t == s.fired \o new
<1>7. /\ t \in Seq(Trigger) /\ Len(t) = n + Len(new)
      /\ \A i \in 1..n : t[i] = s.fired[i]
      /\ \A i \in 1..Len(new) : t[n + i] = new[i]
  <2>1. new \in Seq(Trigger)
    BY <1>5
  <2> QED BY <1>1, <2>1, Joined
<1>8. u = [s EXCEPT !.command_active = FALSE, !.span_settled = FALSE,
                    !.pending = <<>>, !.fired = t]
  BY <1>4 DEF new
<1> HIDE DEF t
<1>9. /\ u.pending = <<>> /\ u.command_active = FALSE /\ u.span_settled = FALSE
      /\ u.line = s.line /\ u.captured_since_output = s.captured_since_output
      /\ u.cancelled = s.cancelled /\ u.fired = t
  BY <1>8 DEF SessionState
<1>10. u \in SessionState
  <2>1. t \in Seq(Trigger) /\ <<>> \in Seq(PendingQuestion)
    BY <1>7
  <2> QED BY <1>8, <2>1 DEF SessionState
<1>11. \A i \in n + 1 .. Len(u.fired) : u.fired[i].completion = "CommandEnd"
  <2> SUFFICES ASSUME NEW i \in n + 1 .. n + Len(new) PROVE t[i].completion = "CommandEnd"
    BY <1>7, <1>9
  <2> HIDE DEF n
  <2>1. i - n \in 1..Len(new) /\ n + (i - n) = i
    BY <1>1, <1>5
  <2>2. t[n + (i - n)] = new[i - n]
    BY <1>7, <2>1
  <2> QED BY <1>6, <2>1, <2>2
<1>12. ASSUME s.pending # <<>> \/ s.span_settled \/ asked = NoQuestion
       PROVE  /\ Len(u.fired) = n + m
              /\ \A i \in 1..m : u.fired[n + i].question = s.pending[i].question
  <2>1. new = all /\ Len(new) = m
    BY <1>2, <1>3, <1>5, <1>12
  <2>2. \A i \in 1..m : t[n + i] = all[i]
    BY <1>7, <2>1
  <2> HIDE DEF n, m
  <2>3. \A i \in 1..m : all[i].question = s.pending[i].question
    BY <1>2 DEF Fire
  <2>4. \A i \in 1..m : t[n + i].question = s.pending[i].question
    BY <2>2, <2>3
  <2>5. Len(t) = n + m
    BY <1>7, <2>1
  <2> QED BY <1>9, <2>4, <2>5
<1>13. \A i \in 1..n : u.fired[i] = s.fired[i]
  BY <1>7, <1>9
<1> QED BY <1>9, <1>10, <1>11, <1>12, <1>13 DEF u

(* An end marker: what is pending fires, and that is the line's question or it was settled. *)
LEMMA EndSound ==
  ASSUME NEW s, NEW p, p # <<>>, NEW last, NEW acc, NEW pl, Sound(s, p, last, acc, pl),
         Head(p).kind = "command_end"
  PROVE  Sound(CommandEnd(s, Head(p).question), Tail(p), last, acc, pl)
<1> DEFINE item == Head(p)  asked == item.question  u == CommandEnd(s, asked)
           n == Len(s.fired)  m == Len(s.pending)
<1>1. /\ s \in SessionState /\ p \in Seq(PtyItem) /\ Once(s) /\ Aging(s)
      /\ (integrated => Owned(s)) /\ Tape(p, s, last, acc, pl) /\ Known(s, acc, pl)
  BY DEF Sound
<1>2. item \in PtyItem /\ item.kind = "command_end" /\ item = p[1] /\ 1 \in 1..Len(p)
  BY <1>1
<1> HIDE DEF item
<1>3. asked \in Lines
  BY <1>2 DEF PtyItem, OutputItem
<1> HIDE DEF asked
<1>4. PICK span : Stream(p, span, last, pl) /\ Owes(s, span[0])
  BY <1>1 DEF Tape
<1>5. PICK next : /\ Stream(Tail(p), next, last, pl) /\ next[0] = span[1]
                  /\ Follows(item, span[0], span[1], pl)
  BY <1>1, <1>4, StreamOn DEF item
<1>6. span[0] = <<asked>> /\ next[0] = <<>>
  BY <1>2, <1>5 DEF Follows, asked
<1>7. s.pending # <<>> \/ s.span_settled \/ asked = NoQuestion
  <2> SUFFICES ASSUME asked # NoQuestion, ~s.span_settled PROVE s.pending # <<>>
    OBVIOUS
  <2>1. Waiting(s, asked)
    BY <1>3, <1>4, <1>6 DEF Owes, Lines
  <2> QED BY <2>1 DEF Waiting
<1>8. /\ u \in SessionState
      /\ u.pending = <<>> /\ ~u.command_active
      /\ u.line = s.line /\ u.captured_since_output = s.captured_since_output
      /\ u.cancelled = s.cancelled
      /\ \A i \in 1..n : u.fired[i] = s.fired[i]
      /\ Len(u.fired) = n + m
      /\ \A i \in 1..m : u.fired[n + i].question = s.pending[i].question
  BY <1>1, <1>3, <1>7, EndFires
<1> HIDE DEF u
<1>9. /\ n \in Nat /\ m \in Nat /\ DOMAIN s.pending = 1..m /\ DOMAIN s.fired = 1..n
      /\ DOMAIN u.fired = 1..(n + m)
  BY <1>1, <1>8, SessionTyped
<1> HIDE DEF n, m
<1>10. ASSUME NEW i \in DOMAIN u.fired
       PROVE  \/ /\ i \in DOMAIN s.fired /\ u.fired[i] = s.fired[i]
                 /\ u.fired[i].question \in Fired(s)
              \/ \E a \in 1..m : /\ i = n + a /\ a \in DOMAIN s.pending
                                 /\ u.fired[i].question = s.pending[a].question
                                 /\ u.fired[i].question \in Pending(s)
  <2>1. i \in 1..n \/ \E a \in 1..m : i = n + a
    <3>1. n \in Nat /\ m \in Nat /\ i \in 1..(n + m)
      BY <1>9
    <3> QED BY <3>1, FiredPlaces
  <2>2. CASE i \in 1..n
    <3>1. i \in DOMAIN s.fired /\ u.fired[i] = s.fired[i]
      BY <1>8, <1>9, <2>2
    <3> QED BY <3>1 DEF Fired
  <2>3. ASSUME NEW a \in 1..m, i = n + a
        PROVE  /\ a \in DOMAIN s.pending /\ u.fired[i].question = s.pending[a].question
               /\ u.fired[i].question \in Pending(s)
    <3>1. a \in DOMAIN s.pending /\ u.fired[i].question = s.pending[a].question
      BY <1>8, <1>9, <2>3
    <3> QED BY <3>1 DEF Pending
  <2> QED BY <2>1, <2>2, <2>3
<1>11. Pending(u) = {} /\ Fired(u) = Fired(s) \cup Pending(s)
  <2>1. Pending(u) = {}
    BY <1>8 DEF Pending
  <2>2. Fired(u) \subseteq Fired(s) \cup Pending(s)
    BY <1>10 DEF Fired
  <2>3. Fired(s) \subseteq Fired(u)
    <3>1. \A i \in DOMAIN s.fired : i \in DOMAIN u.fired /\ u.fired[i] = s.fired[i]
      BY <1>8, <1>9
    <3> QED BY <3>1 DEF Fired
  <2>4. Pending(s) \subseteq Fired(u)
    <3>1. \A i \in DOMAIN s.pending :
            n + i \in DOMAIN u.fired /\ u.fired[n + i].question = s.pending[i].question
      BY <1>8, <1>9
    <3> QED BY <3>1 DEF Fired, Pending
  <2> QED BY <2>1, <2>2, <2>3, <2>4
<1>12. \A q : Touched(u, q) <=> Touched(s, q)
  BY <1>8, <1>11 DEF Touched
<1>13. Once(u)
  <2>1. /\ \A i, j \in DOMAIN s.pending : s.pending[i].question = s.pending[j].question => i = j
        /\ \A i, j \in DOMAIN s.fired : s.fired[i].question = s.fired[j].question => i = j
        /\ Pending(s) \cap Fired(s) = {} /\ (Pending(s) \cup Fired(s)) \cap s.cancelled = {}
    BY <1>1 DEF Once
  <2>2. ASSUME NEW i \in DOMAIN u.fired, NEW j \in DOMAIN u.fired,
               u.fired[i].question = u.fired[j].question
        PROVE  i = j
    <3>1. CASE u.fired[i].question \in Fired(s)
      <4>1. /\ i \in DOMAIN s.fired /\ j \in DOMAIN s.fired
            /\ u.fired[i] = s.fired[i] /\ u.fired[j] = s.fired[j]
        BY <1>10, <2>1, <2>2, <3>1
      <4> QED BY <2>1, <2>2, <4>1
    <3>2. CASE u.fired[i].question \notin Fired(s)
      <4>1. PICK a \in 1..m : /\ i = n + a /\ a \in DOMAIN s.pending
                              /\ u.fired[i].question = s.pending[a].question
        BY <1>10, <3>2
      <4>2. PICK b \in 1..m : /\ j = n + b /\ b \in DOMAIN s.pending
                              /\ u.fired[j].question = s.pending[b].question
        BY <1>10, <2>2, <3>2
      <4>3. a = b
        BY <2>1, <2>2, <4>1, <4>2
      <4> QED BY <4>1, <4>2, <4>3
    <3> QED BY <3>1, <3>2
  <2>3. \A i, j \in DOMAIN u.pending : i = j
    BY <1>8
  <2> QED BY <1>8, <1>11, <2>1, <2>2, <2>3 DEF Once
<1>14. Aging(u) /\ Owned(u)
  <2>1. DOMAIN u.pending = {}
    BY <1>8
  <2> QED BY <1>8, <2>1 DEF Aging, Owned
<1>15. Owes(u, next[0])
  <2>1. \A q : <<>> # <<q>>
    OBVIOUS
  <2> QED BY <1>6, <1>8, <2>1 DEF Owes
<1>16. Marked(Tail(p), u, acc, pl)
  <2>1. Marked(p, s, acc, pl)
    BY <1>1 DEF Tape
  <2>2. ~Blank(item)
    BY <1>2 DEF Blank
  <2> QED BY <1>1, <1>12, <2>1, <2>2, MarkedOn DEF item
<1>17. Shown(Tail(p), u, pl)
  <2>1. Shown(p, s, pl)
    BY <1>1 DEF Tape
  <2> QED BY <1>1, <1>8, <1>12, <2>1, ShownOn
<1>18. Tape(Tail(p), u, last, acc, pl)
  BY <1>5, <1>15, <1>16, <1>17 DEF Tape
<1>19. Known(u, acc, pl)
  <2>1. Known(s, acc, pl)
    BY <1>1
  <2> SUFFICES ASSUME NEW q \in Questions
               PROVE  /\ pl[q] = "unused" => ~Touched(u, q) /\ u.line # q
                      /\ integrated /\ pl[q] = "prompt" =>
                           /\ Touched(u, q) => q \in acc
                           /\ u.line = q => ~u.command_active
    BY DEF Known
  <2> QED BY <1>8, <1>12, <2>1 DEF Known
<1>20. Tail(p) \in Seq(PtyItem)
  BY <1>1, TailPlaces
<1> QED BY <1>8, <1>13, <1>14, <1>18, <1>19, <1>20 DEF Sound, u, asked, item

(* Each item of the stream. *)
LEMMA HandledSound ==
  ASSUME NEW s, NEW p, p # <<>>, NEW last, NEW acc, NEW pl, Sound(s, p, last, acc, pl),
         \A q \in acc : pl[q] = "prompt"
  PROVE  Sound(Handled(s, Head(p)), Tail(p), last, acc, pl)
<1>1. Head(p).kind \in {"output", "command_start", "command_end"}
  <2>1. Head(p) \in PtyItem
    BY DEF Sound
  <2> QED BY <2>1 DEF PtyItem, OutputItem
<1>2. CASE Head(p).kind = "output"
  <2>1. Handled(s, Head(p)) = RecordOutput(s, Head(p))
    BY <1>2 DEF Handled
  <2> QED BY <1>2, <2>1, RecordSound
<1>3. CASE Head(p).kind = "command_start"
  <2>1. Handled(s, Head(p)) = CommandStart(s, Head(p).question)
    BY <1>3 DEF Handled
  <2> QED BY <1>3, <2>1, StartSound
<1>4. CASE Head(p).kind = "command_end"
  <2>1. Handled(s, Head(p)) = CommandEnd(s, Head(p).question)
    BY <1>4 DEF Handled
  <2> QED BY <1>4, <2>1, EndSound
<1> QED BY <1>1, <1>2, <1>3, <1>4

(* Output that is dropped: the stream goes on behind it. *)
LEMMA DropSound ==
  ASSUME NEW s, NEW p, p # <<>>, NEW last, NEW acc, NEW pl, Sound(s, p, last, acc, pl),
         Head(p).kind = "output", Fresh(s, pl)
  PROVE  Sound(s, Tail(p), last, acc, pl)
<1>1. p \in Seq(PtyItem) /\ Tape(p, s, last, acc, pl)
  BY DEF Sound
<1>2. PICK span : Stream(p, span, last, pl) /\ Owes(s, span[0])
  BY <1>1 DEF Tape
<1>3. PICK next : /\ Stream(Tail(p), next, last, pl) /\ next[0] = span[1]
                  /\ Follows(Head(p), span[0], span[1], pl)
  BY <1>1, <1>2, StreamOn
<1>4. Owes(s, next[0])
  BY <1>2, <1>3 DEF Follows
<1>5. Marked(Tail(p), s, acc, pl)
  BY <1>1, MarkedOn DEF Tape
<1>6. Shown(Tail(p), s, pl)
  BY <1>1, ShownOn DEF Tape
<1>7. Tape(Tail(p), s, last, acc, pl)
  BY <1>3, <1>4, <1>5, <1>6 DEF Tape
<1>8. Tail(p) \in Seq(PtyItem)
  BY <1>1, TailPlaces
<1> QED BY <1>7, <1>8 DEF Sound

(* Two items in front of a sequence, and the other way round. *)
LEMMA SwapPlaces ==
  ASSUME NEW S, NEW h \in S, NEW m \in S, NEW p \in Seq(S)
  PROVE  LET a == <<h, m>> \o p
             b == <<m, h>> \o p
             n == Len(p) + 2
         IN /\ a \in Seq(S) /\ b \in Seq(S) /\ n \in Nat /\ Len(a) = n /\ Len(b) = n
            /\ a[1] = h /\ a[2] = m /\ b[1] = m /\ b[2] = h
            /\ \A i \in 3..n : b[i] = a[i]
            /\ 1 \in 1..n /\ 2 \in 1..n
            /\ \A i \in 1..n : i = 1 \/ i = 2 \/ i \in 3..n
OBVIOUS

(* A marker is handled before the output held in front of it: as if it had come first. *)
LEMMA SwapSound ==
  ASSUME NEW s, NEW h \in PtyItem, NEW m \in PtyItem, NEW p \in Seq(PtyItem),
         NEW last, NEW acc, NEW pl, Sound(s, <<h, m>> \o p, last, acc, pl),
         h.kind = "output", m.kind # "output", Fresh(s, pl)
  PROVE  Sound(s, <<m, h>> \o p, last, acc, pl)
<1> DEFINE a == <<h, m>> \o p  b == <<m, h>> \o p  n == Len(p) + 2
<1>1. /\ a \in Seq(PtyItem) /\ b \in Seq(PtyItem) /\ n \in Nat /\ Len(a) = n /\ Len(b) = n
      /\ a[1] = h /\ a[2] = m /\ b[1] = m /\ b[2] = h
      /\ \A i \in 3..n : b[i] = a[i]
      /\ 1 \in 1..n /\ 2 \in 1..n
      /\ \A i \in 1..n : i = 1 \/ i = 2 \/ i \in 3..n
  BY SwapPlaces
<1>2. Sound(s, a, last, acc, pl)
  OBVIOUS
<1> HIDE DEF a, b, n
<1>3. PICK span : Stream(a, span, last, pl) /\ Owes(s, span[0])
  BY <1>2 DEF Sound, Tape
<1>4. /\ span \in [0..n -> Spans] /\ span[n] = last
      /\ \A i \in 1..n : Follows(a[i], span[i - 1], span[i], pl)
  BY <1>1, <1>3 DEF Stream
<1>5. Follows(h, span[0], span[1], pl) /\ Follows(m, span[1], span[2], pl)
  <2>1. 1 - 1 = 0 /\ 2 - 1 = 1
    OBVIOUS
  <2> QED BY <1>1, <1>4, <2>1
<1>6. Marked(a, s, acc, pl) /\ Shown(a, s, pl)
  BY <1>2 DEF Sound, Tape
<1>7. m.kind \in {"command_start", "command_end"}
  BY DEF PtyItem, OutputItem
<1>8. m.kind = "command_start" => Blank(h)
  <2>1. a[2].kind = "command_start" => Blank(a[2 - 1])
    BY <1>1, <1>6 DEF Marked
  <2> QED BY <1>1, <2>1
<1> DEFINE on == [span EXCEPT ![1] = span[2]]
<1>9. /\ on \in [0..n -> Spans] /\ on[0] = span[0] /\ on[1] = span[2] /\ on[2] = span[2]
      /\ on[n] = last
      /\ \A i \in 3..n : on[i] = span[i] /\ on[i - 1] = span[i - 1] /\ i \in 1..n
  <2>1. 0 \in 0..n /\ 1 \in 0..n /\ 2 \in 0..n /\ n \in 0..n /\ n # 1
        /\ \A i \in 3..n : i \in 0..n /\ i - 1 \in 0..n /\ i # 1 /\ i - 1 # 1 /\ i \in 1..n
    BY <1>1
  <2> QED BY <1>4, <2>1
<1> HIDE DEF on
<1>10. Follows(m, on[0], on[1], pl)
  <2>1. span[1] = span[0]
    BY <1>5 DEF Follows
  <2> QED BY <1>5, <1>9, <2>1
<1>11. Follows(h, on[1], on[2], pl)
  <2>1. h.line \in Questions /\ pl[h.line] = "prompt" => FALSE
    <3> SUFFICES ASSUME h.line \in Questions, pl[h.line] = "prompt" PROVE FALSE
      OBVIOUS
    <3>1. span[1] = <<>>
      BY <1>5 DEF Follows
    <3>2. m.kind # "command_start"
      BY <1>8, QuestionsAssumption DEF Blank
    <3>3. span[1] = <<m.question>>
      BY <1>5, <1>7, <3>2 DEF Follows
    <3>4. \A x : <<x>> # <<>>
      OBVIOUS
    <3> QED BY <3>1, <3>3, <3>4
  <2> QED BY <1>9, <2>1 DEF Follows
<1>12. ASSUME NEW i \in 1..n
       PROVE  Follows(b[i], on[i - 1], on[i], pl)
  <2>1. CASE i = 1
    <3>1. i - 1 = 0
      BY <2>1
    <3> QED BY <1>1, <1>10, <2>1, <3>1
  <2>2. CASE i = 2
    <3>1. i - 1 = 1
      BY <2>2
    <3> QED BY <1>1, <1>11, <2>2, <3>1
  <2>3. CASE i \in 3..n
    <3>1. b[i] = a[i] /\ on[i] = span[i] /\ on[i - 1] = span[i - 1]
      BY <1>1, <1>9, <2>3
    <3> QED BY <1>4, <3>1
  <2> QED BY <1>1, <2>1, <2>2, <2>3
<1>13. Stream(b, on, last, pl) /\ Owes(s, on[0])
  BY <1>1, <1>3, <1>9, <1>12 DEF Stream
<1>14. ASSUME NEW i \in 1..n
       PROVE  b[i] = m \/ b[i] = h \/ (i \in 3..n /\ b[i] = a[i])
  <2>1. i = 1 \/ i = 2 \/ i \in 3..n
    BY <1>1
  <2> QED BY <1>1, <2>1
<1>15. Marked(b, s, acc, pl)
  <2>1. \A i \in 1..n : b[i].kind # "output" => integrated
    BY <1>1, <1>6, <1>14 DEF Marked
  <2>2. ASSUME NEW i \in 1..n, b[i].kind = "command_start"
        PROVE  /\ i = 1 => Fresh(s, pl)
               /\ i > 1 => Blank(b[i - 1])
    <3>1. i # 2
      BY <1>1, <2>2
    <3>2. CASE i = 3
      <4>1. a[3].kind = "command_start"
        BY <1>1, <2>2, <3>2
      <4>2. Blank(a[3 - 1])
        BY <1>1, <1>6, <3>2, <4>1 DEF Marked
      <4>3. Blank(m)
        BY <1>1, <4>2
      <4> QED BY <4>3 DEF Blank
    <3>3. CASE i > 3
      <4>1. i \in 3..n /\ i - 1 \in 3..n
        BY <1>1, <3>3
      <4>2. b[i] = a[i] /\ b[i - 1] = a[i - 1]
        BY <1>1, <4>1
      <4>3. Blank(a[i - 1])
        BY <1>1, <1>6, <2>2, <3>3, <4>2 DEF Marked
      <4> QED BY <3>3, <4>2, <4>3
    <3>4. CASE i = 1
      BY <3>4
    <3> QED BY <1>1, <3>1, <3>2, <3>3, <3>4
  <2>3. ASSUME NEW q \in Questions, NEW i \in 1..n, IsStart(b[i], q)
        PROVE  q \in acc /\ ~Touched(s, q)
    BY <1>1, <1>6, <1>14, <2>3 DEF Marked
  <2>4. ASSUME NEW q \in Questions, NEW i \in 1..n, NEW j \in 1..n,
               IsStart(b[i], q), IsStart(b[j], q)
        PROVE  i = j
    <3>1. ~IsStart(h, q)
      BY DEF IsStart
    <3>2. ASSUME NEW k \in 3..n, IsStart(a[k], q) PROVE ~IsStart(m, q)
      BY <1>1, <1>6, <3>2 DEF Marked
    <3>3. \A k, l \in 3..n : IsStart(a[k], q) /\ IsStart(a[l], q) => k = l
      BY <1>1, <1>6 DEF Marked
    <3> QED BY <1>1, <2>4, <3>1, <3>2, <3>3
  <2> QED BY <1>1, <2>1, <2>2, <2>3, <2>4 DEF Marked
<1>16. Shown(b, s, pl)
  <2>1. \A q \in Questions : ~Shows(m, q)
    BY DEF Shows
  <2>2. ASSUME NEW q \in Questions, Screen(q, pl), NEW i \in 1..n, NEW j \in 1..n,
               Shows(b[i], q), Shows(b[j], q)
        PROVE  i = j
    <3>1. ASSUME NEW k \in 3..n, Shows(a[k], q) PROVE ~Shows(h, q)
      BY <1>1, <1>6, <2>2, <3>1 DEF Shown
    <3>2. \A k, l \in 3..n : Shows(a[k], q) /\ Shows(a[l], q) => k = l
      BY <1>1, <1>6, <2>2 DEF Shown
    <3> QED BY <1>1, <2>1, <2>2, <3>1, <3>2
  <2>3. ASSUME NEW q \in Questions, Screen(q, pl)
        PROVE  /\ \A i \in 1..n : Shows(b[i], q) => ~Touched(s, q) /\ s.line # q
               /\ s.line = q /\ Touched(s, q) => s.captured_since_output
    BY <1>1, <1>6, <1>14, <2>1, <2>3 DEF Shown
  <2>4. \A q \in Questions : pl[q] = "unused" => \A i \in 1..n : ~Shows(b[i], q)
    BY <1>1, <1>6, <1>14, <2>1 DEF Shown
  <2> QED BY <1>1, <2>2, <2>3, <2>4 DEF Shown
<1>17. Tape(b, s, last, acc, pl)
  BY <1>13, <1>15, <1>16 DEF Tape
<1>18. Sound(s, b, last, acc, pl)
  BY <1>1, <1>2, <1>17 DEF Sound
<1> QED BY <1>18 DEF b

(* Enter reads the line under the cursor, when it may. *)
LEMMA CaptureTyped ==
  ASSUME NEW s \in SessionState, Armed(s), s.line # NoQuestion
  PROVE  LET u == CaptureSubmittedLine(s)
             n == Len(s.pending)
         IN /\ u \in SessionState /\ s.line \in Questions
            /\ Len(u.pending) = n + 1
            /\ \A i \in 1..n : u.pending[i] = s.pending[i]
            /\ u.pending[n + 1].question = s.line /\ u.pending[n + 1].age = 0
            /\ u.captured_since_output /\ u.fired = s.fired /\ u.cancelled = s.cancelled
            /\ u.command_active = s.command_active /\ u.span_settled = s.span_settled
            /\ u.line = s.line /\ u.quiet = s.quiet /\ u.shape = s.shape /\ u.alt = s.alt
<1> DEFINE u == CaptureSubmittedLine(s)  n == Len(s.pending)
           x == Submitted(s.line, IF s.command_active THEN "InProgram" ELSE "PromptLine")
           all == Append(s.pending, x)
<1>1. s.line \in Questions
  BY SessionTyped DEF Lines
<1>2. x \in PendingQuestion /\ x.question = s.line /\ x.age = 0
  BY <1>1, HorizonNat DEF Submitted, PendingQuestion, Origins
<1>3. u = [s EXCEPT !.captured_since_output = TRUE, !.pending = all]
  BY DEF CaptureSubmittedLine
<1> HIDE DEF x, u
<1>4. s.pending \in Seq(PendingQuestion)
  BY SessionTyped
<1>5. /\ all \in Seq(PendingQuestion) /\ Len(all) = n + 1 /\ all[n + 1] = x
      /\ \A i \in 1..n : all[i] = s.pending[i]
  BY <1>2, <1>4
<1> HIDE DEF all
<1>6. u \in SessionState /\ u.pending = all
  BY <1>3, <1>5 DEF SessionState
<1>7. /\ u.captured_since_output /\ u.fired = s.fired /\ u.cancelled = s.cancelled
      /\ u.command_active = s.command_active /\ u.span_settled = s.span_settled
      /\ u.line = s.line /\ u.quiet = s.quiet /\ u.shape = s.shape /\ u.alt = s.alt
  BY <1>3 DEF SessionState
<1> QED BY <1>1, <1>2, <1>5, <1>6, <1>7 DEF u

(* Enter brings a question that was not heard of: the line under the cursor
   is read once while it is shown. *)
LEMMA CaptureSound ==
  ASSUME NEW s, NEW p, NEW last, NEW acc, NEW pl, Sound(s, p, last, acc, pl),
         \A q \in Questions : pl[q] \in {"unused", "prompt", "program"},
         \A q \in acc : pl[q] = "prompt"
  PROVE  Sound(CaptureSubmittedLine(s), p, last, acc, pl)
<1> DEFINE u == CaptureSubmittedLine(s)  n == Len(s.pending)  asked == s.line
<1>1. /\ s \in SessionState /\ p \in Seq(PtyItem) /\ Once(s) /\ Aging(s)
      /\ (integrated => Owned(s)) /\ Tape(p, s, last, acc, pl) /\ Known(s, acc, pl)
  BY DEF Sound
<1>2. CASE ~Armed(s) \/ s.line = NoQuestion
  <2>1. u = s
    BY <1>2 DEF CaptureSubmittedLine
  <2> QED BY <2>1
<1>3. CASE Armed(s) /\ s.line # NoQuestion
  <2>1. /\ u \in SessionState /\ asked \in Questions
        /\ Len(u.pending) = n + 1
        /\ \A i \in 1..n : u.pending[i] = s.pending[i]
        /\ u.pending[n + 1].question = asked /\ u.pending[n + 1].age = 0
        /\ u.captured_since_output /\ u.fired = s.fired /\ u.cancelled = s.cancelled
        /\ u.command_active = s.command_active /\ u.span_settled = s.span_settled
        /\ u.line = s.line
    BY <1>1, <1>3, CaptureTyped
  <2> HIDE DEF u
  <2>2. /\ n \in Nat /\ DOMAIN s.pending = 1..n /\ DOMAIN u.pending = 1..(n + 1)
        /\ \A i \in 1..(n + 1) : i \in 1..n \/ i = n + 1
        /\ \A i \in 1..n : s.pending[i] \in PendingQuestion
    BY <1>1, <2>1, SessionTyped
  <2> HIDE DEF n
  <2>3. (s.command_active \/ ~integrated) /\ ~s.captured_since_output
    BY <1>3 DEF Armed
  <2>4. pl[asked] # "unused" /\ (integrated => pl[asked] # "prompt")
    BY <1>1, <2>1, <2>3 DEF Known
  <2>5. Screen(asked, pl) /\ ~Touched(s, asked)
    <3>1. Screen(asked, pl)
      BY <2>1, <2>4 DEF Screen
    <3>2. Shown(p, s, pl)
      BY <1>1 DEF Tape
    <3> QED BY <2>1, <2>3, <3>1, <3>2 DEF Shown
  <2>6. Pending(u) = Pending(s) \cup {asked} /\ Fired(u) = Fired(s)
    <3>1. Fired(u) = Fired(s)
      BY <2>1 DEF Fired
    <3>2. \A i \in DOMAIN s.pending : i \in DOMAIN u.pending /\ u.pending[i] = s.pending[i]
      BY <2>1, <2>2
    <3>3. n + 1 \in DOMAIN u.pending
      BY <2>2
    <3>4. Pending(s) \cup {asked} \subseteq Pending(u)
      BY <2>1, <3>2, <3>3 DEF Pending
    <3>5. Pending(u) \subseteq Pending(s) \cup {asked}
      BY <2>1, <2>2 DEF Pending
    <3> QED BY <3>1, <3>4, <3>5
  <2>7. \A q : Touched(u, q) <=> Touched(s, q) \/ q = asked
    BY <2>1, <2>6 DEF Touched
  <2>8. Once(u)
    <3>1. \A i, j \in DOMAIN s.pending : s.pending[i].question = s.pending[j].question => i = j
      BY <1>1 DEF Once
    <3>2. \A i \in 1..n : s.pending[i].question # asked
      BY <2>2, <2>5 DEF Touched, Pending
    <3>3. \A i, j \in DOMAIN u.pending : u.pending[i].question = u.pending[j].question => i = j
      BY <2>1, <2>2, <3>1, <3>2
    <3>4. asked \notin Fired(s) /\ asked \notin s.cancelled
      BY <2>5 DEF Touched
    <3> QED BY <1>1, <2>1, <2>6, <3>3, <3>4 DEF Once
  <2>9. Aging(u)
    <3> SUFFICES ASSUME NEW i \in 1..(n + 1), NEW j \in 1..(n + 1), i < j
                 PROVE  u.pending[j].age <= u.pending[i].age
      BY <2>2 DEF Aging
    <3>1. i \in 1..n /\ s.pending[i] \in PendingQuestion /\ u.pending[i] = s.pending[i]
      BY <2>1, <2>2
    <3>2. u.pending[i].age \in Nat
      BY <3>1, PendingTyped
    <3>3. CASE j = n + 1
      BY <2>1, <3>2, <3>3
    <3>4. CASE j \in 1..n
      BY <1>1, <2>1, <2>2, <3>1, <3>4 DEF Aging
    <3> QED BY <2>2, <3>3, <3>4
  <2>10. integrated => Owned(u)
    BY <2>1, <2>3 DEF Owned
  <2>11. PICK span : Stream(p, span, last, pl) /\ Owes(s, span[0])
    BY <1>1 DEF Tape
  <2>12. \A q : Waiting(s, q) => Waiting(u, q)
    <3>1. \A i \in DOMAIN s.pending : i \in DOMAIN u.pending /\ u.pending[i] = s.pending[i]
      BY <2>1, <2>2
    <3> QED BY <3>1 DEF Waiting
  <2>13. Owes(u, span[0])
    BY <2>1, <2>11, <2>12 DEF Owes
  <2>14. Marked(p, u, acc, pl)
    <3>1. Marked(p, s, acc, pl)
      BY <1>1 DEF Tape
    <3>2. ASSUME NEW q \in Questions, NEW i \in 1..Len(p), IsStart(p[i], q)
          PROVE  q \in acc /\ ~Touched(u, q)
      <4>1. q \in acc /\ ~Touched(s, q) /\ integrated
        BY <3>1, <3>2 DEF Marked, IsStart
      <4>2. q # asked
        BY <2>4, <4>1
      <4> QED BY <2>7, <4>1, <4>2
    <3>3. Fresh(s, pl) => Fresh(u, pl)
      BY <2>1 DEF Fresh
    <3> QED BY <3>1, <3>2, <3>3 DEF Marked
  <2>15. Shown(p, u, pl)
    <3>1. Shown(p, s, pl)
      BY <1>1 DEF Tape
    <3>2. ASSUME NEW q \in Questions, Screen(q, pl), NEW i \in 1..Len(p), Shows(p[i], q)
          PROVE  ~Touched(u, q) /\ u.line # q
      <4>1. ~Touched(s, q) /\ s.line # q
        BY <3>1, <3>2 DEF Shown
      <4> QED BY <2>1, <2>7, <4>1
    <3> QED BY <2>1, <3>1, <3>2 DEF Shown
  <2>16. Tape(p, u, last, acc, pl)
    BY <2>11, <2>13, <2>14, <2>15 DEF Tape
  <2>17. Known(u, acc, pl)
    <3> SUFFICES ASSUME NEW q \in Questions
                 PROVE  /\ pl[q] = "unused" => ~Touched(u, q) /\ u.line # q
                        /\ integrated /\ pl[q] = "prompt" =>
                             /\ Touched(u, q) => q \in acc
                             /\ u.line = q => ~u.command_active
      BY DEF Known
    <3>1. /\ pl[q] = "unused" => ~Touched(s, q) /\ s.line # q
          /\ integrated /\ pl[q] = "prompt" =>
               /\ Touched(s, q) => q \in acc
               /\ s.line = q => ~s.command_active
      BY <1>1 DEF Known
    <3> QED BY <2>1, <2>4, <2>7, <3>1
  <2> QED BY <1>1, <2>1, <2>8, <2>9, <2>10, <2>16, <2>17 DEF Sound, u
<1> QED BY <1>2, <1>3

-----------------------------------------------------------------------------
(* Writing the stream.                                                     *)

(* What may be written after stream p, so that the span goes from last to next. *)
MayFollow(s, p, item, last, next, acc, pl) ==
  /\ item \in PtyItem /\ next \in Spans /\ Follows(item, last, next, pl)
  /\ item.kind # "output" => integrated
  /\ item.kind = "command_start" => p # <<>> /\ Blank(p[Len(p)])
  /\ \A q \in Questions :
       /\ IsStart(item, q) =>
            q \in acc /\ ~Touched(s, q) /\ \A i \in 1..Len(p) : ~IsStart(p[i], q)
       /\ Shows(item, q) =>
            /\ pl[q] # "unused"
            /\ Screen(q, pl) =>
                 ~Touched(s, q) /\ s.line # q /\ \A i \in 1..Len(p) : ~Shows(p[i], q)

(* A sequence with one more item. *)
LEMMA AppendPlaces ==
  ASSUME NEW S, NEW p \in Seq(S), NEW item \in S
  PROVE  /\ Append(p, item) \in Seq(S) /\ Len(p) \in Nat
         /\ Len(Append(p, item)) = Len(p) + 1
         /\ \A i \in 1..Len(p) : Append(p, item)[i] = p[i]
         /\ Append(p, item)[Len(p) + 1] = item
         /\ \A i \in 1..(Len(p) + 1) : i \in 1..Len(p) \/ i = Len(p) + 1
         /\ p # <<>> => Len(p) \in 1..Len(p) /\ Append(p, item)[Len(p)] = p[Len(p)]
         /\ Len(p) + 1 > 1 <=> p # <<>>
OBVIOUS

(* Writing such an item keeps the session in step with the stream. *)
LEMMA AppendSound ==
  ASSUME NEW s, NEW p, NEW item, NEW last, NEW next, NEW acc, NEW pl,
         Sound(s, p, last, acc, pl), MayFollow(s, p, item, last, next, acc, pl)
  PROVE  Sound(s, Append(p, item), next, acc, pl)
<1> DEFINE r == Append(p, item)  n == Len(p)
<1>1. p \in Seq(PtyItem) /\ item \in PtyItem
  BY DEF Sound, MayFollow
<1>2. /\ r \in Seq(PtyItem) /\ n \in Nat /\ Len(r) = n + 1
      /\ \A i \in 1..n : r[i] = p[i]
      /\ r[n + 1] = item
      /\ \A i \in 1..(n + 1) : i \in 1..n \/ i = n + 1
      /\ p # <<>> => n \in 1..n /\ r[n] = p[n]
      /\ n + 1 > 1 <=> p # <<>>
  BY <1>1, AppendPlaces
<1> HIDE DEF r, n
<1>3. PICK span : Stream(p, span, last, pl) /\ Owes(s, span[0])
  BY DEF Sound, Tape
<1>4. /\ span \in [0..n -> Spans] /\ span[n] = last
      /\ \A i \in 1..n : Follows(p[i], span[i - 1], span[i], pl)
  BY <1>3 DEF Stream, n
<1> DEFINE on == [i \in 0..(n + 1) |-> IF i = n + 1 THEN next ELSE span[i]]
<1>5. /\ on \in [0..(n + 1) -> Spans] /\ on[n + 1] = next /\ on[n] = last /\ on[0] = span[0]
      /\ \A i \in 0..n : on[i] = span[i]
  <2>1. next \in Spans
    BY DEF MayFollow
  <2>2. \A i \in 0..(n + 1) : i # n + 1 => i \in 0..n
    BY <1>2
  <2>3. n + 1 \in 0..(n + 1) /\ n # n + 1 /\ 0 # n + 1 /\ n \in 0..n /\ 0 \in 0..n
        /\ \A i \in 0..n : i \in 0..(n + 1) /\ i # n + 1
    BY <1>2
  <2> QED BY <1>4, <2>1, <2>2, <2>3
<1> HIDE DEF on
<1>6. ASSUME NEW i \in 1..(n + 1)
      PROVE  Follows(r[i], on[i - 1], on[i], pl)
  <2>1. CASE i \in 1..n
    <3>1. i - 1 \in 0..n /\ i \in 0..n
      BY <1>2, <2>1
    <3>2. r[i] = p[i] /\ on[i - 1] = span[i - 1] /\ on[i] = span[i]
      BY <1>2, <1>5, <2>1, <3>1
    <3> QED BY <1>4, <2>1, <3>2
  <2>2. CASE i = n + 1
    <3>1. i - 1 = n
      BY <1>2, <2>2
    <3>2. Follows(item, last, next, pl)
      BY DEF MayFollow
    <3> QED BY <1>2, <1>5, <2>2, <3>1, <3>2
  <2> QED BY <1>2, <2>1, <2>2
<1>7. Stream(r, on, next, pl) /\ Owes(s, on[0])
  BY <1>2, <1>3, <1>5, <1>6 DEF Stream
<1>8. Marked(r, s, acc, pl)
  <2>1. Marked(p, s, acc, pl)
    BY DEF Sound, Tape
  <2>2. \A i \in 1..(n + 1) : r[i].kind # "output" => integrated
    BY <1>2, <2>1 DEF Marked, MayFollow, n
  <2>3. ASSUME NEW i \in 1..(n + 1), r[i].kind = "command_start"
        PROVE  /\ i = 1 => Fresh(s, pl)
               /\ i > 1 => Blank(r[i - 1])
    <3>1. CASE i \in 1..n
      <4>1. /\ i = 1 => Fresh(s, pl)
            /\ i > 1 => Blank(p[i - 1])
        BY <1>2, <2>1, <2>3, <3>1 DEF Marked, n
      <4>2. i > 1 => i - 1 \in 1..n
        BY <1>2, <3>1
      <4> QED BY <1>2, <4>1, <4>2
    <3>2. CASE i = n + 1
      <4>1. p # <<>> /\ Blank(p[n])
        BY <1>2, <2>3, <3>2 DEF MayFollow, n
      <4>2. i - 1 = n /\ i > 1 /\ i # 1
        BY <1>2, <3>2, <4>1
      <4> QED BY <1>2, <4>1, <4>2
    <3> QED BY <1>2, <3>1, <3>2
  <2>4. ASSUME NEW q \in Questions, NEW i \in 1..(n + 1), IsStart(r[i], q)
        PROVE  q \in acc /\ ~Touched(s, q)
    <3>1. CASE i \in 1..n
      BY <1>2, <2>1, <2>4, <3>1 DEF Marked, n
    <3>2. CASE i = n + 1
      BY <1>2, <2>4, <3>2 DEF MayFollow
    <3> QED BY <1>2, <3>1, <3>2
  <2>5. ASSUME NEW q \in Questions, NEW i \in 1..(n + 1), NEW j \in 1..(n + 1),
               IsStart(r[i], q), IsStart(r[j], q)
        PROVE  i = j
    <3>1. \A k \in 1..n : r[k] = p[k]
      BY <1>2
    <3>2. IsStart(item, q) => \A k \in 1..n : ~IsStart(p[k], q)
      BY DEF MayFollow, n
    <3>3. \A k, l \in 1..n : IsStart(p[k], q) /\ IsStart(p[l], q) => k = l
      BY <2>1 DEF Marked, n
    <3> QED BY <1>2, <2>5, <3>2, <3>3
  <2> QED BY <1>2, <2>2, <2>3, <2>4, <2>5 DEF Marked
<1>9. Shown(r, s, pl)
  <2>1. Shown(p, s, pl)
    BY DEF Sound, Tape
  <2>2. ASSUME NEW q \in Questions, Screen(q, pl), NEW i \in 1..(n + 1), Shows(r[i], q)
        PROVE  ~Touched(s, q) /\ s.line # q
    <3>1. CASE i \in 1..n
      BY <1>2, <2>1, <2>2, <3>1 DEF Shown, n
    <3>2. CASE i = n + 1
      BY <1>2, <2>2, <3>2 DEF MayFollow
    <3> QED BY <1>2, <3>1, <3>2
  <2>3. ASSUME NEW q \in Questions, Screen(q, pl), NEW i \in 1..(n + 1), NEW j \in 1..(n + 1),
               Shows(r[i], q), Shows(r[j], q)
        PROVE  i = j
    <3>1. Shows(item, q) => \A k \in 1..n : ~Shows(p[k], q)
      BY <2>3 DEF MayFollow, n
    <3>2. \A k, l \in 1..n : Shows(p[k], q) /\ Shows(p[l], q) => k = l
      BY <2>1, <2>3 DEF Shown, n
    <3> QED BY <1>2, <2>3, <3>1, <3>2
  <2>4. ASSUME NEW q \in Questions, pl[q] = "unused", NEW i \in 1..(n + 1)
        PROVE  ~Shows(r[i], q)
    <3>1. CASE i \in 1..n
      BY <1>2, <2>1, <2>4, <3>1 DEF Shown, n
    <3>2. CASE i = n + 1
      BY <1>2, <2>4, <3>2 DEF MayFollow
    <3> QED BY <1>2, <3>1, <3>2
  <2> QED BY <1>2, <2>1, <2>2, <2>3, <2>4 DEF Shown
<1>10. Tape(r, s, next, acc, pl)
  BY <1>7, <1>8, <1>9 DEF Tape
<1> QED BY <1>2, <1>10 DEF Sound, r

(* A line without a question may always follow. *)
LEMMA BlankSound ==
  ASSUME NEW s, NEW p, NEW item, NEW last, NEW acc, NEW pl, Sound(s, p, last, acc, pl),
         item \in PtyItem, Blank(item)
  PROVE  Sound(s, Append(p, item), last, acc, pl)
<1>1. last \in Spans
  <2>1. PICK span : Stream(p, span, last, pl)
    BY DEF Sound, Tape
  <2>2. Len(p) \in 0..Len(p)
    BY DEF Sound
  <2> QED BY <2>1, <2>2 DEF Stream
<1>2. MayFollow(s, p, item, last, last, acc, pl)
  BY <1>1, QuestionsAssumption DEF MayFollow, Blank, Follows, IsStart, Shows
<1> QED BY <1>2, AppendSound

(* The shell may accept more lines. *)
LEMMA MoreAccepted ==
  ASSUME NEW s, NEW p, NEW last, NEW acc, NEW pl, Sound(s, p, last, acc, pl),
         NEW more, acc \subseteq more
  PROVE  Sound(s, p, last, more, pl)
<1>1. Marked(p, s, acc, pl) => Marked(p, s, more, pl)
  BY DEF Marked
<1>2. Known(s, acc, pl) => Known(s, more, pl)
  BY DEF Known
<1> QED BY <1>1, <1>2 DEF Sound, Tape

(* The question that is typed is of nothing yet. *)
LEMMA TypedFresh ==
  ASSUME NEW s, NEW p, NEW last, NEW acc, NEW pl, Sound(s, p, last, acc, pl),
         pl \in [Questions -> {"unused", "prompt", "program"}],
         NEW q \in Questions, pl[q] = "unused", NEW where \in {"prompt", "program"}
  PROVE  /\ ~Touched(s, q) /\ s.line # q /\ \A i \in 1..Len(p) : ~Shows(p[i], q)
         /\ Sound(s, p, last, acc, [pl EXCEPT ![q] = where])
<1> DEFINE new == [pl EXCEPT ![q] = where]
<1>1. new[q] = where /\ \A o \in Questions : o # q => new[o] = pl[o]
  OBVIOUS
<1> HIDE DEF new
<1>2. ~Touched(s, q) /\ s.line # q
  BY DEF Sound, Known
<1>3. \A i \in 1..Len(p) : ~Shows(p[i], q)
  BY DEF Sound, Tape, Shown
<1>4. Known(s, acc, new)
  <2>1. Known(s, acc, pl)
    BY DEF Sound
  <2> SUFFICES ASSUME NEW o \in Questions
               PROVE  /\ new[o] = "unused" => ~Touched(s, o) /\ s.line # o
                      /\ integrated /\ new[o] = "prompt" =>
                           /\ Touched(s, o) => o \in acc
                           /\ s.line = o => ~s.command_active
    BY DEF Known
  <2>2. CASE o = q
    BY <1>2, <2>2
  <2>3. CASE o # q
    BY <1>1, <2>1, <2>3 DEF Known
  <2> QED BY <2>2, <2>3
<1>5. Shown(p, s, new)
  <2>1. Shown(p, s, pl)
    BY DEF Sound, Tape
  <2>2. ASSUME NEW o \in Questions, Screen(o, new)
        PROVE  /\ \A i, j \in 1..Len(p) : Shows(p[i], o) /\ Shows(p[j], o) => i = j
               /\ \A i \in 1..Len(p) : Shows(p[i], o) => ~Touched(s, o) /\ s.line # o
               /\ s.line = o /\ Touched(s, o) => s.captured_since_output
    <3>1. CASE o = q
      BY <1>2, <1>3, <3>1
    <3>2. CASE o # q
      <4>1. Screen(o, pl)
        BY <1>1, <2>2, <3>2 DEF Screen
      <4> QED BY <2>1, <4>1 DEF Shown
    <3> QED BY <3>1, <3>2
  <2>3. \A o \in Questions : new[o] = "unused" => \A i \in 1..Len(p) : ~Shows(p[i], o)
    BY <1>1, <1>3, <2>1 DEF Shown
  <2> QED BY <2>2, <2>3 DEF Shown
<1>6. ASSUME NEW span, Stream(p, span, last, pl) PROVE Stream(p, span, last, new)
  <2>1. ASSUME NEW i \in 1..Len(p) PROVE Follows(p[i], span[i - 1], span[i], new)
    <3>1. Follows(p[i], span[i - 1], span[i], pl)
      BY <1>6 DEF Stream
    <3>2. p[i].kind = "output" => p[i].line # q
      BY <1>3 DEF Shows
    <3> QED BY <1>1, <3>1, <3>2 DEF Follows
  <2> QED BY <1>6, <2>1 DEF Stream
<1>7. Marked(p, s, acc, new)
  <2>1. Marked(p, s, acc, pl)
    BY DEF Sound, Tape
  <2>2. Fresh(s, pl) => Fresh(s, new)
    BY <1>1, <1>2 DEF Fresh
  <2> QED BY <2>1, <2>2 DEF Marked
<1>8. Tape(p, s, last, acc, new)
  BY <1>5, <1>6, <1>7 DEF Sound, Tape
<1>9. Sound(s, p, last, acc, new)
  BY <1>4, <1>8 DEF Sound
<1> QED BY <1>2, <1>3, <1>9 DEF new

-----------------------------------------------------------------------------
(* Silence, and types.                                                     *)

(* What keeps the queue and may add to it a question asked just now. *)
Extends(s, u) ==
  /\ s \in SessionState /\ u \in SessionState
  /\ u.fired = s.fired
  /\ \A i \in DOMAIN s.pending :
       /\ i \in DOMAIN u.pending
       /\ u.pending[i].question = s.pending[i].question
       /\ u.pending[i].origin = s.pending[i].origin
  /\ \A i \in DOMAIN u.pending : u.pending[i].question \in Pending(s) \/ u.pending[i].age = 0

(* A queue left alone, *)
LEMMA SameExtends ==
  ASSUME NEW s \in SessionState, NEW u \in SessionState,
         u.fired = s.fired, u.pending = s.pending
  PROVE  Extends(s, u)
<1>1. \A i \in DOMAIN s.pending : s.pending[i].question \in Pending(s)
  BY DEF Pending
<1> QED BY <1>1 DEF Extends

(* a queue grown older, *)
LEMMA OlderExtends ==
  ASSUME NEW s \in SessionState, NEW u \in SessionState, Older(s, u)
  PROVE  Extends(s, u)
<1>1. \A i \in DOMAIN s.pending : s.pending[i].question \in Pending(s)
  BY DEF Pending
<1> QED BY <1>1 DEF Extends, Older

(* and a queue with one more question. *)
LEMMA LongerExtends ==
  ASSUME NEW s \in SessionState, NEW u \in SessionState, u.fired = s.fired,
         Len(u.pending) = Len(s.pending) + 1,
         \A i \in 1..Len(s.pending) : u.pending[i] = s.pending[i],
         u.pending[Len(s.pending) + 1].age = 0
  PROVE  Extends(s, u)
<1> DEFINE n == Len(s.pending)
<1>1. n \in Nat /\ DOMAIN s.pending = 1..n /\ DOMAIN u.pending = 1..(n + 1)
  BY SessionTyped
<1>2. \A i \in 1..n : s.pending[i].question \in Pending(s)
  BY <1>1 DEF Pending
<1> HIDE DEF n
<1>3. /\ \A i \in 1..n : i \in 1..(n + 1)
      /\ \A i \in 1..(n + 1) : i \in 1..n \/ i = n + 1
  BY <1>1
<1> QED BY <1>1, <1>2, <1>3 DEF Extends, n

(* Output leaves the queue alone, and starts the silence again. *)
LEMMA RecordExtends ==
  ASSUME NEW s \in SessionState, NEW item \in PtyItem, item.kind = "output"
  PROVE  Extends(s, RecordOutput(s, item)) /\ RecordOutput(s, item).quiet = 0
<1>1. item.line \in Lines /\ item.shape \in Shapes /\ item.alt \in BOOLEAN
  BY DEF PtyItem, OutputItem
<1>2. 0 \in 0..Horizon
  BY HorizonNat
<1> DEFINE u == RecordOutput(s, item)
<1>3. u \in SessionState
  BY <1>1, <1>2 DEF RecordOutput, SessionState
<1>4. u.fired = s.fired /\ u.pending = s.pending /\ u.quiet = 0
      /\ u.command_active = s.command_active
  BY DEF RecordOutput, SessionState
<1> HIDE DEF u
<1>5. Extends(s, u)
  BY <1>3, <1>4, SameExtends
<1> QED BY <1>4, <1>5 DEF u

(* A start marker may add a question. *)
LEMMA StartExtends ==
  ASSUME NEW s \in SessionState, NEW asked \in Lines
  PROVE  Extends(s, CommandStart(s, asked)) /\ CommandStart(s, asked).command_active
<1> DEFINE u == CommandStart(s, asked)  n == Len(s.pending)
           x == Submitted(asked, "PromptLine")
           all == IF ~s.command_active /\ asked # NoQuestion
                  THEN Append(s.pending, x) ELSE s.pending
<1>1. s.pending \in Seq(PendingQuestion) /\ s.span_settled \in BOOLEAN
      /\ s.command_active \in BOOLEAN /\ n \in Nat
  BY SessionTyped
<1>2. asked # NoQuestion => x \in PendingQuestion /\ x.age = 0
  <2>1. asked # NoQuestion => asked \in Questions
    BY DEF Lines
  <2> QED BY <2>1, HorizonNat DEF Submitted, PendingQuestion, Origins
<1> HIDE DEF x
<1>3. /\ all \in Seq(PendingQuestion)
      /\ \/ all = s.pending
         \/ /\ Len(all) = n + 1 /\ all[n + 1].age = 0
            /\ \A i \in 1..n : all[i] = s.pending[i]
  <2>1. CASE ~s.command_active /\ asked # NoQuestion
    <3>1. all = Append(s.pending, x) /\ x \in PendingQuestion /\ x.age = 0
      BY <1>2, <2>1
    <3> HIDE DEF all
    <3> QED BY <1>1, <3>1
  <2>2. CASE ~(~s.command_active /\ asked # NoQuestion)
    <3>1. all = s.pending
      BY <2>2
    <3> HIDE DEF all
    <3> QED BY <1>1, <3>1
  <2> QED BY <2>1, <2>2
<1>4. u = [s EXCEPT !.span_settled = s.span_settled /\ s.command_active,
                    !.pending = all, !.command_active = TRUE]
  BY <1>1 DEF CommandStart, SessionState, x
<1> HIDE DEF all, u
<1>5. u \in SessionState /\ u.pending = all /\ u.command_active /\ u.fired = s.fired
  <2>1. (s.span_settled /\ s.command_active) \in BOOLEAN
    OBVIOUS
  <2> QED BY <1>3, <1>4, <2>1 DEF SessionState
<1>6. Extends(s, u)
  BY <1>3, <1>5, SameExtends, LongerExtends
<1> QED BY <1>5, <1>6 DEF u

(* Enter may add a question. *)
LEMMA CaptureExtends ==
  ASSUME NEW s \in SessionState
  PROVE  Extends(s, CaptureSubmittedLine(s))
<1> DEFINE u == CaptureSubmittedLine(s)
<1>1. CASE ~Armed(s) \/ s.line = NoQuestion
  <2>1. u = s
    BY <1>1 DEF CaptureSubmittedLine
  <2> QED BY <2>1, SameExtends
<1>2. CASE Armed(s) /\ s.line # NoQuestion
  <2>1. /\ u \in SessionState
        /\ Len(u.pending) = Len(s.pending) + 1
        /\ \A i \in 1..Len(s.pending) : u.pending[i] = s.pending[i]
        /\ u.pending[Len(s.pending) + 1].age = 0
        /\ u.fired = s.fired
    BY <1>2, CaptureTyped
  <2> HIDE DEF u
  <2>2. Extends(s, u)
    BY <2>1, LongerExtends
  <2> QED BY <2>2 DEF u
<1> QED BY <1>1, <1>2

-----------------------------------------------------------------------------
(* What a poll sends as settled was silent, and had waited. *)
LEMMA PolledSettles ==
  ASSUME NEW s \in SessionState,
         NEW n \in Len(s.fired) + 1 .. Len(Polled(s).fired),
         Polled(s).fired[n].completion = "Stabilized"
  PROVE  /\ Polled(s).quiet > 0
         /\ \E k \in DOMAIN s.pending :
              /\ Polled(s).fired[n].question = s.pending[k].question
              /\ s.pending[k].age > 0
<1> DEFINE u == Polled(s)
<1> HIDE DEF u
<1>1. /\ u \in SessionState /\ SameOtherwise(s, u)
      /\ u = s \/ \E f, g : Parted(s, u, f, g)
  BY PolledParts DEF u
<1>2. n \in Len(s.fired) + 1 .. Len(u.fired) /\ u.fired[n].completion = "Stabilized"
  BY DEF u
<1>3. Len(s.fired) \in Nat /\ Len(u.fired) \in Nat /\ DOMAIN u.fired = 1..Len(u.fired)
  BY <1>1, SessionTyped
<1>4. u # s
  BY <1>2, <1>3
<1>5. PICK f, g : Parted(s, u, f, g)
  BY <1>1, <1>4
<1>6. n \in DOMAIN u.fired /\ n \notin 1..Len(s.fired)
  BY <1>2, <1>3
<1>7. PICK a \in 1..Len(g) : n = Len(s.fired) + a
  BY <1>5, <1>6 DEF Parted
<1> DEFINE k == g[a]
<1>8. /\ k \in DOMAIN s.pending
      /\ u.fired[n] = Sent(s, s.pending[k]) /\ u.fired[n].question = s.pending[k].question
  BY <1>5, <1>7 DEF Parted
<1> HIDE DEF k
<1>9. s.pending[k] \in PendingQuestion
  BY <1>8, SessionTyped
<1> DEFINE p == s.pending[k]
<1>10. Stabilized(s, p)
  <2>1. Why(s, p) = "Stabilized"
    BY <1>2, <1>8 DEF Sent, Fire
  <2> QED BY <2>1 DEF Why
<1>11. p.origin \in Origins /\ p.age \in Nat /\ s.shape \in Shapes /\ s.quiet \in Nat
  BY <1>9, PendingTyped, SessionTyped, HorizonNat
<1> HIDE DEF p
<1>12. Tier[p.origin][s.shape] \in Nat /\ Tier[p.origin][s.shape] > 0
  BY <1>11, TimesAssumption
<1>13. s.quiet > 0 /\ p.age > 0
  BY <1>10, <1>11, <1>12 DEF Stabilized, Lesser
<1>14. u.quiet = s.quiet
  BY <1>1 DEF SameOtherwise
<1> QED BY <1>8, <1>13, <1>14 DEF p, u

Silent(s, u) ==
  \A i \in Len(s.fired) + 1 .. Len(u.fired) :
    u.fired[i].completion = "Stabilized" =>
      /\ u.fired[i].question \in Pending(s)
      /\ u.quiet > 0

(* What the poll after such a change sends as settled was pending before. *)
LEMMA ExtendsSilent ==
  ASSUME NEW s, NEW u, Extends(s, u)
  PROVE  Silent(s, Polled(u))
<1> SUFFICES ASSUME NEW i \in Len(u.fired) + 1 .. Len(Polled(u).fired),
                    Polled(u).fired[i].completion = "Stabilized"
             PROVE  Polled(u).fired[i].question \in Pending(s) /\ Polled(u).quiet > 0
  BY DEF Extends, Silent
<1>1. u \in SessionState
  BY DEF Extends
<1>2. /\ Polled(u).quiet > 0
      /\ \E k \in DOMAIN u.pending : /\ Polled(u).fired[i].question = u.pending[k].question
                                     /\ u.pending[k].age > 0
  BY <1>1, PolledSettles
<1>3. PICK k \in DOMAIN u.pending : /\ Polled(u).fired[i].question = u.pending[k].question
                                    /\ u.pending[k].age > 0
  BY <1>2
<1>4. u.pending[k].question \in Pending(s)
  BY <1>3 DEF Extends
<1> QED BY <1>2, <1>3, <1>4

(* A step that sends nothing. *)
LEMMA NothingFired ==
  ASSUME NEW s \in SessionState, NEW u, u.fired = s.fired
  PROVE  Silent(s, u)
<1>1. Len(s.fired) \in Nat
  BY SessionTyped
<1>2. Len(s.fired) + 1 .. Len(s.fired) = {}
  BY <1>1
<1> QED BY <1>2 DEF Silent

(* A queue that is empty is left alone by the poll. *)
LEMMA PolledEmpty ==
  ASSUME NEW u, u.pending = <<>>
  PROVE  Polled(u) = u
BY DEF Polled

(* What is held back is one item of output. *)
LEMMA HeldTyped ==
  ASSUME TypeOK
  PROVE  /\ answer.holding \in BOOLEAN /\ answer.lost \in BOOLEAN
         /\ answer.held # <<>> =>
              /\ answer.held[1] \in OutputItem /\ answer.held[1] \in PtyItem
              /\ answer.held[1].kind = "output" /\ answer.held = <<answer.held[1]>>
<1>1. /\ answer.holding \in BOOLEAN /\ answer.lost \in BOOLEAN
      /\ answer.held \in {<<>>} \cup {<<item>> : item \in OutputItem}
  BY DEF TypeOK, Answer
<1>2. ASSUME answer.held # <<>>
      PROVE  /\ answer.held[1] \in OutputItem /\ answer.held[1] \in PtyItem
             /\ answer.held[1].kind = "output" /\ answer.held = <<answer.held[1]>>
  <2>1. PICK item \in OutputItem : answer.held = <<item>>
    BY <1>1, <1>2
  <2>2. answer.held[1] = item
    BY <2>1
  <2> QED BY <2>1, <2>2 DEF OutputItem, PtyItem
<1> QED BY <1>1, <1>2

(* Release is output of this moment, or nothing. *)
LEMMA FreedIs ==
  ASSUME TypeOK, NEW s \in SessionState
  PROVE  /\ Extends(s, Freed(s)) /\ Freed(s) \in SessionState
         /\ Freed(s).pending = s.pending /\ Freed(s).command_active = s.command_active
         /\ Freed(s).fired = s.fired
         /\ answer.held = <<>> => Freed(s) = s
         /\ answer.held # <<>> => Freed(s).quiet = 0
<1>1. CASE answer.held = <<>>
  <2>1. Freed(s) = s
    BY <1>1 DEF Freed
  <2> QED BY <1>1, <2>1, SameExtends
<1>2. CASE answer.held # <<>>
  <2> DEFINE u == RecordOutput(s, answer.held[1])
  <2>1. Freed(s) = u
    BY <1>2 DEF Freed
  <2>2. Extends(s, u) /\ u.quiet = 0
    BY <1>2, HeldTyped, RecordExtends
  <2>3. u.pending = s.pending /\ u.command_active = s.command_active /\ u.fired = s.fired
    BY DEF RecordOutput, SessionState
  <2> HIDE DEF u
  <2>4. u \in SessionState
    BY <2>2 DEF Extends
  <2> QED BY <1>2, <2>1, <2>2, <2>3, <2>4
<1> QED BY <1>1, <1>2

(* Nothing fires on Ctrl+C. *)
LEMMA InterruptSends ==
  ASSUME TypeOK, PressInterrupt
  PROVE  /\ session' \in SessionState /\ session'.fired = session.fired
         /\ session.alt => session' = session
         /\ ~session.alt => /\ session' = Freed(Interrupted(session))
                            /\ session'.pending = <<>>
<1>1. session \in SessionState
  BY DEF TypeOK
<1>2. CASE session.alt
  <2>1. session' = session
    BY <1>2 DEF PressInterrupt, Polled
  <2> QED BY <1>1, <1>2, <2>1
<1>3. CASE ~session.alt
  <2> DEFINE s == Interrupted(session)  u == Freed(s)
  <2>1. s \in SessionState /\ s.pending = <<>> /\ s.fired = session.fired
    <3>1. s \in SessionState
      BY <1>1, InterruptedQuieter
    <3>2. s.pending = <<>> /\ s.fired = session.fired
      BY <1>1, <1>3 DEF Interrupted, SessionState
    <3> QED BY <3>1, <3>2
  <2>2. session' = Polled(u)
    BY <1>3 DEF PressInterrupt
  <2> HIDE DEF s
  <2>3. u \in SessionState /\ u.pending = s.pending /\ u.fired = s.fired
    BY <2>1, FreedIs
  <2>4. Polled(u) = u
    <3> HIDE DEF u
    <3> QED BY <2>1, <2>3, PolledEmpty
  <2> HIDE DEF u
  <2>5. session' = u /\ u.pending = <<>> /\ u.fired = session.fired
    BY <2>1, <2>2, <2>3, <2>4
  <2> QED BY <1>3, <2>3, <2>5 DEF u, s
<1> QED BY <1>2, <1>3

(* Each item of the stream. *)
LEMMA TakeSilent ==
  ASSUME NEW s \in SessionState, NEW item \in PtyItem
  PROVE  /\ Handled(s, item) \in SessionState
         /\ Owned(s) => Owned(Handled(s, item))
         /\ Silent(s, Polled(Handled(s, item)))
<1>1. item.kind \in {"output", "command_start", "command_end"}
  BY DEF PtyItem, OutputItem
<1>2. CASE item.kind = "output"
  <2> DEFINE u == RecordOutput(s, item)
  <2>1. Handled(s, item) = u
    BY <1>2 DEF Handled
  <2>2. u.pending = s.pending /\ u.command_active = s.command_active
    BY DEF RecordOutput, SessionState
  <2>3. Extends(s, u)
    BY <1>2, RecordExtends
  <2> HIDE DEF u
  <2> QED BY <2>1, <2>2, <2>3, ExtendsSilent DEF Extends, Owned
<1>3. CASE item.kind = "command_start"
  <2> DEFINE u == CommandStart(s, item.question)
  <2>1. Handled(s, item) = u /\ item.question \in Lines
    BY <1>3 DEF Handled, PtyItem, OutputItem
  <2>2. Extends(s, u) /\ u.command_active
    BY <2>1, StartExtends
  <2> HIDE DEF u
  <2> QED BY <2>1, <2>2, ExtendsSilent DEF Extends, Owned
<1>4. CASE item.kind = "command_end"
  <2> DEFINE u == CommandEnd(s, item.question)
  <2>1. Handled(s, item) = u /\ item.question \in Lines
    BY <1>4 DEF Handled, PtyItem, OutputItem
  <2>2. /\ u \in SessionState /\ u.pending = <<>>
        /\ \A i \in Len(s.fired) + 1 .. Len(u.fired) : u.fired[i].completion = "CommandEnd"
    BY <2>1, EndFires
  <2> HIDE DEF u
  <2>3. Polled(u) = u
    BY <2>2, PolledEmpty
  <2> QED BY <2>1, <2>2, <2>3 DEF Silent, Owned
<1> QED BY <1>1, <1>2, <1>3, <1>4

(* Types, the span's ownership and the silence of one step, whatever the shell reports and *)
(* the user types.                                                                        *)
SessionStep(s, u) ==
  /\ u \in SessionState
  /\ integrated /\ Owned(s) => Owned(u)
  /\ Silent(s, u)

(* The poll keeps types and ownership. *)
LEMMA PolledKeeps ==
  ASSUME NEW s \in SessionState
  PROVE  Polled(s) \in SessionState /\ (Owned(s) => Owned(Polled(s)))
BY PolledQuieter DEF Quieter

(* Each message of the processor. *)
LEMMA ProcessorStep ==
  ASSUME TypeOK,
         \/ TakePty \/ AnswerEnds \/ TimePasses \/ Repaint \/ PressEnter \/ PressInterrupt
  PROVE  SessionStep(session, session')
<1>1. session \in SessionState /\ pty \in Seq(PtyItem)
  BY DEF TypeOK
<1>2. ASSUME NEW u, Extends(session, u), Owned(session) => Owned(u), session' = Polled(u)
      PROVE  SessionStep(session, session')
  <2>1. u \in SessionState /\ Silent(session, Polled(u))
    BY <1>2, ExtendsSilent DEF Extends
  <2>2. Polled(u) \in SessionState /\ (Owned(u) => Owned(Polled(u)))
    BY <2>1, PolledKeeps
  <2> QED BY <1>2, <2>1, <2>2 DEF SessionStep
<1>7. CASE AnswerEnds
  <2> DEFINE u == Freed(session)
  <2>1. session' = Polled(u)
    BY <1>7 DEF AnswerEnds
  <2>2. /\ Extends(session, u) /\ u.pending = session.pending
        /\ u.command_active = session.command_active
    BY <1>1, FreedIs
  <2> HIDE DEF u
  <2> QED BY <1>2, <2>1, <2>2 DEF Owned
<1>8. CASE TakePty
  <2> DEFINE item == Head(pty)
  <2>1. item \in PtyItem
    BY <1>1, <1>8 DEF TakePty
  <2>2. session' = Polled(session) \/ session' = Polled(Handled(session, item))
    BY <1>8 DEF TakePty, TakeOutput, Handled
  <2> HIDE DEF item
  <2>3. CASE session' = Polled(session)
    BY <1>1, <1>2, <2>3, SameExtends
  <2>4. CASE session' = Polled(Handled(session, item))
    <3> DEFINE u == Handled(session, item)
    <3>1. u \in SessionState /\ (Owned(session) => Owned(u)) /\ Silent(session, Polled(u))
      BY <1>1, <2>1, TakeSilent
    <3> HIDE DEF u
    <3>2. Polled(u) \in SessionState /\ (Owned(u) => Owned(Polled(u)))
      BY <3>1, PolledKeeps
    <3> QED BY <2>4, <3>1, <3>2 DEF SessionStep, u
  <2> QED BY <2>2, <2>3, <2>4
<1>3. CASE TimePasses
  <2> DEFINE u == Later(session)
  <2>1. session' = Polled(u) \/ session' = u
    BY <1>3 DEF TimePasses, Later, Aged
  <2>2. u \in SessionState /\ Older(session, u)
    BY <1>1, LaterOlder
  <2> HIDE DEF u
  <2>3. Quieter(session, u) /\ Extends(session, u)
    BY <1>1, <2>2, OlderQuieter, OlderExtends
  <2>4. Owned(session) => Owned(u)
    BY <2>3 DEF Quieter
  <2>5. /\ Polled(u) \in SessionState /\ (Owned(u) => Owned(Polled(u)))
        /\ Silent(session, Polled(u))
    BY <2>2, <2>3, PolledKeeps, ExtendsSilent
  <2>6. Silent(session, u)
    BY <1>1, <2>3, NothingFired DEF Extends
  <2> QED BY <2>1, <2>2, <2>4, <2>5, <2>6 DEF SessionStep
<1>4. CASE Repaint
  <2>1. PICK line \in {session.line, NoQuestion}, shape \in Shapes :
          session' = Polled([session EXCEPT !.line = line, !.shape = shape])
    BY <1>4 DEF Repaint
  <2> DEFINE u == [session EXCEPT !.line = line, !.shape = shape]
  <2>2. u \in SessionState /\ Quieter(session, u)
    BY <1>1, RepaintQuieter
  <2>3. u.fired = session.fired /\ u.pending = session.pending
    BY <1>1 DEF SessionState
  <2> HIDE DEF u
  <2>4. Extends(session, u)
    BY <1>1, <2>2, <2>3, SameExtends
  <2>5. /\ Polled(u) \in SessionState /\ (Owned(u) => Owned(Polled(u)))
        /\ Silent(session, Polled(u))
    BY <2>2, <2>4, PolledKeeps, ExtendsSilent
  <2>6. session' = Polled(u)
    BY <2>1 DEF u
  <2> QED BY <2>2, <2>5, <2>6 DEF SessionStep, Quieter
<1>5. CASE PressEnter
  <2> DEFINE u == CaptureSubmittedLine(session)
  <2>1. session' = Polled(u)
    BY <1>5 DEF PressEnter
  <2>2. Extends(session, u)
    BY <1>1, CaptureExtends
  <2>3. integrated /\ Owned(session) => Owned(u)
    <3>1. CASE ~Armed(session) \/ session.line = NoQuestion
      BY <3>1 DEF CaptureSubmittedLine
    <3>2. CASE Armed(session) /\ session.line # NoQuestion
      <4>1. u.command_active = session.command_active
        BY <1>1, <3>2, CaptureTyped
      <4> QED BY <3>2, <4>1 DEF Armed, Owned
    <3> QED BY <3>1, <3>2
  <2> HIDE DEF u
  <2>4. /\ Polled(u) \in SessionState /\ (Owned(u) => Owned(Polled(u)))
        /\ Silent(session, Polled(u))
    BY <2>2, PolledKeeps, ExtendsSilent DEF Extends
  <2> QED BY <2>1, <2>3, <2>4 DEF SessionStep
<1>6. CASE PressInterrupt
  <2>1. /\ session' \in SessionState /\ session'.fired = session.fired
        /\ session' = session \/ session'.pending = <<>>
    BY <1>6, InterruptSends
  <2>2. Silent(session, session')
    BY <1>1, <2>1, NothingFired
  <2> QED BY <2>1, <2>2 DEF SessionStep, Owned
<1> QED BY <1>3, <1>4, <1>5, <1>6, <1>7, <1>8

(* Each step of the shell, its programs and the user. *)
LEMMA EnvironmentStep ==
  ASSUME TypeOK, session' = session
  PROVE  SessionStep(session, session')
BY NothingFired DEF SessionStep, TypeOK

(* Output, as an item of the stream. *)
LEMMA OutputTyped ==
  ASSUME NEW line \in Lines, NEW shape \in Shapes, NEW alt \in BOOLEAN
  PROVE  /\ Output(line, shape, alt) \in PtyItem
         /\ Output(line, shape, alt).kind = "output" /\ Output(line, shape, alt).line = line
         /\ line = NoQuestion => Blank(Output(line, shape, alt))
BY DEF Output, PtyItem, OutputItem, Blank

(* The markers, as items of the stream. *)
LEMMA MarkerTyped ==
  ASSUME NEW question \in Lines
  PROVE  /\ Start(question) \in PtyItem /\ Start(question).kind = "command_start"
         /\ Start(question).question = question
         /\ End(question) \in PtyItem /\ End(question).kind = "command_end"
         /\ End(question).question = question
BY DEF Start, End, PtyItem, OutputItem

(* Which screen was read last, held back or not. *)
LEMMA OnAltTyped ==
  ASSUME TypeOK
  PROVE  OnAlt \in BOOLEAN
<1>1. session.alt \in BOOLEAN
  BY SessionTyped DEF TypeOK
<1>2. answer.held # <<>> => answer.held[1].alt \in BOOLEAN
  BY HeldTyped DEF OutputItem
<1> QED BY <1>1, <1>2 DEF OnAlt

(* What is written to the terminal. *)
LEMMA WrittenTyped ==
  ASSUME TypeOK, NEW question \in Lines
  PROVE  /\ <<NewLine>> \in Seq(PtyItem) /\ <<Prompt>> \in Seq(PtyItem)
         /\ <<Start(question)>> \in Seq(PtyItem) /\ <<End(question)>> \in Seq(PtyItem)
         /\ <<Start(question), End(question)>> \in Seq(PtyItem)
         /\ <<Start(NoQuestion)>> \in Seq(PtyItem)
         /\ \A items \in Seq(PtyItem) : Markers(items) \in Seq(PtyItem)
<1>1. OnAlt \in BOOLEAN
  BY OnAltTyped
<1>2. NewLine \in PtyItem /\ Prompt \in PtyItem
  BY <1>1, OutputTyped DEF NewLine, Prompt, Lines, Shapes
<1>3. Start(question) \in PtyItem /\ End(question) \in PtyItem /\ Start(NoQuestion) \in PtyItem
  BY MarkerTyped DEF Lines
<1>4. \A items \in Seq(PtyItem) : Markers(items) \in Seq(PtyItem)
  BY DEF Markers
<1> HIDE DEF NewLine, Prompt, Start, End
<1> QED BY <1>2, <1>3, <1>4

(* What is held, and the silence. *)
LEMMA HoldTypes ==
  ASSUME TypeOK, [Next]_vars
  PROVE  answer' \in Answer /\ silence' \in 0..Horizon
<1>1. answer \in Answer /\ silence \in 0..Horizon /\ 0 \in 0..Horizon /\ Horizon \in Nat
  BY HorizonNat DEF TypeOK
<1>2. /\ answer.holding \in BOOLEAN /\ answer.lost \in BOOLEAN
      /\ <<>> \in {<<>>} \cup {<<item>> : item \in OutputItem}
  BY HeldTyped
<1>3. CASE UNCHANGED hold
  BY <1>1, <1>3 DEF hold
<1>4. CASE TakePty /\ Head(pty).kind = "output"
  <2> DEFINE item == Head(pty)
  <2>1. item \in OutputItem
    <3>1. item \in PtyItem
      BY <1>4 DEF TypeOK, TakePty
    <3> QED BY <1>4, <3>1 DEF PtyItem
  <2> HIDE DEF item
  <2>2. /\ silence' = 0
        /\ \/ answer' = [answer EXCEPT !.held = <<item>>]
           \/ answer' = [NoAnswer EXCEPT !.holding = answer.holding]
    BY <1>4 DEF TakePty, TakeOutput, item
  <2>3. <<item>> \in {<<>>} \cup {<<x>> : x \in OutputItem}
    BY <2>1
  <2>4. [answer EXCEPT !.held = <<item>>] \in Answer
    BY <1>1, <2>3 DEF Answer
  <2>5. [NoAnswer EXCEPT !.holding = answer.holding] \in Answer
    BY <1>2 DEF Answer, NoAnswer
  <2> QED BY <1>1, <2>2, <2>4, <2>5
<1>5. CASE Releases
  <2> DEFINE still == answer.lost /\ answer.held = <<>>
  <2>1. still \in BOOLEAN
    OBVIOUS
  <2>2. answer' = [NoAnswer EXCEPT !.lost = still] /\ silence' \in {silence, 0}
    BY <1>5 DEF Releases
  <2> HIDE DEF still
  <2> QED BY <1>1, <1>2, <2>1, <2>2 DEF Answer, NoAnswer
<1>6. CASE AnswerBegins
  <2>1. PICK holds \in BOOLEAN :
          /\ answer' = [holding |-> holds, held |-> <<>>,
                        lost |-> answer.lost \/ answer.held # <<>>]
    BY <1>6 DEF AnswerBegins
  <2> DEFINE gone == answer.lost \/ answer.held # <<>>
  <2>2. gone \in BOOLEAN
    OBVIOUS
  <2>3. answer' = [holding |-> holds, held |-> <<>>, lost |-> gone]
    BY <2>1
  <2> HIDE DEF gone
  <2>4. silence' = silence
    BY <1>6 DEF AnswerBegins
  <2> QED BY <1>1, <1>2, <2>2, <2>3, <2>4 DEF Answer
<1>7. CASE TimePasses
  <2>1. answer' = answer /\ silence' = Lesser(silence + 1, Horizon)
    BY <1>7 DEF TimePasses
  <2> QED BY <1>1, <2>1 DEF Lesser
<1>8. \/ UNCHANGED hold \/ (TakePty /\ Head(pty).kind = "output") \/ Releases
      \/ AnswerBegins \/ TimePasses
  BY DEF Next, vars, hold, TakePty, AnswerEnds, Repaint, PressEnter, PressInterrupt, Type,
         EditorKeepsLine, ShellRuns, ShellSkipsComment, ProgramWrites, ProgramReads,
         CommandReturns
<1> QED BY <1>3, <1>4, <1>5, <1>6, <1>7, <1>8

(* Every step. *)
LEMMA StepTypes ==
  ASSUME TypeOK, [Next]_vars
  PROVE  TypeOK' /\ SessionStep(session, session') /\ integrated' = integrated
<1>1. /\ session \in SessionState /\ integrated \in BOOLEAN /\ pty \in Seq(PtyItem)
      /\ typed \in Lines /\ entered \in Seq(Lines)
      /\ shell \in [running : BOOLEAN, question : Lines, marks : Markings]
      /\ place \in [Questions -> {"unused", "prompt", "program"}] /\ accepted \subseteq Questions
      /\ answer' \in Answer /\ silence' \in 0..Horizon
  BY HoldTypes DEF TypeOK
<1>2. NoQuestion \in Lines /\ Questions \subseteq Lines
  BY DEF Lines
<1>3. CASE \/ TakePty \/ AnswerEnds \/ TimePasses \/ Repaint \/ PressEnter
           \/ PressInterrupt
  <2>1. SessionStep(session, session')
    BY <1>3, ProcessorStep
  <2>2. integrated' = integrated /\ shell' = shell /\ place' = place /\ accepted' = accepted
    BY <1>3 DEF TakePty, AnswerEnds, TimePasses, Repaint, PressEnter, PressInterrupt
  <2>3. pty' \in Seq(PtyItem)
    <3>1. CASE TakePty
      <4>1. pty # <<>> /\ pty' = Tail(pty)
        BY <3>1 DEF TakePty
      <4> QED BY <1>1, <4>1
    <3>2. ~TakePty => pty' = pty
      BY <1>3 DEF AnswerEnds, TimePasses, Repaint, PressEnter, PressInterrupt
    <3> QED BY <1>1, <3>1, <3>2
  <2>4. typed' \in Lines /\ entered' \in Seq(Lines)
    <3>1. CASE PressEnter
      <4>1. entered' = Append(entered, typed) /\ typed' = NoQuestion
        BY <3>1 DEF PressEnter
      <4> QED BY <1>1, <1>2, <4>1
    <3>2. ~PressEnter => entered' = entered /\ typed' \in {typed, NoQuestion}
      BY <1>3 DEF TakePty, AnswerEnds, TimePasses, Repaint, PressInterrupt
    <3> QED BY <1>1, <1>2, <3>1, <3>2
  <2>5. Markings' = Markings
    BY <2>2 DEF Markings
  <2> QED BY <1>1, <2>1, <2>2, <2>3, <2>4, <2>5 DEF TypeOK, SessionStep
<1>4. ASSUME session' = session, integrated' = integrated, pty' \in Seq(PtyItem),
             typed' \in Lines, entered' \in Seq(Lines),
             shell' \in [running : BOOLEAN, question : Lines, marks : Markings],
             place' \in [Questions -> {"unused", "prompt", "program"}],
             accepted' \subseteq Questions
      PROVE  TypeOK' /\ SessionStep(session, session') /\ integrated' = integrated
  <2>1. Markings' = Markings
    BY <1>4 DEF Markings
  <2> QED BY <1>1, <1>4, <2>1, EnvironmentStep DEF TypeOK
<1>5. OnAlt \in BOOLEAN
  BY OnAltTyped
<1>6. ASSUME NEW q \in Questions, Type(q)
      PROVE  TypeOK' /\ SessionStep(session, session') /\ integrated' = integrated
  <2> DEFINE item == Output(q, "Other", OnAlt)
  <2>1. item \in PtyItem /\ pty' = Append(pty, item)
    BY <1>2, <1>5, <1>6, OutputTyped DEF Shapes, Type
  <2> HIDE DEF item
  <2>2. pty' \in Seq(PtyItem)
    BY <1>1, <2>1
  <2>3. place' \in [Questions -> {"unused", "prompt", "program"}]
    BY <1>1, <1>6 DEF Type
  <2> QED BY <1>1, <1>2, <1>4, <1>6, <2>2, <2>3 DEF Type
<1>7. CASE EditorKeepsLine
  <2>1. Head(entered) \in Lines /\ Tail(entered) \in Seq(Lines)
    <3>1. entered # <<>>
      BY <1>7 DEF EditorKeepsLine
    <3> QED BY <1>1, <3>1
  <2>2. Output(Head(entered), "Other", FALSE) \in PtyItem
    BY <2>1, OutputTyped DEF Shapes
  <2>3. pty' \in Seq(PtyItem)
    <3> DEFINE item == Output(Head(entered), "Other", FALSE)
    <3>1. pty' = Append(pty, item)
      BY <1>7 DEF EditorKeepsLine
    <3>2. item \in PtyItem
      BY <2>2
    <3> HIDE DEF item
    <3> QED BY <1>1, <3>1, <3>2
  <2> QED BY <1>1, <1>4, <1>7, <2>1, <2>3 DEF EditorKeepsLine
<1>8. CASE ShellRuns
  <2>1. entered # <<>> /\ Head(entered) \in Lines /\ Tail(entered) \in Seq(Lines)
    BY <1>1, <1>8 DEF ShellRuns
  <2> DEFINE asked == Head(entered)
  <2>2. PICK marks \in Markings :
          /\ shell' = [running |-> TRUE, marks |-> marks,
                       question |-> IF marks = "both" THEN asked ELSE NoQuestion]
          /\ pty' = pty \o <<NewLine>> \o
               Markers(CASE marks = "both" -> <<Start(asked)>>
                         [] marks = "start" -> <<Start(NoQuestion)>>
                         [] marks = "none" -> <<>>)
    BY <1>8 DEF ShellRuns
  <2> DEFINE items == CASE marks = "both" -> <<Start(asked)>>
                        [] marks = "start" -> <<Start(NoQuestion)>>
                        [] marks = "none" -> <<>>
  <2>3. marks \in {"both", "start", "none"}
    BY DEF Markings
  <2>4. items \in Seq(PtyItem)
    <3>1. <<Start(asked)>> \in Seq(PtyItem) /\ <<Start(NoQuestion)>> \in Seq(PtyItem)
      BY <2>1, WrittenTyped
    <3>2. <<>> \in Seq(PtyItem)
      OBVIOUS
    <3> QED BY <2>3, <3>1, <3>2
  <2> HIDE DEF items
  <2>5. Markers(items) \in Seq(PtyItem) /\ <<NewLine>> \in Seq(PtyItem)
    BY <1>2, <2>4, WrittenTyped
  <2>6. pty' = pty \o <<NewLine>> \o Markers(items)
    BY <2>2 DEF items
  <2> DEFINE m == Markers(items)  l == <<NewLine>>
  <2> HIDE DEF m, l
  <2>7. pty' \in Seq(PtyItem)
    BY <1>1, <2>5, <2>6, Joined DEF m, l
  <2>8. shell' \in [running : BOOLEAN, question : Lines, marks : Markings]
    BY <2>1, <2>2 DEF Lines
  <2>9. accepted' \subseteq Questions
    BY <1>1, <1>8, <2>1 DEF ShellRuns, Accepting, Lines
  <2> QED BY <1>1, <1>4, <1>8, <2>1, <2>7, <2>8, <2>9 DEF ShellRuns
<1>9. CASE ShellSkipsComment
  <2>1. Head(entered) \in Questions /\ Tail(entered) \in Seq(Lines)
    BY <1>1, <1>9 DEF ShellSkipsComment, Lines
  <2> DEFINE m == Markers(<<Start(Head(entered)), End(Head(entered))>>)
             l == <<NewLine>>  e == <<Prompt>>
  <2>2. m \in Seq(PtyItem) /\ l \in Seq(PtyItem) /\ e \in Seq(PtyItem)
    BY <1>2, <2>1, WrittenTyped
  <2>3. pty' = pty \o l \o m \o e
    BY <1>9 DEF ShellSkipsComment
  <2> HIDE DEF m, l, e
  <2>4. pty' \in Seq(PtyItem)
    BY <1>1, <2>2, <2>3, Joined
  <2> QED BY <1>1, <1>4, <1>9, <2>1, <2>4 DEF ShellSkipsComment, Accepting
<1>10. CASE ProgramWrites
  <2>1. PICK shape \in Shapes, alt \in BOOLEAN :
          pty' = Append(pty, Output(NoQuestion, shape, alt))
    BY <1>10 DEF ProgramWrites
  <2>2. Output(NoQuestion, shape, alt) \in PtyItem
    BY <1>2, OutputTyped
  <2>3. pty' \in Seq(PtyItem)
    BY <1>1, <2>1, <2>2
  <2> QED BY <1>1, <1>4, <1>10, <2>3 DEF ProgramWrites
<1>11. CASE ProgramReads
  <2>1. <<NewLine>> \in Seq(PtyItem) /\ Tail(entered) \in Seq(Lines)
    BY <1>1, <1>2, <1>11, WrittenTyped DEF ProgramReads
  <2>2. NewLine \in PtyItem
    BY <1>2, <1>5, OutputTyped DEF NewLine, Shapes
  <2>3. pty' \in Seq(PtyItem)
    BY <1>1, <1>11, <2>2 DEF ProgramReads
  <2> QED BY <1>1, <1>4, <1>11, <2>1, <2>3 DEF ProgramReads
<1>12. CASE CommandReturns
  <2> DEFINE items == IF shell.marks = "both" THEN <<End(shell.question)>> ELSE <<>>
             m == Markers(items)  e == <<Prompt>>
  <2>1. shell.question \in Lines
    BY <1>1
  <2>2. <<End(shell.question)>> \in Seq(PtyItem) /\ e \in Seq(PtyItem)
        /\ \A i \in Seq(PtyItem) : Markers(i) \in Seq(PtyItem)
    BY <2>1, WrittenTyped
  <2>3. items \in Seq(PtyItem)
    BY <2>2
  <2> HIDE DEF items
  <2>4. m \in Seq(PtyItem)
    BY <2>2, <2>3
  <2>5. pty' = pty \o m \o e
    BY <1>12 DEF CommandReturns, items
  <2> HIDE DEF m, e
  <2>6. pty' \in Seq(PtyItem)
    BY <1>1, <2>2, <2>4, <2>5, Joined DEF e
  <2>7. shell' \in [running : BOOLEAN, question : Lines, marks : Markings]
    BY <1>2, <1>12 DEF CommandReturns, AtPrompt, Markings
  <2> QED BY <1>1, <1>4, <1>12, <2>6, <2>7 DEF CommandReturns
<1>13. CASE AnswerBegins
  BY <1>1, <1>4, <1>13 DEF AnswerBegins
<1>14. CASE UNCHANGED vars
  BY <1>1, <1>4, <1>14 DEF vars
<1> QED BY <1>3, <1>6, <1>7, <1>8, <1>9, <1>10, <1>11, <1>12, <1>13, <1>14 DEF Next

(* The start. *)
LEMMA InitTypes == Init => TypeOK /\ Owned(session)
<1> SUFFICES ASSUME Init PROVE TypeOK /\ Owned(session)
  OBVIOUS
<1>1. session \in SessionState
  <2>1. Horizon \in 0..Horizon
    BY HorizonNat
  <2> QED BY <2>1 DEF Init, SessionState, Lines, Shapes
<1>2. shell \in [running : BOOLEAN, question : Lines, marks : Markings]
  BY DEF Init, AtPrompt, Markings, Lines
<1>3. NoAnswer \in Answer /\ Horizon \in 0..Horizon
  BY HorizonNat DEF NoAnswer, Answer
<1> QED BY <1>1, <1>2, <1>3 DEF TypeOK, Init, Lines, Owned

Owning == TypeOK /\ (integrated => Owned(session))

(* trigger.rs 599-607, 660-690: command_end fires every pending question, so in
   a shell with the hooks no question is pending outside a command span.  It holds
   whatever the shell reports and the user types. *)
THEOREM SpanAlwaysOwnsPending == Spec => []SpanOwnsPending
<1>1. Init => Owning
  BY InitTypes DEF Owning
<1>2. Owning /\ [Next]_vars => Owning'
  <2> SUFFICES ASSUME Owning, [Next]_vars PROVE Owning'
    OBVIOUS
  <2>1. TypeOK' /\ SessionStep(session, session') /\ integrated' = integrated
    BY StepTypes DEF Owning
  <2> QED BY <2>1 DEF Owning, SessionStep, Owned
<1>3. Owning => SpanOwnsPending
  BY DEF Owning, Owned, SpanOwnsPending
<1> QED BY <1>1, <1>2, <1>3, PTL DEF Spec

(* The quiet time the session judges by is silence, unless output went unheard. *)
Heard == session.quiet <= silence \/ Unheard

(* Quiet time starts again with the output that is recorded, and what is held back
   or was dropped goes unheard. *)
LEMMA HeardKept ==
  ASSUME TypeOK, Heard, [Next]_vars
  PROVE  Heard'
<1>1. /\ session \in SessionState /\ session.quiet \in Nat /\ silence \in Nat
      /\ silence' \in Nat /\ Horizon \in Nat
  <2>1. session \in SessionState /\ silence \in 0..Horizon /\ silence' \in 0..Horizon
    BY HoldTypes DEF TypeOK
  <2>2. session.quiet \in 0..Horizon
    BY <2>1, SessionTyped
  <2> QED BY <2>1, <2>2, HorizonNat
<1>2. ASSUME session'.quiet = session.quiet, UNCHANGED hold PROVE Heard'
  BY <1>2 DEF Heard, Unheard, hold
<1>3. ASSUME session'.quiet = 0 PROVE Heard'
  BY <1>1, <1>3 DEF Heard
<1>4. ASSUME NEW u \in SessionState, session' = Polled(u) PROVE session'.quiet = u.quiet
  BY <1>4, PolledParts DEF SameOtherwise
<1>5. ASSUME NEW u \in SessionState, u.quiet = session.quiet, Releases,
             session' = Polled(Freed(u)) \/ session' = Freed(u)
      PROVE  Heard'
  <2> DEFINE f == Freed(u)
  <2>1. /\ f \in SessionState
        /\ answer.held = <<>> => f = u
        /\ answer.held # <<>> => f.quiet = 0
    BY <1>5, FreedIs
  <2>2. session' = Polled(f) \/ session' = f
    BY <1>5
  <2> HIDE DEF f
  <2>3. session'.quiet = f.quiet
    <3>1. CASE session' = Polled(f)
      BY <1>4, <2>1, <3>1
    <3>2. CASE session' = f
      BY <3>2
    <3> QED BY <2>2, <3>1, <3>2
  <2>4. CASE answer.held # <<>>
    BY <1>3, <2>1, <2>3, <2>4
  <2>5. CASE answer.held = <<>>
    <3>1. session'.quiet = session.quiet
      BY <1>5, <2>1, <2>3, <2>5
    <3>3. silence' = silence
      BY <1>5, <2>5 DEF Releases
    <3>2. answer'.lost = answer.lost
      BY <1>5, <2>5, HeldTyped DEF Releases, NoAnswer
    <3> QED BY <2>5, <3>1, <3>2, <3>3 DEF Heard, Unheard
  <2> QED BY <2>4, <2>5
<1>6. CASE TakePty
  <2> DEFINE item == Head(pty)
  <2>1. item \in PtyItem
    BY <1>6 DEF TypeOK, TakePty
  <2>2. CASE item.kind = "output"
    <3>1. TakeOutput(item)
      BY <1>6, <2>2 DEF TakePty
    <3> HIDE DEF item
    <3>2. CASE session' = Polled(RecordOutput(session, item))
      <4>1. /\ RecordOutput(session, item) \in SessionState
            /\ RecordOutput(session, item).quiet = 0
        BY <1>1, <2>1, <2>2, RecordExtends DEF Extends
      <4> QED BY <1>3, <1>4, <3>2, <4>1
    <3>3. CASE answer' = [answer EXCEPT !.held = <<item>>]
      <4>1. answer \in Answer
        BY DEF TypeOK
      <4>2. answer'.held = <<item>>
        BY <3>3, <4>1 DEF Answer
      <4>3. <<item>> # <<>>
        OBVIOUS
      <4> QED BY <4>2, <4>3 DEF Heard, Unheard
    <3> QED BY <3>1, <3>2, <3>3 DEF TakeOutput
  <2>3. CASE item.kind # "output"
    <3> DEFINE u == Handled(session, item)
    <3>1. session' = Polled(u) /\ UNCHANGED hold
      BY <1>6, <2>3 DEF TakePty
    <3>2. u \in SessionState
      BY <1>1, <2>1, TakeSilent
    <3>3. u.quiet = session.quiet
      <4>1. u = CommandStart(session, item.question) \/ u = CommandEnd(session, item.question)
        BY <2>1, <2>3 DEF Handled, PtyItem, OutputItem
      <4> HIDE DEF item, u
      <4> QED BY <1>1, <4>1 DEF CommandStart, CommandEnd, SpanEnds, SessionState
    <3> HIDE DEF u
    <3> QED BY <1>2, <1>4, <3>1, <3>2, <3>3
  <2> QED BY <2>2, <2>3
<1>7. CASE AnswerBegins
  <2>1. session' = session /\ silence' = silence
        /\ answer'.lost = (answer.lost \/ answer.held # <<>>)
    BY <1>7 DEF AnswerBegins
  <2> QED BY <2>1 DEF Heard, Unheard
<1>8. CASE AnswerEnds
  BY <1>1, <1>5, <1>8 DEF AnswerEnds
<1>9. CASE TimePasses
  <2> DEFINE u == Later(session)
  <2>1. session' = Polled(u) \/ session' = u
    BY <1>9 DEF TimePasses, Later, Aged
  <2>2. u \in SessionState
    BY <1>1, LaterOlder
  <2>3. u.quiet = Lesser(session.quiet + 1, Horizon)
    BY <1>1 DEF Later, SessionState
  <2> HIDE DEF u
  <2>4. session'.quiet = Lesser(session.quiet + 1, Horizon)
    BY <1>4, <2>1, <2>2, <2>3
  <2>5. silence' = Lesser(silence + 1, Horizon) /\ answer' = answer
    BY <1>9 DEF TimePasses
  <2>6. session.quiet <= silence => session'.quiet <= silence'
    BY <1>1, <2>4, <2>5 DEF Lesser
  <2> QED BY <2>5, <2>6 DEF Heard, Unheard
<1>10. CASE Repaint
  <2>1. PICK line \in {session.line, NoQuestion}, shape \in Shapes :
          /\ session' = Polled([session EXCEPT !.line = line, !.shape = shape])
          /\ UNCHANGED hold
    BY <1>10 DEF Repaint
  <2> DEFINE u == [session EXCEPT !.line = line, !.shape = shape]
  <2>2. u \in SessionState /\ session' = Polled(u)
    BY <1>1, <2>1, RepaintQuieter
  <2>3. u.quiet = session.quiet
    BY <1>1 DEF SessionState
  <2> HIDE DEF u
  <2> QED BY <1>2, <1>4, <2>1, <2>2, <2>3
<1>11. CASE PressEnter
  <2> DEFINE u == CaptureSubmittedLine(session)
  <2>1. session' = Polled(u) /\ UNCHANGED hold
    BY <1>11 DEF PressEnter
  <2>2. u \in SessionState
    BY <1>1, CaptureExtends DEF Extends
  <2>3. u.quiet = session.quiet
    BY <1>1, CaptureTyped DEF CaptureSubmittedLine
  <2> HIDE DEF u
  <2> QED BY <1>2, <1>4, <2>1, <2>2, <2>3
<1>12. CASE PressInterrupt
  <2>1. CASE session.alt
    <3>1. session' = session /\ UNCHANGED hold
      BY <1>12, <2>1, InterruptSends DEF PressInterrupt
    <3> QED BY <1>2, <3>1
  <2>2. CASE ~session.alt
    <3> DEFINE u == Interrupted(session)
    <3>1. session' = Freed(u) /\ Releases
      BY <1>12, <2>2, InterruptSends DEF PressInterrupt
    <3>2. u \in SessionState
      BY <1>1, InterruptedQuieter
    <3>3. u.quiet = session.quiet
      BY <1>1, <2>2 DEF Interrupted, SessionState
    <3> HIDE DEF u
    <3> QED BY <1>5, <3>1, <3>2, <3>3
  <2> QED BY <2>1, <2>2
<1>13. ASSUME session' = session, UNCHANGED hold PROVE Heard'
  BY <1>2, <1>13
<1> QED BY <1>6, <1>7, <1>8, <1>9, <1>10, <1>11, <1>12, <1>13
        DEF Next, vars, hold, Type, EditorKeepsLine, ShellRuns, ShellSkipsComment,
            ProgramWrites, ProgramReads, CommandReturns

(* trigger.rs 525-566, presentation.rs 601-619: a question sent as settled was
   pending before the step, the step brought no output, and the quiet time it was
   judged by was silence of the terminal, unless output was held back behind an
   answer or was dropped with one.  It holds whatever the shell reports, the user
   types and the answers hold. *)
THEOREM SettlingAlwaysNeedsSilence == Spec => SettlingNeedsSilence
<1> DEFINE Hearing == TypeOK /\ Heard
<1>1. Init => Hearing
  <2> SUFFICES ASSUME Init PROVE Hearing
    OBVIOUS
  <2>1. session.quiet = Horizon /\ silence = Horizon
    BY DEF Init
  <2> QED BY <2>1, InitTypes, HorizonNat DEF Heard
<1>2. Hearing /\ [Next]_vars => Hearing'
  <2> SUFFICES ASSUME Hearing, [Next]_vars PROVE Hearing'
    OBVIOUS
  <2> QED BY StepTypes, HeardKept
<1>3. Hearing /\ Hearing' /\ [Next]_vars => [SettlesInSilence(Unheard')]_vars
  <2> SUFFICES ASSUME Hearing, Hearing', [Next]_vars PROVE SettlesInSilence(Unheard')
    OBVIOUS
  <2>1. Silent(session, session')
    BY StepTypes DEF SessionStep
  <2> QED BY <2>1 DEF Silent, SettlesInSilence, Heard
<1> HIDE DEF Hearing
<1> QED BY <1>1, <1>2, <1>3, PTL DEF Spec, SettlingNeedsSilence

-----------------------------------------------------------------------------
(* The steps.                                                              *)

(* What the session has not been told yet: what is held back, and the stream. *)
Unread == answer.held \o pty

(* Only an answer holds output back, and not over a line typed at the prompt. *)
Held ==
  /\ answer.held # <<>> => answer.holding
  /\ answer.holding => Fresh(session, place)

Tied == Sound(session, Unread, InSpan, accepted, place) /\ Typing

IInv == TypeOK /\ Held /\ Tied

(* The invariant holds at the start. *)
LEMMA InitInv == Init => IInv
<1> SUFFICES ASSUME Init PROVE IInv
  OBVIOUS
<1> DEFINE s == session
<1>1. /\ s.pending = <<>> /\ s.fired = <<>> /\ s.cancelled = {} /\ ~s.command_active
      /\ s.line = NoQuestion /\ pty = <<>> /\ accepted = {} /\ answer = NoAnswer
      /\ typed = NoQuestion /\ entered = <<>> /\ shell = AtPrompt
      /\ \A q \in Questions : place[q] = "unused"
  BY DEF Init
<1>2. s \in SessionState
  <2>1. Horizon \in 0..Horizon
    BY HorizonNat
  <2> QED BY <2>1 DEF Init, SessionState, Lines, Shapes
<1>3. /\ shell \in [running : BOOLEAN, question : Lines, marks : Markings]
      /\ InSpan = <<>>
  BY <1>1 DEF AtPrompt, Markings, Lines, InSpan
<1>4. TypeOK /\ Held
  BY <1>1, InitTypes DEF Held, NoAnswer
<1> HIDE DEF s
<1>5. Pending(s) = {} /\ Fired(s) = {} /\ \A q : ~Touched(s, q)
  BY <1>1 DEF Pending, Fired, Touched, s
<1>6. Once(s) /\ Aging(s) /\ Owned(s)
  BY <1>1, <1>5 DEF Once, Aging, Owned, s
<1>7. Unread \in Seq(PtyItem) /\ Len(Unread) = 0 /\ 1..Len(Unread) = {}
  BY <1>1 DEF Unread, NoAnswer
<1>8. Known(s, accepted, place)
  BY <1>1, <1>5, QuestionsAssumption DEF Known, s
<1>9. Tape(Unread, s, <<>>, accepted, place)
  <2> DEFINE span == [i \in 0..0 |-> <<>>]
  <2>1. span \in [0..0 -> Spans] /\ span[0] = <<>>
    BY DEF Spans
  <2> HIDE DEF span
  <2>2. Stream(Unread, span, <<>>, place)
    BY <1>7, <2>1 DEF Stream
  <2>3. Owes(s, span[0])
    <3>1. \A q : <<>> # <<q>>
      OBVIOUS
    <3> QED BY <1>1, <2>1, <3>1 DEF Owes, s
  <2>4. Marked(Unread, s, accepted, place) /\ Shown(Unread, s, place)
    BY <1>5, <1>7 DEF Marked, Shown
  <2> QED BY <2>2, <2>3, <2>4 DEF Tape
<1>10. Sound(session, Unread, InSpan, accepted, place)
  BY <1>2, <1>3, <1>6, <1>7, <1>8, <1>9 DEF Sound, s
<1>11. Typing
  <2>1. \A q \in Questions : typed # q /\ entered # <<q>>
    BY <1>1, QuestionsAssumption
  <2>2. Len(entered) = 0 /\ shell.question = NoQuestion
    BY <1>1 DEF AtPrompt
  <2> QED BY <1>1, <2>1, <2>2, QuestionsAssumption DEF Typing
<1> QED BY <1>4, <1>10, <1>11 DEF IInv, Tied

(* What is unread, with an item held back and without. *)
LEMMA UnreadIs ==
  ASSUME TypeOK
  PROVE  /\ Unread \in Seq(PtyItem) /\ answer.held \in Seq(PtyItem) /\ pty \in Seq(PtyItem)
         /\ answer.held = <<>> => Unread = pty
         /\ answer.held # <<>> =>
              /\ Unread # <<>> /\ Head(Unread) = answer.held[1] /\ Tail(Unread) = pty
              /\ answer.held[1] \in PtyItem /\ answer.held[1].kind = "output"
<1>1. pty \in Seq(PtyItem)
  BY DEF TypeOK
<1>2. CASE answer.held = <<>>
  <2>1. <<>> \o pty = pty /\ <<>> \in Seq(PtyItem)
    BY <1>1
  <2> QED BY <1>1, <1>2, <2>1 DEF Unread
<1>3. CASE answer.held # <<>>
  <2> DEFINE h == answer.held[1]
  <2>1. h \in PtyItem /\ h.kind = "output" /\ answer.held = <<h>>
    BY <1>3, HeldTyped
  <2> HIDE DEF h
  <2>2. /\ <<h>> \in Seq(PtyItem) /\ <<h>> \o pty \in Seq(PtyItem) /\ <<h>> \o pty # <<>>
        /\ Head(<<h>> \o pty) = h /\ Tail(<<h>> \o pty) = pty
    BY <1>1, <2>1
  <2> QED BY <1>1, <1>3, <2>1, <2>2 DEF Unread, h
<1> QED BY <1>2, <1>3

(* Three sequences in a row. *)
LEMMA ThreeInARow ==
  ASSUME NEW x \in Seq(PtyItem), NEW y \in Seq(PtyItem), NEW z \in Seq(PtyItem)
  PROVE  x \o (y \o z) = (x \o y) \o z
BY ConcatAssociative

(* Two items in front of a sequence, one by one. *)
LEMMA Stacked ==
  ASSUME NEW a \in PtyItem, NEW b \in PtyItem, NEW p \in Seq(PtyItem)
  PROVE  /\ <<a, b>> \o p = <<a>> \o (<<b>> \o p)
         /\ <<a, b>> \o p # <<>> /\ Head(<<a, b>> \o p) = a
         /\ Tail(<<a, b>> \o p) = <<b>> \o p
<1> DEFINE r == <<a, b>> \o p  u == <<a>> \o (<<b>> \o p)
           t == Tail(r)  v == <<b>> \o p
<1>1. /\ r \in Seq(PtyItem) /\ u \in Seq(PtyItem) /\ t \in Seq(PtyItem) /\ v \in Seq(PtyItem)
      /\ Len(r) = Len(u) /\ Len(t) = Len(v) /\ Len(r) > 0
  OBVIOUS
<1>2. \A i \in 1..Len(r) : r[i] = u[i]
  OBVIOUS
<1>5. \A i \in 1..Len(t) : t[i] = v[i]
  OBVIOUS
<1>3. r # <<>> /\ Head(r) = a
  OBVIOUS
<1> HIDE DEF r, u, t, v
<1>4. r = u /\ t = v
  BY <1>1, <1>2, <1>5, SeqEqual
<1> QED BY <1>3, <1>4 DEF r, u, t, v

(* What is written to the terminal is unread at its end. *)
LEMMA UnreadGrows ==
  ASSUME TypeOK, UNCHANGED hold,
         NEW a \in Seq(PtyItem), NEW b \in Seq(PtyItem), NEW c \in Seq(PtyItem)
  PROVE  /\ pty' = pty => Unread' = Unread
         /\ pty' = pty \o a => Unread' = Unread \o a
         /\ pty' = pty \o a \o b => Unread' = Unread \o a \o b
         /\ pty' = pty \o a \o b \o c => Unread' = Unread \o a \o b \o c
<1> DEFINE h == answer.held
<1>1. h \in Seq(PtyItem) /\ pty \in Seq(PtyItem)
  BY UnreadIs
<1>2. Unread = h \o pty /\ Unread' = h \o pty'
  BY DEF Unread, hold
<1> HIDE DEF h
<1> DEFINE p == pty
<1> HIDE DEF p
<1>3. p \in Seq(PtyItem) /\ \A d, e \in Seq(PtyItem) : h \o (d \o e) = (h \o d) \o e
  BY <1>1, ThreeInARow DEF p
<1>4. p \o a \in Seq(PtyItem) /\ p \o a \o b \in Seq(PtyItem)
  BY <1>3, Joined
<1>5. h \o (p \o a) = (h \o p) \o a
  BY <1>3
<1>6. h \o (p \o a \o b) = (h \o p) \o a \o b
  <2> DEFINE e == p \o a
  <2>1. e \in Seq(PtyItem) /\ h \o e = (h \o p) \o a
    BY <1>4, <1>5
  <2> HIDE DEF e
  <2>2. h \o (e \o b) = (h \o e) \o b
    BY <1>3, <2>1
  <2> QED BY <2>1, <2>2 DEF e
<1>7. h \o (p \o a \o b \o c) = (h \o p) \o a \o b \o c
  <2> DEFINE e == p \o a \o b
  <2>1. e \in Seq(PtyItem) /\ h \o e = (h \o p) \o a \o b
    BY <1>4, <1>6
  <2> HIDE DEF e
  <2>2. h \o (e \o c) = (h \o e) \o c
    BY <1>3, <2>1
  <2> QED BY <2>1, <2>2 DEF e
<1> QED BY <1>2, <1>5, <1>6, <1>7 DEF p

(* One item. *)
LEMMA UnreadGrowsOne ==
  ASSUME TypeOK, UNCHANGED hold, NEW item \in PtyItem, pty' = Append(pty, item)
  PROVE  Unread' = Append(Unread, item)
<1>1. pty \in Seq(PtyItem) /\ Unread \in Seq(PtyItem) /\ <<item>> \in Seq(PtyItem)
  BY UnreadIs
<1>2. pty' = pty \o <<item>> /\ Unread \o <<item>> = Append(Unread, item)
  BY <1>1
<1> QED BY <1>1, <1>2, UnreadGrows

(* The session is in step with the stream without what is held, as if it were dropped, *)
LEMMA Dropped ==
  ASSUME IInv
  PROVE  Sound(session, pty, InSpan, accepted, place)
<1>1. Sound(session, Unread, InSpan, accepted, place) /\ TypeOK
  BY DEF IInv, Tied
<1>2. CASE answer.held = <<>>
  BY <1>1, <1>2, UnreadIs
<1>3. CASE answer.held # <<>>
  <2>1. Fresh(session, place)
    BY <1>3 DEF IInv, Held
  <2>2. Unread # <<>> /\ Head(Unread).kind = "output" /\ Tail(Unread) = pty
    BY <1>1, <1>3, UnreadIs
  <2> QED BY <1>1, <2>1, <2>2, DropSound
<1> QED BY <1>2, <1>3

(* and when it is released. *)
LEMMA Recorded ==
  ASSUME IInv, NEW s, Sound(s, Unread, InSpan, accepted, place)
  PROVE  Sound(Freed(s), pty, InSpan, accepted, place)
<1>1. TypeOK
  BY DEF IInv
<1>2. CASE answer.held = <<>>
  BY <1>1, <1>2, UnreadIs DEF Freed
<1>3. CASE answer.held # <<>>
  <2>1. /\ Unread # <<>> /\ Head(Unread).kind = "output" /\ Tail(Unread) = pty
        /\ Head(Unread) = answer.held[1]
    BY <1>1, <1>3, UnreadIs
  <2>2. Freed(s) = RecordOutput(s, Head(Unread))
    BY <1>3, <2>1 DEF Freed
  <2> QED BY <2>1, <2>2, RecordSound
<1> QED BY <1>2, <1>3

(* A marker is handled at once, what is held in front of it is not. *)
LEMMA MarkerSound ==
  ASSUME IInv, pty # <<>>, Head(pty).kind # "output"
  PROVE  Sound(Handled(session, Head(pty)), answer.held \o Tail(pty), InSpan, accepted, place)
<1>1. /\ Sound(session, Unread, InSpan, accepted, place) /\ TypeOK
      /\ \A q \in accepted : place[q] = "prompt"
  BY DEF IInv, Tied, Typing
<1>2. pty \in Seq(PtyItem) /\ Tail(pty) \in Seq(PtyItem) /\ Head(pty) \in PtyItem
  BY <1>1 DEF TypeOK
<1>3. CASE answer.held = <<>>
  <2>1. Unread = pty /\ <<>> \o Tail(pty) = Tail(pty)
    BY <1>1, <1>2, <1>3, UnreadIs
  <2>2. Sound(Handled(session, Head(pty)), Tail(pty), InSpan, accepted, place)
    BY <1>1, <2>1, HandledSound
  <2> QED BY <1>3, <2>1, <2>2
<1>4. CASE answer.held # <<>>
  <2> DEFINE h == answer.held[1]  m == Head(pty)  p == Tail(pty)
  <2>1. h \in PtyItem /\ h.kind = "output" /\ answer.held = <<h>>
    BY <1>1, <1>4, HeldTyped
  <2>2. Fresh(session, place)
    BY <1>4 DEF IInv, Held
  <2>3. m \in PtyItem /\ p \in Seq(PtyItem) /\ m.kind # "output" /\ pty = <<m>> \o p
    BY <1>2
  <2>4. Unread = <<h>> \o pty
    BY <2>1 DEF Unread
  <2> HIDE DEF h, m, p
  <2>5. Unread = <<h, m>> \o p
    <3>1. <<h>> \o (<<m>> \o p) = <<h, m>> \o p
      BY <2>1, <2>3, Stacked
    <3> QED BY <2>3, <2>4, <3>1
  <2>6. Sound(session, <<m, h>> \o p, InSpan, accepted, place)
    BY <1>1, <2>1, <2>2, <2>3, <2>5, SwapSound
  <2> DEFINE r == <<m, h>> \o p
  <2>7. r # <<>> /\ Head(r) = m /\ Tail(r) = <<h>> \o p
    BY <2>1, <2>3, Stacked
  <2> HIDE DEF r
  <2>8. Sound(Handled(session, m), Tail(r), InSpan, accepted, place)
    BY <1>1, <2>6, <2>7, HandledSound DEF r
  <2> QED BY <2>1, <2>7, <2>8 DEF m, p
<1> QED BY <1>3, <1>4

(* Output that is read through comes after what is held, which is dropped with it:
   all of it is recorded in one piece. *)
LEMMA OutputSound ==
  ASSUME IInv, pty # <<>>, Head(pty).kind = "output"
  PROVE  Sound(RecordOutput(session, Head(pty)), Tail(pty), InSpan, accepted, place)
<1>1. Sound(session, pty, InSpan, accepted, place)
  BY Dropped
<1> QED BY <1>1, RecordSound

(* What an answer holds back stays clear of the prompt's line. *)
LEMMA HeldKept ==
  ASSUME ~MidLine, IInv, [Next]_vars
  PROVE  Held'
<1>1. /\ session \in SessionState /\ TypeOK /\ Held
      /\ place \in [Questions -> {"unused", "prompt", "program"}]
  BY DEF IInv, TypeOK
<1>2. ASSUME session'.line \in {session.line, NoQuestion}, place' = place,
             integrated' = integrated, UNCHANGED hold
      PROVE  Held'
  BY <1>1, <1>2, QuestionsAssumption DEF Held, Fresh, hold
<1>3. ASSUME ~answer'.holding, answer'.held = <<>> PROVE Held'
  BY <1>3 DEF Held
<1>4. \A u \in SessionState : Polled(u).line = u.line
  BY PolledParts DEF SameOtherwise
<1>5. ASSUME Releases PROVE Held'
  BY <1>3, <1>5 DEF Releases, NoAnswer
<1>6. CASE TakePty
  <2> DEFINE item == Head(pty)
  <2>1. item \in PtyItem /\ place' = place /\ integrated' = integrated
    BY <1>1, <1>6 DEF TypeOK, TakePty
  <2>2. CASE item.kind = "output"
    <3>1. TakeOutput(item)
      BY <1>6, <2>2 DEF TakePty
    <3> HIDE DEF item
    <3>2. CASE /\ answer.holding /\ answer' = [answer EXCEPT !.held = <<item>>]
               /\ session' = Polled(session)
      <4>1. answer'.holding = answer.holding
        BY <1>1, <3>2 DEF TypeOK, Answer
      <4>2. session'.line = session.line
        BY <1>1, <1>4, <3>2
      <4> QED BY <1>1, <2>1, <3>2, <4>1, <4>2 DEF Held, Fresh
    <3>3. CASE /\ answer.holding => Harmless(item.line)
               /\ answer' = [NoAnswer EXCEPT !.holding = answer.holding]
               /\ session' = Polled(RecordOutput(session, item))
      <4>1. answer'.holding = answer.holding /\ answer'.held = <<>>
        BY <3>3 DEF NoAnswer
      <4>2. RecordOutput(session, item) \in SessionState
        BY <1>1, <2>1, <2>2, RecordExtends DEF Extends
      <4>3. session'.line = item.line
        <5>1. RecordOutput(session, item).line = item.line
          BY <1>1 DEF RecordOutput, SessionState
        <5> QED BY <1>4, <3>3, <4>2, <5>1
      <4>4. Harmless(item.line) =>
              \A q \in Questions : integrated /\ place[q] = "prompt" => item.line # q
        BY DEF Harmless
      <4> QED BY <2>1, <3>3, <4>1, <4>3, <4>4 DEF Held, Fresh
    <3> QED BY <3>1, <3>2, <3>3 DEF TakeOutput
  <2>3. CASE item.kind # "output"
    <3> DEFINE u == Handled(session, item)
    <3>1. session' = Polled(u) /\ UNCHANGED hold
      BY <1>6, <2>3 DEF TakePty
    <3>2. u \in SessionState
      BY <1>1, <2>1, TakeSilent
    <3>3. u.line = session.line
      <4>1. u = CommandStart(session, item.question) \/ u = CommandEnd(session, item.question)
        BY <2>1, <2>3 DEF Handled, PtyItem, OutputItem
      <4> HIDE DEF item, u
      <4> QED BY <1>1, <4>1 DEF CommandStart, CommandEnd, SpanEnds, SessionState
    <3> HIDE DEF u, item
    <3> QED BY <1>2, <1>4, <2>1, <3>1, <3>2, <3>3
  <2> QED BY <2>2, <2>3
<1>7. CASE AnswerBegins
  <2>1. PICK holds \in BOOLEAN :
          /\ holds => Harmless(session.line)
          /\ answer' = [holding |-> holds, held |-> <<>>,
                        lost |-> answer.lost \/ answer.held # <<>>]
    BY <1>7 DEF AnswerBegins
  <2>4. answer'.holding = holds /\ answer'.held = <<>>
    BY <2>1
  <2>2. session' = session /\ place' = place /\ integrated' = integrated
    BY <1>7 DEF AnswerBegins
  <2>3. Harmless(session.line) => Fresh(session, place)
    BY DEF Harmless, Fresh
  <2> QED BY <2>1, <2>2, <2>3, <2>4 DEF Held, Fresh
<1>8. CASE AnswerEnds
  BY <1>5, <1>8 DEF AnswerEnds
<1>9. CASE TimePasses
  <2> DEFINE u == Later(session)
  <2>1. session' = Polled(u) \/ session' = u
    BY <1>9 DEF TimePasses, Later, Aged
  <2>2. u \in SessionState /\ Older(session, u)
    BY <1>1, LaterOlder
  <2>3. u.line = session.line
    BY <1>1 DEF Later, SessionState
  <2> HIDE DEF u
  <2>4. session'.line = session.line
    BY <1>4, <2>1, <2>2, <2>3
  <2>5. answer' = answer /\ place' = place /\ integrated' = integrated
    BY <1>9 DEF TimePasses
  <2> QED BY <1>1, <2>4, <2>5 DEF Held, Fresh
<1>10. CASE Repaint
  <2>1. PICK line \in {session.line, NoQuestion}, shape \in Shapes :
          /\ session' = Polled([session EXCEPT !.line = line, !.shape = shape])
          /\ UNCHANGED <<hold, place, integrated>>
    BY <1>10 DEF Repaint
  <2> DEFINE u == [session EXCEPT !.line = line, !.shape = shape]
  <2>2. u \in SessionState /\ session' = Polled(u)
    BY <1>1, <2>1, RepaintQuieter
  <2>3. u.line = line
    BY <1>1 DEF SessionState
  <2> HIDE DEF u
  <2> QED BY <1>2, <1>4, <2>1, <2>2, <2>3
<1>11. CASE PressEnter
  <2> DEFINE u == CaptureSubmittedLine(session)
  <2>1. session' = Polled(u) /\ UNCHANGED <<hold, place, integrated>>
    BY <1>11 DEF PressEnter
  <2>2. u \in SessionState
    BY <1>1, CaptureExtends DEF Extends
  <2>3. u.line = session.line
    BY <1>1, CaptureTyped DEF CaptureSubmittedLine
  <2> HIDE DEF u
  <2> QED BY <1>2, <1>4, <2>1, <2>2, <2>3
<1>12. CASE PressInterrupt
  <2>1. CASE session.alt
    <3>1. session' = session /\ UNCHANGED <<hold, place, integrated>>
      BY <1>1, <1>12, <2>1, InterruptSends DEF PressInterrupt
    <3> QED BY <1>2, <3>1
  <2>2. CASE ~session.alt
    BY <1>5, <1>12, <2>2 DEF PressInterrupt
  <2> QED BY <2>1, <2>2
<1>13. ASSUME NEW q \in Questions, Type(q) PROVE Held'
  <2>1. session.line # q
    BY <1>13 DEF IInv, Tied, Sound, Known, Type
  <2>2. /\ session' = session /\ UNCHANGED hold /\ integrated' = integrated
        /\ \A o \in Questions : o # q => place'[o] = place[o]
    BY <1>1, <1>13 DEF Type
  <2> QED BY <1>1, <2>1, <2>2 DEF Held, Fresh, hold
<1>14. ASSUME session' = session, UNCHANGED <<hold, place, integrated>> PROVE Held'
  BY <1>2, <1>14
<1> QED BY <1>6, <1>7, <1>8, <1>9, <1>10, <1>11, <1>12, <1>13, <1>14
        DEF Next, vars, hold, EditorKeepsLine, ShellRuns, ShellSkipsComment, ProgramWrites,
            ProgramReads, CommandReturns

(* The steps of the processor: the shell is where it was. *)
LEMMA ProcessorInv ==
  ASSUME UNCHANGED <<integrated, shell, place, accepted>>,
         Sound(session', Unread', InSpan, accepted, place), Typing'
  PROVE  Tied'
<1>1. InSpan' = InSpan
  BY DEF InSpan
<1>2. Sound(session, Unread, InSpan, accepted, place)'
  BY <1>1 DEF Sound, Tape, Stream, Follows, Marked, Fresh, Shown, Screen, Known
<1> QED BY <1>2 DEF Tied

(* The poll keeps the session in step with the stream. *)
LEMMA PolledSound ==
  ASSUME NEW s, NEW p, NEW last, NEW acc, NEW pl, Sound(s, p, last, acc, pl)
  PROVE  Sound(Polled(s), p, last, acc, pl)
<1>1. s \in SessionState
  BY DEF Sound
<1>2. Polled(s) \in SessionState /\ Quieter(s, Polled(s))
  BY <1>1, PolledQuieter
<1> QED BY <1>2, QuieterSound

(* An item is read, and the poll follows. *)
LEMMA TakeInv ==
  ASSUME IInv, TakePty
  PROVE  Tied'
<1>1. /\ pty # <<>> /\ pty' = Tail(pty) /\ TypeOK
      /\ UNCHANGED <<integrated, typed, entered, shell, place, accepted>>
  BY DEF TakePty, IInv
<1>2. /\ pty \in Seq(PtyItem) /\ Tail(pty) \in Seq(PtyItem) /\ Head(pty) \in PtyItem
      /\ <<Head(pty)>> \o Tail(pty) = pty /\ <<>> \o Tail(pty) = Tail(pty)
  BY <1>1 DEF TypeOK
<1>3. Sound(session', Unread', InSpan, accepted, place)
  <2>1. CASE Head(pty).kind # "output"
    <3>1. session' = Polled(Handled(session, Head(pty))) /\ UNCHANGED hold
      BY <2>1 DEF TakePty
    <3>2. Unread' = answer.held \o Tail(pty)
      BY <1>1, <3>1 DEF Unread, hold
    <3> QED BY <1>1, <2>1, <3>1, <3>2, MarkerSound, PolledSound
  <2>2. CASE Head(pty).kind = "output"
    <3>1. TakeOutput(Head(pty))
      BY <2>2 DEF TakePty
    <3>2. CASE session' = Polled(RecordOutput(session, Head(pty))) /\ answer'.held = <<>>
      <4>1. Unread' = Tail(pty)
        BY <1>1, <1>2, <3>2 DEF Unread
      <4> QED BY <1>1, <2>2, <3>2, <4>1, OutputSound, PolledSound
    <3>3. CASE session' = Polled(session) /\ answer'.held = <<Head(pty)>>
      <4>1. Unread' = pty
        BY <1>1, <1>2, <3>3 DEF Unread
      <4> QED BY <3>3, <4>1, Dropped, PolledSound
    <3>4. answer.holding /\ answer' = [answer EXCEPT !.held = <<Head(pty)>>]
            => answer'.held = <<Head(pty)>>
      BY <1>1 DEF TypeOK, Answer
    <3> QED BY <3>1, <3>2, <3>3, <3>4 DEF TakeOutput, NoAnswer
  <2> QED BY <2>1, <2>2
<1>4. Typing'
  BY <1>1 DEF IInv, Tied, Typing, Underway
<1> QED BY <1>1, <1>3, <1>4, ProcessorInv

(* An answer begins, and what was held behind another is dropped. *)
LEMMA BeginsInv ==
  ASSUME IInv, AnswerBegins
  PROVE  Tied'
<1>1. /\ session' = session /\ answer'.held = <<>> /\ pty' = pty /\ pty \in Seq(PtyItem)
      /\ UNCHANGED <<integrated, typed, entered, shell, place, accepted>>
  BY DEF AnswerBegins, IInv, TypeOK
<1>2. Unread' = pty
  <2>1. <<>> \o pty = pty
    BY <1>1
  <2> QED BY <1>1, <2>1 DEF Unread
<1>3. Sound(session', Unread', InSpan, accepted, place)
  BY <1>1, <1>2, Dropped
<1>4. Typing'
  BY <1>1 DEF IInv, Tied, Typing, Underway
<1> QED BY <1>1, <1>3, <1>4, ProcessorInv

(* What is held is released. *)
LEMMA ReleasedUnread ==
  ASSUME TypeOK, Releases, pty' = pty
  PROVE  Unread' = pty
<1>1. answer'.held = <<>> /\ pty \in Seq(PtyItem)
  BY DEF Releases, NoAnswer, TypeOK
<1>2. <<>> \o pty = pty
  BY <1>1
<1> QED BY <1>1, <1>2 DEF Unread

(* An answer ends. *)
LEMMA EndsInv ==
  ASSUME IInv, AnswerEnds
  PROVE  Tied'
<1>1. /\ session' = Polled(Freed(session)) /\ Unread' = pty
      /\ UNCHANGED <<integrated, typed, entered, shell, place, accepted>>
  BY ReleasedUnread DEF AnswerEnds, IInv
<1>2. Sound(Freed(session), pty, InSpan, accepted, place)
  BY Recorded DEF IInv, Tied
<1>3. Sound(session', Unread', InSpan, accepted, place)
  BY <1>1, <1>2, PolledSound
<1>4. Typing'
  BY <1>1 DEF IInv, Tied, Typing, Underway
<1> QED BY <1>1, <1>3, <1>4, ProcessorInv

(* Time passes. *)
LEMMA TimeInv ==
  ASSUME IInv, TimePasses
  PROVE  Tied'
<1>1. /\ session' = IF DeadlineReached(Later(session)) THEN Polled(Later(session))
                                                       ELSE Later(session)
      /\ Unread' = Unread
      /\ UNCHANGED <<integrated, typed, entered, shell, place, accepted>>
  BY DEF TimePasses, Later, Aged, Unread
<1>2. Later(session) \in SessionState /\ Quieter(session, Later(session))
  BY LaterOlder, OlderQuieter DEF IInv, TypeOK
<1>3. Sound(Later(session), Unread, InSpan, accepted, place)
  BY <1>2, QuieterSound DEF IInv, Tied
<1>4. Sound(session', Unread', InSpan, accepted, place)
  BY <1>1, <1>3, PolledSound
<1>5. Typing'
  BY <1>1 DEF IInv, Tied, Typing, Underway
<1> QED BY <1>1, <1>4, <1>5, ProcessorInv

(* koshell's own output, or a resize. *)
LEMMA RepaintInv ==
  ASSUME IInv, Repaint
  PROVE  Tied'
<1>1. PICK line \in {session.line, NoQuestion}, shape \in Shapes :
        /\ session' = Polled([session EXCEPT !.line = line, !.shape = shape])
        /\ Unread' = Unread
        /\ UNCHANGED <<integrated, typed, entered, shell, place, accepted>>
  BY DEF Repaint, hold, Unread
<1> DEFINE u == [session EXCEPT !.line = line, !.shape = shape]
<1>2. u \in SessionState /\ Quieter(session, u)
  BY RepaintQuieter DEF IInv, TypeOK
<1>3. session' = Polled(u)
  BY <1>1
<1> HIDE DEF u
<1>4. Sound(u, Unread, InSpan, accepted, place)
  BY <1>2, QuieterSound DEF IInv, Tied
<1>5. Sound(session', Unread', InSpan, accepted, place)
  BY <1>1, <1>3, <1>4, PolledSound
<1>6. Typing'
  BY <1>1 DEF IInv, Tied, Typing, Underway
<1> QED BY <1>1, <1>5, <1>6, ProcessorInv

(* Enter: the processor reads the line before the shell does. *)
LEMMA EnterInv ==
  ASSUME IInv, PressEnter
  PROVE  Tied'
<1>1. /\ Len(entered) < 1 /\ session' = Polled(CaptureSubmittedLine(session))
      /\ entered' = Append(entered, typed) /\ typed' = NoQuestion
      /\ Unread' = Unread
      /\ UNCHANGED <<integrated, shell, place, accepted>>
  BY DEF PressEnter, hold, Unread
<1>2. Sound(CaptureSubmittedLine(session), Unread, InSpan, accepted, place)
  <2>1. \A q \in Questions : place[q] \in {"unused", "prompt", "program"}
    BY DEF IInv, TypeOK
  <2> QED BY <2>1, CaptureSound DEF IInv, Tied, Typing
<1>3. Sound(session', Unread', InSpan, accepted, place)
  BY <1>1, <1>2, PolledSound
<1>4. entered' = <<typed>> /\ typed \in Lines
  <2>1. entered \in Seq(Lines)
    BY DEF IInv, TypeOK
  <2>2. entered = <<>>
    BY <1>1, <2>1
  <2> QED BY <1>1, <2>2 DEF IInv, TypeOK
<1>5. Typing'
  <2>1. ASSUME NEW q \in Questions, typed' = q \/ entered' = <<q>>
        PROVE  Underway(q)'
    <3>1. <<typed>> = <<q>>
      BY <1>1, <1>4, <2>1, QuestionsAssumption
    <3>2. typed = q
      BY <3>1
    <3> QED BY <1>1, <3>2 DEF IInv, Tied, Typing, Underway
  <2>2. Len(entered') = 1
    BY <1>4
  <2> QED BY <1>1, <2>1, <2>2 DEF IInv, Tied, Typing
<1> QED BY <1>1, <1>3, <1>5, ProcessorInv

(* Ctrl+C. *)
LEMMA InterruptInv ==
  ASSUME IInv, PressInterrupt
  PROVE  Tied'
<1>1. /\ typed' = NoQuestion /\ TypeOK /\ pty' = pty
      /\ UNCHANGED <<integrated, entered, shell, place, accepted>>
  BY DEF PressInterrupt, IInv
<1>2. Sound(session', Unread', InSpan, accepted, place)
  <2>1. CASE session.alt
    <3>1. session' = session /\ Unread' = Unread
      BY <1>1, <2>1, InterruptSends DEF PressInterrupt, hold, Unread
    <3> QED BY <3>1 DEF IInv, Tied
  <2>2. CASE ~session.alt
    <3>1. session' = Freed(Interrupted(session)) /\ Unread' = pty
      BY <1>1, <2>2, InterruptSends, ReleasedUnread DEF PressInterrupt
    <3>2. Interrupted(session) \in SessionState /\ Quieter(session, Interrupted(session))
      BY <1>1, InterruptedQuieter DEF TypeOK
    <3>3. Sound(Interrupted(session), Unread, InSpan, accepted, place)
      BY <3>2, QuieterSound DEF IInv, Tied
    <3> QED BY <3>1, <3>3, Recorded
  <2> QED BY <2>1, <2>2
<1>3. Typing'
  BY <1>1, QuestionsAssumption DEF IInv, Tied, Typing, Underway
<1> QED BY <1>1, <1>2, <1>3, ProcessorInv

(* The steps of the shell, its programs and the user: the session is as it was. *)
LEMMA EnvironmentInv ==
  ASSUME session' = session, integrated' = integrated,
         NEW last, last = InSpan', Sound(session, Unread', last, accepted', place'), Typing'
  PROVE  Tied'
<1>1. Sound(session, Unread, InSpan, accepted, place)'
  BY DEF Sound, Tape, Stream, Follows, Marked, Fresh, Shown, Screen, Known
<1> QED BY <1>1 DEF Tied

(* A sequence of one element. *)
LEMMA OneLine ==
  ASSUME NEW S, NEW e \in Seq(S), Len(e) <= 1, e # <<>>
  PROVE  Head(e) \in S /\ Tail(e) = <<>> /\ e = <<Head(e)>>
<1>1. Len(e) # 0
  <2> SUFFICES ASSUME Len(e) = 0 PROVE e = <<>>
    OBVIOUS
  <2> QED OBVIOUS
<1>2. Len(e) = 1
  <2>1. Len(e) \in Nat
    OBVIOUS
  <2> QED BY <1>1, <2>1
<1>3. Head(e) = e[1] /\ e[1] \in S
  BY <1>2
<1>4. Tail(e) \in Seq(S) /\ Len(Tail(e)) = 0
  BY <1>2
<1>5. Tail(e) = <<>>
  <2> DEFINE t == Tail(e)
  <2>1. t \in Seq(S) /\ Len(t) = 0
    BY <1>4
  <2> HIDE DEF t
  <2>2. t = <<>>
    BY <2>1
  <2> QED BY <2>2 DEF t
<1>6. e = <<e[1]>>
  BY <1>2
<1> QED BY <1>3, <1>5, <1>6

(* What has been entered is one line. *)
LEMMA EnteredLine ==
  ASSUME IInv, entered # <<>>
  PROVE  /\ Head(entered) \in Lines /\ Tail(entered) = <<>> /\ entered = <<Head(entered)>>
         /\ typed = NoQuestion
         /\ Head(entered) # NoQuestion => Head(entered) \in Questions /\ Underway(Head(entered))
<1>1. entered \in Seq(Lines) /\ Len(entered) <= 1
  BY DEF IInv, Tied, TypeOK, Typing
<1>2. Head(entered) \in Lines /\ Tail(entered) = <<>> /\ entered = <<Head(entered)>>
  BY <1>1, OneLine
<1>3. Head(entered) # NoQuestion => Head(entered) \in Questions
  BY <1>2 DEF Lines
<1>4. typed = NoQuestion
  BY DEF IInv, Tied, Typing
<1>5. \A q \in Questions : entered = <<q>> => Underway(q)
  BY DEF IInv, Tied, Typing
<1> QED BY <1>2, <1>3, <1>4, <1>5

(* A line with a question is typed, and shown for the first time. *)
LEMMA TypeInv ==
  ASSUME IInv, NEW q \in Questions, Type(q)
  PROVE  Tied'
<1> DEFINE where == IF shell.running THEN "program" ELSE "prompt"
           item == Output(q, "Other", OnAlt)
<1>1. /\ place[q] = "unused" /\ typed = NoQuestion /\ entered = <<>>
      /\ typed' = q /\ place' = [place EXCEPT ![q] = where]
      /\ pty' = Append(pty, item)
      /\ UNCHANGED <<session, integrated, hold, entered, shell, accepted>>
  BY DEF Type
<1>2. place \in [Questions -> {"unused", "prompt", "program"}] /\ session \in SessionState
      /\ where \in {"prompt", "program"}
  BY DEF IInv, TypeOK
<1>3. /\ item \in PtyItem /\ item.kind = "output" /\ item.line = q
  BY OnAltTyped, OutputTyped DEF IInv, Lines, Shapes
<1> HIDE DEF item, where
<1>4. /\ ~Touched(session, q) /\ session.line # q
      /\ \A i \in 1..Len(Unread) : ~Shows(Unread[i], q)
      /\ Sound(session, Unread, InSpan, accepted, place')
  BY <1>1, <1>2, TypedFresh DEF IInv, Tied
<1>5. place'[q] = where /\ \A o \in Questions : o # q => place'[o] = place[o]
  BY <1>1, <1>2
<1>6. MayFollow(session, Unread, item, InSpan, InSpan, accepted, place')
  <2>1. InSpan \in Spans
    BY DEF InSpan, Spans, IInv, TypeOK
  <2>2. where = "prompt" => InSpan = <<>>
    BY DEF where, InSpan
  <2>3. \A o \in Questions : Shows(item, o) => o = q
    BY <1>3 DEF Shows
  <2>4. \A o \in Questions : ~IsStart(item, o)
    BY <1>3 DEF IsStart
  <2>5. Follows(item, InSpan, InSpan, place')
    BY <1>3, <1>5, <2>2 DEF Follows
  <2> QED BY <1>2, <1>3, <1>4, <1>5, <2>1, <2>3, <2>4, <2>5 DEF MayFollow
<1>7. Sound(session, Unread', InSpan, accepted', place')
  <2>1. Unread' = Append(Unread, item)
    BY <1>1, <1>3, UnreadGrowsOne DEF IInv
  <2> QED BY <1>1, <1>4, <1>6, <2>1, AppendSound
<1>8. q \notin accepted
  BY <1>1 DEF IInv, Tied, Typing
<1>9. Typing'
  <2>1. \A o \in Questions : (typed' = o \/ entered' = <<o>>) => Underway(o)'
    <3> SUFFICES ASSUME NEW o \in Questions, typed' = o \/ entered' = <<o>>
                 PROVE  Underway(o)'
      OBVIOUS
    <3>1. o = q
      BY <1>1
    <3> QED BY <1>1, <1>5, <1>8, <3>1 DEF Underway, where
  <2>2. \A o \in accepted' : place'[o] = "prompt"
    BY <1>1, <1>5, <1>8 DEF IInv, Tied, Typing, TypeOK
  <2> QED BY <1>1, <2>1, <2>2 DEF IInv, Tied, Typing
<1>10. InSpan' = InSpan
  BY <1>1 DEF InSpan
<1> QED BY <1>1, <1>7, <1>9, <1>10, EnvironmentInv

(* The line editor keeps the line: shown again, but at an integrated prompt. *)
LEMMA EditorInv ==
  ASSUME IInv, EditorKeepsLine
  PROVE  Tied'
<1> DEFINE asked == Head(entered)  item == Output(asked, "Other", FALSE)
<1>1. /\ integrated /\ ~shell.running /\ entered # <<>>
      /\ entered' = Tail(entered) /\ typed' = asked /\ pty' = Append(pty, item)
      /\ UNCHANGED <<session, integrated, hold, shell, place, accepted>>
  BY DEF EditorKeepsLine
<1>2. /\ asked \in Lines /\ Tail(entered) = <<>> /\ entered = <<asked>>
      /\ asked # NoQuestion => asked \in Questions /\ Underway(asked)
  BY <1>1, EnteredLine
<1>3. /\ item \in PtyItem /\ item.kind = "output" /\ item.line = asked
  BY <1>2, OutputTyped DEF Shapes
<1> HIDE DEF item, asked
<1>4. asked \in Questions => place[asked] = "prompt"
  BY <1>1, <1>2, QuestionsAssumption DEF Underway
<1>5. InSpan = <<>> /\ InSpan' = <<>>
  BY <1>1 DEF InSpan
<1>6. MayFollow(session, Unread, item, <<>>, <<>>, accepted, place)
  <2>1. <<>> \in Spans
    BY DEF Spans
  <2>2. \A o \in Questions : Shows(item, o) => o = asked
    BY <1>3 DEF Shows
  <2>3. \A o \in Questions : ~IsStart(item, o)
    BY <1>3 DEF IsStart
  <2>4. Follows(item, <<>>, <<>>, place)
    BY <1>3 DEF Follows
  <2>5. \A o \in Questions : o = asked => place[o] # "unused" /\ ~Screen(o, place)
    BY <1>1, <1>4 DEF Screen
  <2> QED BY <1>1, <1>3, <2>1, <2>2, <2>3, <2>4, <2>5 DEF MayFollow
<1>7. Sound(session, Unread', InSpan', accepted', place')
  <2>1. Unread' = Append(Unread, item)
    BY <1>1, <1>3, UnreadGrowsOne DEF IInv
  <2> QED BY <1>1, <1>5, <1>6, <2>1, AppendSound DEF IInv, Tied
<1>8. Typing'
  <2>1. ASSUME NEW q \in Questions, typed' = q \/ entered' = <<q>>
        PROVE  Underway(q)'
    <3>1. entered' = <<>> /\ asked = q
      BY <1>1, <1>2, <2>1
    <3> QED BY <1>1, <1>2, <2>1, <3>1, QuestionsAssumption DEF Underway
  <2>2. entered' = <<>> /\ Len(entered') <= 1
    BY <1>1, <1>2
  <2> QED BY <1>1, <2>1, <2>2 DEF IInv, Tied, Typing
<1> QED BY <1>1, <1>5, <1>7, <1>8, EnvironmentInv

(* A program writes. *)
LEMMA WritesInv ==
  ASSUME IInv, ProgramWrites
  PROVE  Tied'
<1>1. PICK shape \in Shapes, alt \in BOOLEAN :
        pty' = Append(pty, Output(NoQuestion, shape, alt))
  BY DEF ProgramWrites
<1>2. UNCHANGED <<session, integrated, hold, typed, entered, shell, place, accepted>>
  BY DEF ProgramWrites
<1> DEFINE item == Output(NoQuestion, shape, alt)
<1>3. item \in PtyItem /\ Blank(item)
  BY OutputTyped DEF Lines
<1> HIDE DEF item
<1>4. Sound(session, Unread', InSpan, accepted, place)
  <2>1. Unread' = Append(Unread, item)
    BY <1>1, <1>2, <1>3, UnreadGrowsOne DEF IInv, item
  <2> QED BY <1>3, <2>1, BlankSound DEF IInv, Tied
<1>5. InSpan' = InSpan /\ Typing'
  BY <1>2 DEF InSpan, IInv, Tied, Typing, Underway
<1> QED BY <1>2, <1>4, <1>5, EnvironmentInv

(* The line feed and the prompt are lines without a question. *)
LEMMA NewLineBlank ==
  ASSUME IInv
  PROVE  NewLine \in PtyItem /\ Blank(NewLine) /\ Prompt \in PtyItem /\ Blank(Prompt)
<1>1. OnAlt \in BOOLEAN
  BY OnAltTyped DEF IInv
<1> QED BY <1>1, OutputTyped DEF NewLine, Prompt, Lines, Shapes

(* A program reads the line. *)
LEMMA ReadsInv ==
  ASSUME IInv, ProgramReads
  PROVE  Tied'
<1>1. /\ entered # <<>> /\ entered' = Tail(entered) /\ pty' = Append(pty, NewLine)
      /\ UNCHANGED <<session, integrated, hold, typed, shell, place, accepted>>
  BY DEF ProgramReads
<1>2. Sound(session, Unread', InSpan, accepted, place)
  <2>1. Unread' = Append(Unread, NewLine)
    BY <1>1, NewLineBlank, UnreadGrowsOne DEF IInv
  <2> QED BY <2>1, NewLineBlank, BlankSound DEF IInv, Tied
<1>3. entered' = <<>> /\ typed = NoQuestion
  BY <1>1, EnteredLine
<1>4. Typing'
  <2>1. Len(entered') <= 1 /\ \A q \in Questions : typed' # q /\ entered' # <<q>>
    BY <1>1, <1>3, QuestionsAssumption
  <2> QED BY <1>1, <1>3, <2>1 DEF IInv, Tied, Typing
<1>5. InSpan' = InSpan
  BY <1>1 DEF InSpan
<1> QED BY <1>1, <1>2, <1>4, <1>5, EnvironmentInv

(* Markers are written one behind the other. *)
LEMMA Chained ==
  ASSUME NEW S, NEW p \in Seq(S), NEW a \in S, NEW b \in S
  PROVE  /\ p \o <<a>> = Append(p, a) /\ p \o <<>> = p
         /\ p \o <<a, b>> = Append(Append(p, a), b)
         /\ Append(p, a) \in Seq(S)
OBVIOUS

(* A line the shell takes: it scrolls, and is accepted. *)
Taken == Accepting(Head(entered))

(* A line the shell takes scrolls, and its start marker follows. *)
LEMMA LineTaken ==
  ASSUME IInv, ~shell.running, entered # <<>>
  PROVE  /\ Sound(session, Append(Unread, NewLine), <<>>, Taken, place)
         /\ integrated => Sound(session, Append(Append(Unread, NewLine), Start(Head(entered))),
                                <<Head(entered)>>, Taken, place)
         /\ Head(entered) \in Lines /\ Tail(entered) = <<>> /\ typed = NoQuestion
         /\ Taken \subseteq Questions /\ \A q \in Taken : place[q] = "prompt"
         /\ integrated /\ Head(entered) \in Questions => Head(entered) \in Taken
         /\ InSpan = <<>>
<1> DEFINE asked == Head(entered)  r == Append(Unread, NewLine)
<1>1. /\ asked \in Lines /\ Tail(entered) = <<>> /\ typed = NoQuestion
      /\ asked # NoQuestion => asked \in Questions /\ Underway(asked)
  BY EnteredLine
<1> HIDE DEF asked
<1>2. asked \in Questions => place[asked] = "prompt" /\ asked \notin accepted
  BY <1>1, QuestionsAssumption DEF Underway
<1>3. Taken = IF integrated THEN accepted \cup ({asked} \ {NoQuestion}) ELSE accepted
  BY DEF Taken, Accepting, asked
<1>4. Taken \subseteq Questions /\ \A q \in Taken : place[q] = "prompt"
  BY <1>1, <1>2, <1>3 DEF IInv, Tied, TypeOK, Typing
<1>5. InSpan = <<>>
  BY DEF InSpan
<1>6. Sound(session, r, <<>>, accepted, place)
  BY <1>5, NewLineBlank, BlankSound DEF IInv, Tied
<1>7. Sound(session, r, <<>>, Taken, place)
  BY <1>3, <1>6, MoreAccepted
<1>8. ASSUME integrated
      PROVE  Sound(session, Append(r, Start(asked)), <<asked>>, Taken, place)
  <2> DEFINE item == Start(asked)
  <2>1. item \in PtyItem /\ item.kind = "command_start" /\ item.question = asked
    BY <1>1, MarkerTyped
  <2> HIDE DEF item
  <2>2. Unread \in Seq(PtyItem) /\ NewLine \in PtyItem /\ Blank(NewLine)
    BY NewLineBlank, UnreadIs DEF IInv
  <2>3. Len(r) = Len(Unread) + 1 /\ r[Len(r)] = NewLine /\ r # <<>>
    BY <2>2
  <2>4. \A q \in Questions : IsStart(item, q) => q = asked
    BY <2>1 DEF IsStart
  <2>5. \A q \in Questions : ~Shows(item, q)
    BY <2>1 DEF Shows
  <2>6. asked \in Questions => /\ asked \in Taken /\ ~Touched(session, asked)
                               /\ \A i \in 1..Len(r) : ~IsStart(r[i], asked)
    <3> SUFFICES ASSUME asked \in Questions
                 PROVE  /\ asked \in Taken /\ ~Touched(session, asked)
                        /\ \A i \in 1..Len(r) : ~IsStart(r[i], asked)
      OBVIOUS
    <3>1. asked \in Taken
      BY <1>3, <1>8, QuestionsAssumption
    <3>2. ~Touched(session, asked)
      BY <1>2, <1>8 DEF IInv, Tied, Sound, Known
    <3>3. \A i \in 1..Len(r) : ~IsStart(r[i], asked)
      BY <1>2, <1>6 DEF Sound, Tape, Marked
    <3> QED BY <3>1, <3>2, <3>3
  <2>7. <<asked>> \in Spans
    BY <1>1 DEF Spans
  <2>8. Follows(item, <<>>, <<asked>>, place)
    BY <2>1 DEF Follows
  <2>9. MayFollow(session, r, item, <<>>, <<asked>>, Taken, place)
    BY <1>8, <2>1, <2>2, <2>3, <2>4, <2>5, <2>6, <2>7, <2>8 DEF MayFollow
  <2> HIDE DEF r
  <2> QED BY <1>7, <2>9, AppendSound DEF item
<1>9. integrated /\ asked \in Questions => asked \in Taken
  BY <1>3, QuestionsAssumption
<1> QED BY <1>1, <1>4, <1>5, <1>7, <1>8, <1>9 DEF asked

(* The end of the span, and a prompt. *)
LEMMA EndWritten ==
  ASSUME NEW s, NEW p, NEW acc, NEW pl, NEW asked \in Lines,
         Sound(s, p, <<asked>>, acc, pl), integrated
  PROVE  Sound(s, Append(p, End(asked)), <<>>, acc, pl)
<1> DEFINE item == End(asked)
<1>1. item \in PtyItem /\ item.kind = "command_end" /\ item.question = asked
  BY MarkerTyped
<1> HIDE DEF item
<1>2. MayFollow(s, p, item, <<asked>>, <<>>, acc, pl)
  BY <1>1 DEF MayFollow, Follows, IsStart, Shows, Spans
<1> QED BY <1>2, AppendSound DEF item

(* The shell runs a line, and reports its start or, for a line the parser
   rejects, nothing. *)
LEMMA RunsInv ==
  ASSUME ~IgnoresRepeats, IInv, ShellRuns
  PROVE  Tied'
<1> DEFINE asked == Head(entered)  r == Append(Unread, NewLine)
<1>1. PICK marks \in Markings :
        /\ shell' = [running |-> TRUE, marks |-> marks,
                     question |-> IF marks = "both" THEN asked ELSE NoQuestion]
        /\ pty' = pty \o <<NewLine>> \o
             Markers(CASE marks = "both" -> <<Start(asked)>>
                       [] marks = "start" -> <<Start(NoQuestion)>>
                       [] marks = "none" -> <<>>)
  BY DEF ShellRuns
<1>2. /\ ~shell.running /\ entered # <<>> /\ entered' = Tail(entered) /\ accepted' = Taken
      /\ UNCHANGED <<session, integrated, hold, typed, place>>
  BY DEF ShellRuns, Taken
<1>3. /\ Sound(session, r, <<>>, Taken, place)
      /\ integrated => Sound(session, Append(r, Start(asked)), <<asked>>, Taken, place)
      /\ asked \in Lines /\ Tail(entered) = <<>> /\ typed = NoQuestion
      /\ Taken \subseteq Questions /\ \A q \in Taken : place[q] = "prompt"
      /\ integrated /\ asked \in Questions => asked \in Taken
  BY <1>2, LineTaken
<1>4. Unread \in Seq(PtyItem) /\ NewLine \in PtyItem /\ Start(asked) \in PtyItem
  BY <1>3, NewLineBlank, MarkerTyped, UnreadIs DEF IInv
<1> HIDE DEF asked
<1>5. /\ Unread \o <<NewLine>> = r /\ r \in Seq(PtyItem) /\ r \o <<>> = r
      /\ r \o <<Start(asked)>> = Append(r, Start(asked))
  BY <1>4, Chained
<1> HIDE DEF r
<1>6. /\ InSpan' = IF marks = "both" THEN <<asked>> ELSE <<>>
      /\ shell' \in [running : BOOLEAN, question : Lines, marks : Markings]
      /\ shell'.question # NoQuestion => integrated /\ shell'.question = asked
  BY <1>1, <1>3 DEF InSpan, Markings, Lines
<1>7. Sound(session, Unread', InSpan', accepted', place')
  <2>1. marks \in {"both", "none"} /\ (marks = "both" => integrated)
    BY <1>1 DEF Markings
  <2>4. \A m \in Seq(PtyItem) : pty' = pty \o <<NewLine>> \o m => Unread' = r \o m
    <3>1. <<NewLine>> \in Seq(PtyItem)
      BY <1>4
    <3> QED BY <1>2, <1>5, <3>1, UnreadGrows DEF IInv
  <2>5. <<Start(asked)>> \in Seq(PtyItem) /\ <<>> \in Seq(PtyItem)
    BY <1>4
  <2>2. CASE marks = "both"
    <3>1. pty' = pty \o <<NewLine>> \o <<Start(asked)>>
      BY <1>1, <2>1, <2>2 DEF Markers
    <3>2. Unread' = r \o <<Start(asked)>>
      BY <2>4, <2>5, <3>1
    <3> QED BY <1>2, <1>3, <1>5, <1>6, <2>1, <2>2, <3>2
  <2>3. CASE marks = "none"
    <3>1. pty' = pty \o <<NewLine>> \o <<>>
      BY <1>1, <2>3 DEF Markers
    <3>2. Unread' = r \o <<>>
      BY <2>4, <2>5, <3>1
    <3> QED BY <1>2, <1>3, <1>5, <1>6, <2>3, <3>2
  <2> QED BY <2>1, <2>2, <2>3
<1>8. Typing'
  <2>1. entered' = <<>> /\ typed' = NoQuestion
    BY <1>2, <1>3
  <2>2. Len(entered') <= 1 /\ \A q \in Questions : typed' # q /\ entered' # <<q>>
    BY <2>1, QuestionsAssumption
  <2>3. shell'.question \in Questions => shell'.question \in accepted'
    BY <1>2, <1>3, <1>6, QuestionsAssumption
  <2> QED BY <1>2, <1>3, <2>1, <2>2, <2>3 DEF Typing
<1> QED BY <1>2, <1>6, <1>7, <1>8, EnvironmentInv

(* The shell skips a comment line, and reports a start and an end. *)
LEMMA SkipsInv ==
  ASSUME IInv, ShellSkipsComment
  PROVE  Tied'
<1> DEFINE asked == Head(entered)  r == Append(Unread, NewLine)
<1>1. /\ ~shell.running /\ entered # <<>> /\ asked # NoQuestion
      /\ pty' = pty \o <<NewLine>> \o Markers(<<Start(asked), End(asked)>>) \o <<Prompt>>
      /\ entered' = Tail(entered) /\ accepted' = Accepting(asked)
      /\ UNCHANGED <<session, integrated, hold, typed, shell, place>>
  BY DEF ShellSkipsComment
<1>2. /\ Sound(session, r, <<>>, Taken, place)
      /\ integrated => Sound(session, Append(r, Start(asked)), <<asked>>, Taken, place)
      /\ asked \in Lines /\ Tail(entered) = <<>> /\ typed = NoQuestion
      /\ Taken \subseteq Questions /\ \A q \in Taken : place[q] = "prompt"
      /\ integrated /\ asked \in Questions => asked \in Taken
      /\ InSpan = <<>>
  BY <1>1, LineTaken
<1>3. accepted' = Taken
  BY <1>1 DEF Taken
<1> HIDE DEF asked
<1>4. /\ Unread \in Seq(PtyItem) /\ NewLine \in PtyItem /\ Start(asked) \in PtyItem
      /\ End(asked) \in PtyItem /\ Prompt \in PtyItem /\ Blank(Prompt)
  BY <1>2, NewLineBlank, MarkerTyped, UnreadIs DEF IInv
<1>5. Sound(session, Unread', <<>>, Taken, place)
  <2>1. Unread \o <<NewLine>> = r /\ r \in Seq(PtyItem)
    BY <1>4, Chained
  <2> HIDE DEF r
  <2> DEFINE m == Markers(<<Start(asked), End(asked)>>)
  <2>2. Unread' = r \o m \o <<Prompt>>
    <3>1. <<NewLine>> \in Seq(PtyItem) /\ <<Prompt>> \in Seq(PtyItem) /\ m \in Seq(PtyItem)
      BY <1>4 DEF Markers
    <3>2. pty' = pty \o <<NewLine>> \o m \o <<Prompt>>
      BY <1>1
    <3> HIDE DEF m
    <3> QED BY <1>1, <2>1, <3>1, <3>2, UnreadGrows DEF IInv
  <2>3. CASE integrated
    <3> DEFINE t == Append(Append(r, Start(asked)), End(asked))
    <3>1. Sound(session, t, <<>>, Taken, place)
      BY <1>2, <2>3, EndWritten
    <3>2. r \o <<Start(asked), End(asked)>> = t /\ t \in Seq(PtyItem)
      BY <1>4, <2>1, Chained
    <3> HIDE DEF t
    <3>3. t \o <<Prompt>> = Append(t, Prompt)
      BY <1>4, <3>2, Chained
    <3>4. Unread' = Append(t, Prompt)
      BY <2>2, <2>3, <3>2, <3>3 DEF Markers
    <3> QED BY <1>4, <3>1, <3>4, BlankSound
  <2>4. CASE ~integrated
    <3>1. r \o <<>> = r /\ r \o <<Prompt>> = Append(r, Prompt)
      BY <1>4, <2>1, Chained
    <3>2. Unread' = Append(r, Prompt)
      BY <2>2, <2>4, <3>1 DEF Markers
    <3> QED BY <1>2, <1>4, <3>2, BlankSound
  <2> QED BY <2>3, <2>4
<1>6. InSpan' = <<>>
  BY <1>1, <1>2 DEF InSpan
<1>7. Typing'
  <2>1. entered' = <<>> /\ typed' = NoQuestion
    BY <1>1, <1>2
  <2>2. Len(entered') <= 1 /\ \A q \in Questions : typed' # q /\ entered' # <<q>>
    BY <2>1, QuestionsAssumption
  <2>3. shell'.question \in Questions => shell'.question \in accepted'
    BY <1>1 DEF Accepting, Typing, Tied, IInv
  <2> QED BY <1>1, <1>2, <1>3, <2>1, <2>2, <2>3 DEF Typing, Tied, IInv
<1> QED BY <1>1, <1>3, <1>5, <1>6, <1>7, EnvironmentInv

(* The command returns, and its end is reported if its start was. *)
LEMMA ReturnsInv ==
  ASSUME ~TypeAhead, IInv, CommandReturns
  PROVE  Tied'
<1> DEFINE asked == shell.question
<1>1. /\ shell.running /\ typed = NoQuestion /\ entered = <<>>
      /\ pty' = pty \o Markers(IF shell.marks = "both" THEN <<End(asked)>> ELSE <<>>)
                \o <<Prompt>>
      /\ shell' = AtPrompt
      /\ UNCHANGED <<session, integrated, hold, typed, entered, place, accepted>>
  BY DEF CommandReturns
<1>2. asked \in Lines /\ Unread \in Seq(PtyItem) /\ shell.marks \in Markings
  BY UnreadIs DEF IInv, TypeOK
<1> HIDE DEF asked
<1>3. Prompt \in PtyItem /\ Blank(Prompt) /\ End(asked) \in PtyItem
  BY <1>2, NewLineBlank, MarkerTyped
<1>4. Sound(session, Unread', <<>>, accepted, place)
  <2> DEFINE m == Markers(IF shell.marks = "both" THEN <<End(asked)>> ELSE <<>>)
  <2>1. Unread' = Unread \o m \o <<Prompt>>
    <3>1. <<Prompt>> \in Seq(PtyItem) /\ m \in Seq(PtyItem)
      BY <1>3 DEF Markers
    <3>2. pty' = pty \o m \o <<Prompt>>
      BY <1>1
    <3> HIDE DEF m
    <3> QED BY <1>1, <3>1, <3>2, UnreadGrows DEF IInv
  <2>2. CASE shell.marks = "both"
    <3> DEFINE t == Append(Unread, End(asked))
    <3>1. integrated /\ InSpan = <<asked>>
      BY <1>1, <1>2, <2>2 DEF Markings, InSpan, asked
    <3>2. Sound(session, t, <<>>, accepted, place)
      BY <1>2, <3>1, EndWritten DEF IInv, Tied
    <3>3. Unread \o <<End(asked)>> = t /\ t \in Seq(PtyItem)
      BY <1>2, <1>3, Chained
    <3> HIDE DEF t
    <3>4. t \o <<Prompt>> = Append(t, Prompt)
      BY <1>3, <3>3, Chained
    <3>5. Unread' = Append(t, Prompt)
      BY <2>1, <2>2, <3>1, <3>3, <3>4 DEF Markers
    <3> QED BY <1>3, <3>2, <3>5, BlankSound
  <2>3. CASE shell.marks # "both"
    <3>1. InSpan = <<>>
      BY <2>3 DEF InSpan
    <3>2. Unread \o <<>> = Unread /\ Unread \o <<Prompt>> = Append(Unread, Prompt)
      BY <1>2, <1>3, Chained
    <3>3. Unread' = Append(Unread, Prompt)
      BY <2>1, <2>3, <3>2 DEF Markers
    <3> QED BY <1>3, <3>1, <3>3, BlankSound DEF IInv, Tied
  <2> QED BY <2>2, <2>3
<1>5. /\ InSpan' = <<>> /\ shell'.question = NoQuestion
  BY <1>1 DEF InSpan, AtPrompt
<1>6. Typing'
  <2>1. Len(entered') <= 1 /\ \A q \in Questions : typed' # q /\ entered' # <<q>>
    BY <1>1, QuestionsAssumption
  <2> QED BY <1>1, <1>5, <2>1, QuestionsAssumption DEF IInv, Tied, Typing
<1> QED BY <1>1, <1>4, <1>5, <1>6, EnvironmentInv

(* Every step keeps the invariant. *)
LEMMA StepInv ==
  ASSUME ~IgnoresRepeats, ~TypeAhead, ~MidLine, IInv, [Next]_vars
  PROVE  IInv'
<1>1. TypeOK' /\ Held'
  BY StepTypes, HeldKept DEF IInv
<1>2. CASE UNCHANGED vars
  <2>1. /\ session' = session /\ integrated' = integrated /\ Unread' = Unread
        /\ typed' = typed /\ entered' = entered /\ shell' = shell /\ place' = place
        /\ accepted' = accepted
    BY <1>2 DEF vars, Unread
  <2>2. Typing' /\ Sound(session', Unread', InSpan, accepted, place)
    BY <2>1 DEF IInv, Tied, Typing, Underway
  <2>3. Tied'
    BY <2>1, <2>2, ProcessorInv
  <2> QED BY <1>1, <2>3 DEF IInv
<1>3. ASSUME NEW q \in Questions, Type(q) PROVE Tied'
  BY <1>3, TypeInv
<1>4. CASE Next
  <2>1. Tied'
    BY <1>3, <1>4, TakeInv, BeginsInv, EndsInv, TimeInv, RepaintInv, EnterInv, InterruptInv,
       EditorInv, RunsInv, SkipsInv, WritesInv, ReadsInv, ReturnsInv DEF Next
  <2> QED BY <1>1, <2>1 DEF IInv
<1> QED BY <1>2, <1>4

(* trigger.rs 480-708: a question is sent once, and after the notice that it was
   cancelled never; and what was typed at an integrated prompt is of a line the
   shell accepted. *)
THEOREM QuestionsAlwaysSound ==
  ~IgnoresRepeats /\ ~TypeAhead /\ ~MidLine => (Spec => []QuestionsSound)
<1> SUFFICES ASSUME ~IgnoresRepeats, ~TypeAhead, ~MidLine PROVE Spec => []QuestionsSound
  OBVIOUS
<1>1. IInv => QuestionsSound
  <2> SUFFICES ASSUME IInv PROVE QuestionsSound
    OBVIOUS
  <2>1. Once(session) /\ Known(session, accepted, place)
    BY DEF IInv, Tied, Sound
  <2>2. SettledOnce
    <3> SUFFICES ASSUME NEW q \in Questions
                 PROVE  /\ \A i, j \in Fires(q) : i = j
                        /\ Fires(q) = {} \/ q \notin session.cancelled \cup Pending(session)
      BY DEF SettledOnce
    <3>1. Fires(q) # {} => q \in Fired(session)
      BY DEF Fires, Fired
    <3> QED BY <2>1, <3>1 DEF Once, Fires
  <2>3. PromptQuestionsAreAccepted
    <3> SUFFICES ASSUME integrated, NEW i \in DOMAIN session.fired,
                        place[session.fired[i].question] = "prompt"
                 PROVE  session.fired[i].question \in accepted
      BY DEF PromptQuestionsAreAccepted
    <3>1. session.fired[i] \in Trigger
      BY SessionTyped DEF IInv, TypeOK
    <3>2. session.fired[i].question \in Questions
      BY <3>1 DEF Trigger
    <3>3. Touched(session, session.fired[i].question)
      BY DEF Touched, Fired
    <3> QED BY <2>1, <3>2, <3>3 DEF Known
  <2> QED BY <2>2, <2>3 DEF QuestionsSound, IInv
<1>2. IInv /\ [Next]_vars => IInv'
  BY StepInv
<1> QED BY InitInv, <1>1, <1>2, PTL DEF Spec

-----------------------------------------------------------------------------
(* Order.                                                                  *)

(* Of two questions asked in one place the later is not sent before the earlier. *)
InOrder(s, u) ==
  \A i, j \in DOMAIN s.pending :
    LET earlier == s.pending[i]
        later == s.pending[j]
    IN i < j /\ earlier.origin = later.origin /\ earlier.question # later.question =>
         \A n \in DOMAIN u.fired \ DOMAIN s.fired :
           u.fired[n].question = later.question =>
             \E m \in DOMAIN u.fired : m < n /\ u.fired[m].question = earlier.question

(* What is due stays due for who has waited longer in the same place. *)
LEMMA DueBefore ==
  ASSUME NEW s \in SessionState, NEW p \in PendingQuestion, NEW r \in PendingQuestion,
         p.origin = r.origin, r.age <= p.age, Due(s, r)
  PROVE  Due(s, p)
<1>1. /\ p.age \in Nat /\ r.age \in Nat /\ s.quiet \in Nat
      /\ p.origin \in Origins /\ s.shape \in Shapes
  BY PendingTyped, SessionTyped, HorizonNat
<1>2. Tier[p.origin][s.shape] \in Nat /\ MaxWait[p.origin] \in Nat
  BY <1>1, TimesAssumption
<1>3. Stabilized(s, r) => Stabilized(s, p)
  BY <1>1, <1>2 DEF Stabilized, Lesser
<1>4. Maxed(s, r) => Maxed(s, p)
  BY <1>1, <1>2 DEF Maxed
<1> QED BY <1>3, <1>4 DEF Due

(* The poll sends in order: whoever waited longer in the same place is due
   when the other is, and comes earlier in the queue. *)
LEMMA PolledInOrder ==
  ASSUME NEW s, NEW u, Extends(s, u), Once(u), Aging(u)
  PROVE  InOrder(s, Polled(u))
<1> DEFINE v == Polled(u)
<1> HIDE DEF v
<1> SUFFICES ASSUME NEW i \in DOMAIN s.pending, NEW j \in DOMAIN s.pending, i < j,
                    s.pending[i].origin = s.pending[j].origin,
                    NEW n \in DOMAIN v.fired \ DOMAIN s.fired,
                    v.fired[n].question = s.pending[j].question
             PROVE  \E m \in DOMAIN v.fired :
                      m < n /\ v.fired[m].question = s.pending[i].question
  BY DEF InOrder, v
<1>1. /\ u \in SessionState /\ u.fired = s.fired
      /\ i \in DOMAIN u.pending /\ j \in DOMAIN u.pending
      /\ u.pending[i].question = s.pending[i].question
      /\ u.pending[j].question = s.pending[j].question
      /\ u.pending[i].origin = u.pending[j].origin
  BY DEF Extends
<1>2. SameOtherwise(u, v) /\ (v = u \/ \E f, g : Parted(u, v, f, g))
  BY <1>1, PolledParts DEF v
<1>3. PICK f, g : Parted(u, v, f, g)
  BY <1>1, <1>2
<1>4. PICK b \in 1..Len(g) : n = Len(u.fired) + b
  BY <1>1, <1>3 DEF Parted
<1>5. g[b] \in DOMAIN u.pending /\ u.pending[g[b]].question = u.pending[j].question
      /\ Due(u, u.pending[g[b]])
  BY <1>1, <1>3, <1>4 DEF Parted
<1>6. g[b] = j
  BY <1>1, <1>5 DEF Once
<1>7. Due(u, u.pending[i])
  <2>1. u.pending[i] \in PendingQuestion /\ u.pending[j] \in PendingQuestion
    BY <1>1, SessionTyped
  <2>2. u.pending[j].age <= u.pending[i].age
    BY <1>1 DEF Aging
  <2>3. Due(u, u.pending[j])
    BY <1>5, <1>6
  <2> QED BY <1>1, <2>1, <2>2, <2>3, DueBefore
<1>8. PICK a \in 1..Len(g) : g[a] = i
  BY <1>1, <1>3, <1>7 DEF Parted
<1>9. a < b
  <2>1. Len(g) \in Nat /\ (b < a => g[b] < g[a])
    BY <1>3 DEF Parted
  <2>3. i \in Nat /\ j \in Nat /\ i # j
    BY <1>1, SessionTyped
  <2>2. a # b
    BY <1>6, <1>8, <2>3
  <2>4. ~(b < a)
    BY <1>6, <1>8, <2>1, <2>3
  <2> QED BY <2>1, <2>2, <2>4
<1> DEFINE m == Len(u.fired) + a
<1>10. m \in DOMAIN v.fired /\ m < n /\ v.fired[m].question = u.pending[i].question
  <2>1. m \in DOMAIN v.fired
    <3>1. Len(u.fired) \in Nat /\ Len(g) \in Nat /\ DOMAIN v.fired = 1..(Len(u.fired) + Len(g))
      BY <1>3 DEF Parted
    <3> QED BY <3>1
  <2>2. m < n
    <3>1. Len(u.fired) \in Nat /\ a \in Nat /\ b \in Nat
      BY <1>3 DEF Parted
    <3> QED BY <1>4, <1>9, <3>1
  <2>3. v.fired[m].question = u.pending[i].question
    BY <1>3, <1>8 DEF Parted
  <2> QED BY <2>1, <2>2, <2>3
<1> QED BY <1>1, <1>10

(* So does an end marker, which sends the whole queue. *)
LEMMA EndInOrder ==
  ASSUME NEW s \in SessionState, NEW asked \in Lines, Once(s)
  PROVE  InOrder(s, Polled(CommandEnd(s, asked)))
<1> DEFINE u == CommandEnd(s, asked)  k == Len(s.fired)  m == Len(s.pending)
<1>1. /\ u \in SessionState /\ u.pending = <<>>
      /\ s.pending # <<>> =>
           /\ Len(u.fired) = k + m
           /\ \A i \in 1..m : u.fired[k + i].question = s.pending[i].question
  BY EndFires
<1> HIDE DEF u
<1>2. Polled(u) = u
  BY <1>1, PolledEmpty
<1>3. /\ k \in Nat /\ m \in Nat /\ DOMAIN s.pending = 1..m /\ DOMAIN s.fired = 1..k
      /\ DOMAIN u.fired = 1..Len(u.fired)
  BY <1>1, SessionTyped
<1> HIDE DEF k, m
<1> SUFFICES ASSUME NEW i \in DOMAIN s.pending, NEW j \in DOMAIN s.pending, i < j,
                    NEW n \in DOMAIN u.fired \ DOMAIN s.fired,
                    u.fired[n].question = s.pending[j].question
             PROVE  \E l \in DOMAIN u.fired :
                      l < n /\ u.fired[l].question = s.pending[i].question
  BY <1>2 DEF InOrder, u
<1>4. s.pending # <<>>
  BY <1>3
<1>5. DOMAIN u.fired = 1..(k + m)
  BY <1>1, <1>3, <1>4
<1>6. PICK b \in 1..m : n = k + b
  <2>1. k \in Nat /\ m \in Nat /\ n \in 1..(k + m) /\ n \notin 1..k
    BY <1>3, <1>5
  <2> QED BY <2>1, FiredPlaces
<1>7. b = j
  <2>1. s.pending[b].question = s.pending[j].question
    BY <1>1, <1>4, <1>6
  <2>2. b \in DOMAIN s.pending
    BY <1>3
  <2> QED BY <2>1, <2>2 DEF Once
<1>8. k + i \in 1..(k + m) /\ k + i < n
  BY <1>3, <1>6, <1>7
<1> QED BY <1>1, <1>3, <1>4, <1>5, <1>8

(* A step that sends nothing. *)
LEMMA NoneInOrder ==
  ASSUME NEW s, NEW u, u.fired = s.fired
  PROVE  InOrder(s, u)
BY DEF InOrder

(* Every step sends in order. *)
LEMMA StepInOrder ==
  ASSUME IInv, [Next]_vars
  PROVE  InOrder(session, session')
<1>1. /\ session \in SessionState /\ TypeOK
      /\ Sound(session, Unread, InSpan, accepted, place)
      /\ Once(session) /\ Aging(session)
      /\ \A q \in accepted : place[q] = "prompt"
      /\ \A q \in Questions : place[q] \in {"unused", "prompt", "program"}
  BY DEF IInv, Tied, TypeOK, Sound, Typing
<1>2. CASE TakePty
  <2> DEFINE item == Head(pty)
  <2>1. item \in PtyItem /\ pty # <<>>
    BY <1>1, <1>2 DEF TakePty, TypeOK
  <2>2. item.kind \in {"output", "command_start", "command_end"}
    BY <2>1 DEF PtyItem, OutputItem
  <2>3. CASE item.kind = "output"
    <3>1. session' = Polled(session) \/ session' = Polled(RecordOutput(session, item))
      BY <1>2, <2>3 DEF TakePty, TakeOutput
    <3>2. InOrder(session, Polled(session))
      BY <1>1, SameExtends, PolledInOrder
    <3>3. Sound(RecordOutput(session, item), Tail(pty), InSpan, accepted, place)
      BY <2>1, <2>3, OutputSound
    <3> HIDE DEF item
    <3>4. Extends(session, RecordOutput(session, item))
      BY <1>1, <2>1, <2>3, RecordExtends
    <3>5. InOrder(session, Polled(RecordOutput(session, item)))
      BY <3>3, <3>4, PolledInOrder DEF Sound
    <3> QED BY <3>1, <3>2, <3>5
  <2>4. CASE item.kind # "output"
    <3>1. session' = Polled(Handled(session, item))
      BY <1>2, <2>4 DEF TakePty
    <3>2. Sound(Handled(session, item), answer.held \o Tail(pty), InSpan, accepted, place)
      BY <2>1, <2>4, MarkerSound
    <3> HIDE DEF item
    <3>3. Once(Handled(session, item)) /\ Aging(Handled(session, item))
      BY <3>2 DEF Sound
    <3>4. item.question \in Lines
      BY <2>1, <2>4 DEF PtyItem, OutputItem
    <3>5. CASE item.kind = "command_start"
      <4>1. Handled(session, item) = CommandStart(session, item.question)
        BY <3>5 DEF Handled
      <4>2. Extends(session, CommandStart(session, item.question))
        BY <1>1, <3>4, StartExtends
      <4> QED BY <3>1, <3>3, <4>1, <4>2, PolledInOrder
    <3>6. CASE item.kind = "command_end"
      <4>1. Handled(session, item) = CommandEnd(session, item.question)
        BY <3>6 DEF Handled
      <4> QED BY <1>1, <3>1, <3>4, <4>1, EndInOrder
    <3> QED BY <2>2, <2>4, <3>5, <3>6
  <2> QED BY <2>3, <2>4
<1>8. CASE AnswerEnds
  <2> DEFINE u == Freed(session)
  <2>1. Sound(u, pty, InSpan, accepted, place)
    BY <1>1, Recorded
  <2>2. Extends(session, u) /\ session' = Polled(u)
    BY <1>1, <1>8, FreedIs DEF AnswerEnds
  <2> HIDE DEF u
  <2> QED BY <2>1, <2>2, PolledInOrder DEF Sound
<1>3. CASE TimePasses
  <2> DEFINE u == Later(session)
  <2>1. session' = Polled(u) \/ session' = u
    BY <1>3 DEF TimePasses, Later, Aged
  <2>2. u \in SessionState /\ Older(session, u)
    BY <1>1, LaterOlder
  <2> HIDE DEF u
  <2>3. Quieter(session, u) /\ Extends(session, u)
    BY <1>1, <2>2, OlderQuieter, OlderExtends
  <2>4. InOrder(session, Polled(u))
    BY <1>1, <2>3, PolledInOrder DEF Quieter
  <2>5. InOrder(session, u)
    BY <2>3, NoneInOrder DEF Extends
  <2> QED BY <2>1, <2>4, <2>5
<1>4. CASE Repaint
  <2>1. PICK line \in {session.line, NoQuestion}, shape \in Shapes :
          session' = Polled([session EXCEPT !.line = line, !.shape = shape])
    BY <1>4 DEF Repaint
  <2> DEFINE u == [session EXCEPT !.line = line, !.shape = shape]
  <2>2. u \in SessionState /\ Quieter(session, u)
    BY <1>1, RepaintQuieter
  <2>3. u.fired = session.fired /\ u.pending = session.pending
    BY <1>1 DEF SessionState
  <2> HIDE DEF u
  <2>4. Extends(session, u)
    BY <1>1, <2>2, <2>3, SameExtends
  <2>5. InOrder(session, Polled(u))
    BY <1>1, <2>2, <2>4, PolledInOrder DEF Quieter
  <2> QED BY <2>1, <2>5 DEF u
<1>5. CASE PressEnter
  <2> DEFINE u == CaptureSubmittedLine(session)
  <2>1. session' = Polled(u)
    BY <1>5 DEF PressEnter
  <2>2. Extends(session, u)
    BY <1>1, CaptureExtends
  <2>3. Sound(u, Unread, InSpan, accepted, place)
    BY <1>1, CaptureSound
  <2> HIDE DEF u
  <2> QED BY <2>1, <2>2, <2>3, PolledInOrder DEF Sound
<1>6. CASE PressInterrupt
  <2>1. session'.fired = session.fired
    BY <1>1, <1>6, InterruptSends
  <2> QED BY <2>1, NoneInOrder
<1>7. CASE session' = session
  BY <1>7, NoneInOrder
<1> QED BY <1>2, <1>3, <1>4, <1>5, <1>6, <1>7, <1>8
        DEF Next, AnswerBegins, Type, EditorKeepsLine, ShellRuns, ShellSkipsComment, ProgramWrites,
            ProgramReads, CommandReturns, vars

(* trigger.rs 525-566, 660-690: questions fire on silence that is theirs, and of
   two asked in one place the earlier first. *)
THEOREM FiringAlwaysSound ==
  ~IgnoresRepeats /\ ~TypeAhead /\ ~MidLine => (Spec => FiringSound)
<1> SUFFICES ASSUME ~IgnoresRepeats, ~TypeAhead, ~MidLine PROVE Spec => FiringSound
  OBVIOUS
<1>1. IInv /\ [Next]_vars => IInv'
  BY StepInv
<1>2. IInv /\ [Next]_vars =>
        [\A i, j \in DOMAIN session.pending :
           LET earlier == session.pending[i]
               later == session.pending[j]
           IN i < j /\ earlier.origin = later.origin
                /\ earlier.question # later.question
              => \A n \in DOMAIN session'.fired \ DOMAIN session.fired :
                   session'.fired[n].question = later.question =>
                     \E m \in DOMAIN session'.fired :
                       m < n /\ session'.fired[m].question = earlier.question]_vars
  BY StepInOrder DEF InOrder
<1>3. Spec => AskedInOrder
  BY InitInv, <1>1, <1>2, PTL DEF Spec, AskedInOrder
<1> QED BY <1>3, SettlingAlwaysNeedsSilence DEF FiringSound
=============================================================================
