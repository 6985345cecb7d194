------------------------- MODULE PresentationProofs -------------------------
(***************************************************************************)
(* Proofs for module Presentation: for any number of questions, any fuse   *)
(* and any bounds, its three safety invariants hold in every state and its *)
(* action property in every step.                                          *)
(*                                                                         *)
(* The inductive invariant IInv has two halves.  Books is about requests   *)
(* and speaks of no screen: the daemon's queue lists requests once, none   *)
(* of them finished (Queued); the request in flight is not an interrupted  *)
(* one (InFlight); whatever the processor keeps is owed an end (Owed);     *)
(* what was received of a request is on the screen or accumulated          *)
(* (Complete); and, unless a request was overtaken, everything before the  *)
(* request in flight has been aborted (Ordered), which is why no delta     *)
(* finds output held behind another answer (InTurn).  The other half is    *)
(* about the screen: a streaming answer that has begun owns the block on   *)
(* top or is to be labelled anew (Marked), a row that reads as its tail is *)
(* its own or one like it (OwnTail), nothing is silently held (Silent),    *)
(* and screen and held output are what was written.                        *)
(*                                                                         *)
(* The lemmas Books... have no primes: each says what one change of the    *)
(* bookkeeping keeps.  TurnInv then reduces each turn of the processor to  *)
(* the response, the screen and the books it ends with.                    *)
(***************************************************************************)
EXTENDS Presentation, FiniteSetTheorems, TLAPS

(* What is on top of the screen. *)
ScreenType ==
  [owner : Requests \cup {"none", "output"}, seam : BOOLEAN, tail : BOOLEAN]

(* A response as the processor leaves it. *)
Fit(a) ==
  a # NoResponse =>
    /\ a \in Responses
    /\ a.anchored => a.mode = "Stream"
    /\ a.held # <<>> => a.mode = "Stream" /\ ~a.anchored
    /\ a.mode = "Stream" => a.accumulated = 0
    /\ Len(a.held) < Fuse

(* What a turn's poll leaves alone of a response. *)
Alike(a, b) ==
  /\ a = NoResponse <=> b = NoResponse
  /\ a # NoResponse =>
       /\ b.id = a.id /\ b.mode = a.mode /\ b.anchored = a.anchored
       /\ b.started = a.started /\ b.accumulated = a.accumulated
       /\ b.held = a.held /\ b.relabel = a.relabel

(* Output is held for longer than the stall delay only if the user was told. *)
Silent(a) == Holding(a) /\ a.stalled /\ a.held # <<>> => a.stallShown

(* A turn's poll keeps a response fit, changes only what it has told the user, and leaves
   no output silently held. *)
LEMMA PolledFacts ==
  ASSUME NEW a \in Responses \cup {NoResponse}, Fit(a)
  PROVE  Fit(Polled(a)) /\ Alike(a, Polled(a)) /\ Silent(Polled(a))
<1>1. CASE a = NoResponse
  <2>1. Polled(a) = NoResponse
    BY <1>1 DEF Polled, StallDue, ReceiptDue, Holding
  <2> QED BY <1>1, <2>1 DEF Fit, Alike, Silent, Holding
<1>2. CASE a # NoResponse
  <2>1. a \in Responses
    BY <1>2
  <2>2. CASE StallDue(a)
    <3>1. Polled(a) = [a EXCEPT !.stallShown = TRUE, !.receiptShown = TRUE]
      BY <2>2 DEF Polled
    <3>2. Polled(a) \in Responses
      BY <2>1, <3>1 DEF Responses
    <3>3. Polled(a) # NoResponse
      BY <3>2, NoResponseAssumption
    <3>4. /\ Polled(a).id = a.id /\ Polled(a).mode = a.mode
          /\ Polled(a).anchored = a.anchored
          /\ Polled(a).started = a.started /\ Polled(a).accumulated = a.accumulated
          /\ Polled(a).held = a.held /\ Polled(a).relabel = a.relabel
          /\ Polled(a).stallShown
      BY <2>1, <3>1 DEF Responses
    <3> QED BY <1>2, <3>2, <3>3, <3>4 DEF Fit, Alike, Silent
  <2>3. CASE ~StallDue(a) /\ ReceiptDue(a)
    <3>1. Polled(a) = [a EXCEPT !.receiptShown = TRUE]
      BY <2>3 DEF Polled
    <3>2. Polled(a) \in Responses
      BY <2>1, <3>1 DEF Responses
    <3>3. Polled(a) # NoResponse
      BY <3>2, NoResponseAssumption
    <3>4. /\ Polled(a).id = a.id /\ Polled(a).mode = a.mode
          /\ Polled(a).anchored = a.anchored
          /\ Polled(a).started = a.started /\ Polled(a).accumulated = a.accumulated
          /\ Polled(a).held = a.held /\ Polled(a).relabel = a.relabel
          /\ Polled(a).stallShown = a.stallShown /\ Polled(a).stalled = a.stalled
      BY <2>1, <3>1 DEF Responses
    <3> QED BY <1>2, <2>1, <2>3, <3>2, <3>3, <3>4 DEF Fit, Alike, Silent, StallDue, Holding
  <2>4. CASE ~StallDue(a) /\ ~ReceiptDue(a)
    <3>1. Polled(a) = a
      BY <2>4 DEF Polled
    <3> QED BY <1>2, <2>1, <2>4, <3>1 DEF Fit, Alike, Silent, StallDue, Holding
  <2> QED BY <2>2, <2>3, <2>4
<1> QED BY <1>1, <1>2

(* A turn has ended with response a and block s. *)
Turned(a, s) ==
  /\ active' \in Responses \cup {NoResponse}
  /\ Fit(active') /\ Alike(a, active') /\ Silent(active')
  /\ screen' \in ScreenType /\ screen'.owner = s.owner
  /\ altScreen' \in BOOLEAN /\ window' \in BOOLEAN

(* What the end of a turn does to the response it was given and to the block on top. *)
LEMMA EndTurnFacts ==
  ASSUME NEW a \in Responses \cup {NoResponse}, Fit(a), NEW s \in ScreenType,
         NEW alt \in BOOLEAN, EndTurn(a, s, alt)
  PROVE  Turned(a, s)
<1>1. Fit(Polled(a)) /\ Alike(a, Polled(a)) /\ Silent(Polled(a))
  BY PolledFacts
<1>2. Noticed(s) \in ScreenType /\ Noticed(s).owner = s.owner
  BY DEF Noticed, ScreenType
<1>3. screen' \in ScreenType /\ screen'.owner = s.owner
  BY <1>2 DEF EndTurn
<1>4. active' = Polled(a)
  BY DEF EndTurn
<1>5. active' \in Responses \cup {NoResponse}
  BY <1>1, <1>4 DEF Fit
<1>6. altScreen' \in BOOLEAN /\ window' \in BOOLEAN
  BY DEF EndTurn, OwnsInterrupt
<1> QED BY <1>1, <1>3, <1>4, <1>5, <1>6 DEF Turned

-----------------------------------------------------------------------------
(* The books: of the daemon's queue, the response in flight and each request's history. *)
Queued(q, ask, fin, int, ab) ==
  /\ q \in Seq(Requests)
  /\ \A i, j \in 1..Len(q) : q[i] = q[j] => i = j
  /\ \A i \in 1..Len(q) : q[i] \in ask /\ q[i] \notin fin /\ (q[i] \in int => q[i] \in ab)
  /\ fin \subseteq ask /\ int \subseteq ask /\ ab \subseteq int /\ ask \subseteq Requests

InFlight(a, ask, int) == a # NoResponse => a.id \in ask /\ a.id \notin int

IsOwed(q, r) == \E i \in 1..Len(q) : q[i] = r

Owed(a, q, dead, ab, disp) ==
  ~dead => /\ a # NoResponse => IsOwed(q, a.id)
           /\ \A r \in ab : IsOwed(q, r)
           /\ \A r \in Requests : disp[r] # "no" => IsOwed(q, r)

Collected(a, r) == IF a # NoResponse /\ a.id = r THEN a.accumulated ELSE 0

Complete(a, q, ask, fin, ab, sn, tx) ==
  /\ sn \in [Requests -> Nat] /\ tx \in [Requests -> Nat]
  /\ a # NoResponse => a.accumulated \in Nat
  /\ \A i \in 1..Len(q) : q[i] \notin ab => sn[q[i]] = tx[q[i]] + Collected(a, q[i])
  /\ \A r \in fin : sn[r] = tx[r]
  /\ \A r \in Requests : r \notin ask => sn[r] = 0 /\ tx[r] = 0
  /\ \A i \in 1..Len(q) : i > 1 => Collected(a, q[i]) = 0

Ordered(a, q, dead, over, ab) ==
  ~dead /\ ~over /\ a # NoResponse =>
    \A i, j \in 1..Len(q) : q[j] = a.id /\ i < j => q[i] \in ab

Books(a, q, ask, fin, int, ab, dead, over, disp, sn, tx) ==
  /\ Queued(q, ask, fin, int, ab)
  /\ InFlight(a, ask, int)
  /\ Owed(a, q, dead, ab, disp)
  /\ Complete(a, q, ask, fin, ab, sn, tx)
  /\ Ordered(a, q, dead, over, ab)

SameAnswer(a, b) ==
  /\ a = NoResponse <=> b = NoResponse
  /\ a # NoResponse => b.id = a.id /\ b.accumulated = a.accumulated

(* The books speak of a response's request and of what it accumulated, of nothing else. *)
LEMMA BooksSame ==
  ASSUME NEW a, NEW b, NEW q, NEW ask, NEW fin, NEW int, NEW ab, NEW dead, NEW over, NEW disp,
         NEW sn, NEW tx,
         Books(a, q, ask, fin, int, ab, dead, over, disp, sn, tx), SameAnswer(a, b)
  PROVE  Books(b, q, ask, fin, int, ab, dead, over, disp, sn, tx)
<1>1. \A r : Collected(b, r) = Collected(a, r)
  BY DEF SameAnswer, Collected
<1> QED BY <1>1 DEF Books, InFlight, Owed, Complete, Ordered, SameAnswer

(* A sequence with one element more. *)
LEMMA Appended ==
  ASSUME NEW S, NEW q \in Seq(S), NEW r \in S
  PROVE  /\ Append(q, r) \in Seq(S) /\ Len(Append(q, r)) = Len(q) + 1
         /\ \A i \in 1..Len(q) : Append(q, r)[i] = q[i]
         /\ Append(q, r)[Len(q) + 1] = r
OBVIOUS

(* A sequence without its head. *)
LEMMA Tailed ==
  ASSUME NEW S, NEW q \in Seq(S), q # <<>>
  PROVE  /\ Tail(q) \in Seq(S) /\ Len(Tail(q)) = Len(q) - 1 /\ Len(q) \in Nat \ {0}
         /\ \A i \in 1..Len(Tail(q)) : Tail(q)[i] = q[i + 1]
         /\ Head(q) = q[1] /\ Head(q) \in S
<1>1. Len(q) \in Nat \ {0}
  OBVIOUS
<1> QED BY <1>1

(* A new request keeps the books, whether it comes to be in flight at once or not. *)
LEMMA BooksDispatch ==
  ASSUME NEW a, NEW b, NEW q, NEW ask, NEW fin, NEW int, NEW ab, NEW dead, NEW over,
         NEW disp \in [Requests -> {"no", "ended", "running"}], NEW sn, NEW tx,
         NEW r \in Requests, r \notin ask, NEW st,
         Books(a, q, ask, fin, int, ab, dead, over, disp, sn, tx),
         IF a = NoResponse THEN b # NoResponse /\ b.id = r /\ b.accumulated = 0 ELSE b = a
  PROVE  Books(b, Append(q, r), ask \cup {r}, fin, int, ab, dead,
               over \/ (a = NoResponse /\ ToSet(q) \ ab # {}),
               [disp EXCEPT ![r] = st], sn, tx)
<1> DEFINE p == Append(q, r)
           n == Len(q)
<1>0. q \in Seq(Requests) /\ n \in Nat
  BY DEF Books, Queued
<1>1. p \in Seq(Requests) /\ Len(p) = n + 1 /\ (\A i \in 1..n : p[i] = q[i]) /\ p[n + 1] = r
  BY <1>0, Appended
<1>2. \A i \in 1..n : q[i] \in ask /\ q[i] # r
  BY DEF Books, Queued
<1>3. \A i \in 1..Len(p) : i \in 1..n \/ i = n + 1
  BY <1>0, <1>1
<1>4. n + 1 \in 1..Len(p) /\ \A i \in 1..n : i \in 1..Len(p)
  BY <1>0, <1>1
<1> HIDE DEF p, n
<1>5. Queued(p, ask \cup {r}, fin, int, ab)
  <2>1. \A i, j \in 1..Len(p) : p[i] = p[j] => i = j
    BY <1>1, <1>2, <1>3 DEF Books, Queued, n
  <2> QED BY <1>1, <1>2, <1>3, <2>1 DEF Books, Queued, n
<1>6. InFlight(b, ask \cup {r}, int)
  BY DEF Books, InFlight, Queued
<1>7. \A x : IsOwed(q, x) => IsOwed(p, x)
  BY <1>1, <1>4 DEF IsOwed, n
<1>8. IsOwed(p, r)
  BY <1>1, <1>4 DEF IsOwed
<1>9. Owed(b, p, dead, ab, [disp EXCEPT ![r] = st])
  BY <1>7, <1>8 DEF Books, Owed
<1>10. Complete(b, p, ask \cup {r}, fin, ab, sn, tx)
  <2>1. \A x : Collected(b, x) = Collected(a, x)
    BY DEF Collected
  <2>2. Collected(a, r) = 0 /\ sn[r] = 0 /\ tx[r] = 0
    BY DEF Books, Complete, InFlight, Collected
  <2>3. \A i \in 1..Len(p) : p[i] \notin ab => sn[p[i]] = tx[p[i]] + Collected(b, p[i])
    <3> SUFFICES ASSUME NEW i \in 1..Len(p), p[i] \notin ab
                 PROVE  sn[p[i]] = tx[p[i]] + Collected(b, p[i])
      OBVIOUS
    <3>1. CASE i = n + 1
      BY <1>1, <2>1, <2>2, <3>1
    <3>2. CASE i \in 1..n
      <4>1. p[i] = q[i] /\ q[i] \notin ab
        BY <1>1, <3>2
      <4>2. sn[q[i]] = tx[q[i]] + Collected(a, q[i])
        BY <3>2, <4>1 DEF Books, Complete, n
      <4> QED BY <2>1, <4>1, <4>2
    <3> QED BY <1>3, <3>1, <3>2
  <2>4. \A i \in 1..Len(p) : i > 1 => Collected(b, p[i]) = 0
    BY <1>1, <1>3, <2>1, <2>2 DEF Books, Complete, n
  <2> QED BY <2>3, <2>4 DEF Books, Complete
<1>11. Ordered(b, p, dead, over \/ (a = NoResponse /\ ToSet(q) \ ab # {}), ab)
  <2> SUFFICES ASSUME ~dead, ~over, a = NoResponse => ToSet(q) \ ab = {},
                      NEW i \in 1..Len(p), NEW j \in 1..Len(p), p[j] = b.id, i < j
               PROVE  p[i] \in ab
    BY DEF Ordered
  <2>1. i \in 1..n /\ p[i] = q[i]
    BY <1>0, <1>1, <1>3 DEF n
  <2>2. CASE a = NoResponse
    BY <1>0, <2>1, <2>2 DEF ToSet, n
  <2>3. CASE a # NoResponse
    <3>1. b = a /\ a.id # r
      BY <2>3 DEF Books, InFlight
    <3>2. j \in 1..n /\ p[j] = q[j]
      BY <1>1, <1>3, <3>1
    <3> QED BY <2>1, <2>3, <3>1, <3>2 DEF Books, Ordered, n
  <2> QED BY <2>2, <2>3
<1> QED BY <1>5, <1>6, <1>9, <1>10, <1>11 DEF Books, p

(* So does the end of the oldest request, dropped, elsewhere or in flight. *)
LEMMA BooksEnd ==
  ASSUME NEW a, NEW b, NEW q, NEW ask, NEW fin, NEW int, NEW ab, NEW dead, NEW over,
         NEW disp \in [Requests -> {"no", "ended", "running"}], NEW sn, NEW tx,
         NEW newfin, NEW newtx, q # <<>>,
         Books(a, q, ask, fin, int, ab, dead, over, disp, sn, tx),
         \/ /\ Head(q) \in ab /\ b = a /\ newfin = fin /\ newtx = tx
         \/ /\ Head(q) \notin ab /\ (a # NoResponse => a.id # Head(q)) /\ b = a
            /\ newfin = fin \cup {Head(q)} /\ newtx = tx
         \/ /\ Head(q) \notin ab /\ a # NoResponse /\ a.id = Head(q) /\ b = NoResponse
            /\ newfin = fin \cup {Head(q)}
            /\ newtx = [tx EXCEPT ![Head(q)] = @ + a.accumulated]
  PROVE  Books(b, Tail(q), ask, newfin, int, ab \ {Head(q)}, dead, over,
               [disp EXCEPT ![Head(q)] = "no"], sn, newtx)
<1> DEFINE p == Tail(q)
           n == Len(p)
           r == Head(q)
<1>0. q \in Seq(Requests)
  BY DEF Books, Queued
<1>1. /\ p \in Seq(Requests) /\ n = Len(q) - 1 /\ Len(q) \in Nat \ {0}
      /\ \A i \in 1..n : p[i] = q[i + 1]
      /\ r = q[1] /\ r \in Requests
  BY <1>0, Tailed
<1>2. \A i \in 1..n : i + 1 \in 1..Len(q)
  BY <1>1
<1>3. 1 \in 1..Len(q)
  BY <1>1
<1>4. \A i \in 1..n : p[i] # r /\ p[i] = q[i + 1]
  BY <1>1, <1>2, <1>3 DEF Books, Queued
<1>5. \A x : IsOwed(q, x) => x = r \/ IsOwed(p, x)
  <2> SUFFICES ASSUME NEW x, IsOwed(q, x), x # r PROVE IsOwed(p, x)
    OBVIOUS
  <2>1. PICK i \in 1..Len(q) : q[i] = x
    BY DEF IsOwed
  <2>2. i - 1 \in 1..n /\ p[i - 1] = q[(i - 1) + 1] /\ (i - 1) + 1 = i
    BY <1>1, <2>1
  <2> QED BY <2>1, <2>2 DEF IsOwed
<1> HIDE DEF p, n, r
<1>6. r \in ask /\ r \notin fin /\ (r \in int => r \in ab)
  BY <1>1, <1>3 DEF Books, Queued
<1>7. b # NoResponse => b = a /\ a.id # r
  BY <1>6 DEF Books, InFlight, Queued, r
<1>8. Queued(p, ask, newfin, int, ab \ {r})
  <2>1. \A i, j \in 1..n : p[i] = p[j] => i = j
    <3> SUFFICES ASSUME NEW i \in 1..n, NEW j \in 1..n, p[i] = p[j] PROVE i = j
      OBVIOUS
    <3>1. i + 1 = j + 1
      BY <1>2, <1>4 DEF Books, Queued
    <3> QED BY <3>1
  <2>2. \A i \in 1..n : p[i] \in ask /\ p[i] \notin newfin /\ (p[i] \in int => p[i] \in ab \ {r})
    BY <1>2, <1>4 DEF Books, Queued, r
  <2>3. newfin \subseteq ask /\ ab \ {r} \subseteq int
    BY <1>6 DEF Books, Queued, r
  <2> QED BY <1>1, <2>1, <2>2, <2>3 DEF Books, Queued, n
<1>9. InFlight(b, ask, int)
  BY <1>7 DEF Books, InFlight
<1>10. Owed(b, p, dead, ab \ {r}, [disp EXCEPT ![r] = "no"])
  BY <1>1, <1>5, <1>7 DEF Books, Owed
<1>11. Complete(b, p, ask, newfin, ab \ {r}, sn, newtx)
  <2>1. /\ sn \in [Requests -> Nat] /\ tx \in [Requests -> Nat]
        /\ a # NoResponse => a.accumulated \in Nat
    BY DEF Books, Complete
  <2>2. newtx \in [Requests -> Nat] /\ \A x \in Requests : x # r => newtx[x] = tx[x]
    <3>1. CASE newtx = tx
      BY <2>1, <3>1
    <3>2. CASE a # NoResponse /\ newtx = [tx EXCEPT ![r] = @ + a.accumulated]
      BY <1>1, <2>1, <3>2
    <3> QED BY <3>1, <3>2 DEF r
  <2>3. b # NoResponse => b.accumulated \in Nat
    BY <1>7, <2>1
  <2>4. \A i \in 1..n : Collected(a, p[i]) = 0 /\ Collected(b, p[i]) = 0
    <3>1. \A i \in 1..n : Collected(a, p[i]) = 0
      <4> SUFFICES ASSUME NEW i \in 1..n PROVE Collected(a, p[i]) = 0
        OBVIOUS
      <4>1. i + 1 \in 1..Len(q) /\ i + 1 > 1
        BY <1>2
      <4> QED BY <4>1, <1>4 DEF Books, Complete
    <3> QED BY <3>1, <1>7 DEF Collected
  <2>5. \A i \in 1..n : p[i] \notin ab \ {r} => sn[p[i]] = newtx[p[i]] + Collected(b, p[i])
    <3> SUFFICES ASSUME NEW i \in 1..n, p[i] \notin ab
                 PROVE  sn[p[i]] = newtx[p[i]] + Collected(b, p[i])
      BY <1>4
    <3>1. sn[p[i]] = tx[p[i]] + Collected(a, p[i])
      BY <1>2, <1>4 DEF Books, Complete
    <3>2. p[i] \in Requests /\ p[i] # r
      BY <1>1, <1>4 DEF n
    <3> QED BY <2>2, <2>4, <3>1, <3>2
  <2>6. \A x \in newfin : sn[x] = newtx[x]
    <3> SUFFICES ASSUME NEW x \in newfin PROVE sn[x] = newtx[x]
      OBVIOUS
    <3>1. CASE x \in fin
      BY <1>6, <2>2, <3>1 DEF Books, Complete, Queued
    <3>2. CASE x \notin fin
      <4>1. x = r /\ r \notin ab
        BY <3>2 DEF r
      <4>2. sn[r] = tx[r] + Collected(a, r)
        BY <1>1, <1>3, <4>1 DEF Books, Complete
      <4>3. CASE a # NoResponse /\ a.id = r
        BY <1>1, <2>1, <4>1, <4>2, <4>3 DEF Collected, r
      <4>4. CASE ~(a # NoResponse /\ a.id = r)
        <5>1. newtx = tx
          BY <4>4 DEF r
        <5> QED BY <1>1, <2>1, <4>1, <4>2, <4>4, <5>1 DEF Collected
      <4> QED BY <4>3, <4>4
    <3> QED BY <3>1, <3>2
  <2>7. \A x \in Requests : x \notin ask => sn[x] = 0 /\ newtx[x] = 0
    BY <1>6, <2>2 DEF Books, Complete
  <2> QED BY <2>1, <2>2, <2>3, <2>4, <2>5, <2>6, <2>7 DEF Complete, n
<1>12. Ordered(b, p, dead, over, ab \ {r})
  <2> SUFFICES ASSUME ~dead, ~over, b # NoResponse,
                      NEW i \in 1..n, NEW j \in 1..n, p[j] = b.id, i < j
               PROVE  p[i] \in ab \ {r}
    BY DEF Ordered, n
  <2>1. q[j + 1] = a.id /\ i + 1 < j + 1 /\ i + 1 \in 1..Len(q) /\ j + 1 \in 1..Len(q)
    BY <1>2, <1>4, <1>7, <1>1
  <2>2. q[i + 1] \in ab
    BY <2>1, <1>7 DEF Books, Ordered
  <2> QED BY <1>4, <2>2
<1> QED BY <1>8, <1>9, <1>10, <1>11, <1>12 DEF Books, p, r

(* Nothing is owed any more when the daemon has died. *)
LEMMA BooksDeath ==
  ASSUME NEW a, NEW q, NEW ask, NEW fin, NEW int, NEW ab, NEW dead, NEW over, NEW disp,
         NEW sn, NEW tx, Books(a, q, ask, fin, int, ab, dead, over, disp, sn, tx)
  PROVE  Books(a, <<>>, ask, fin, int, ab, TRUE, over, disp, sn, tx)
<1>1. Queued(<<>>, ask, fin, int, ab)
  BY DEF Books, Queued
<1>2. Owed(a, <<>>, TRUE, ab, disp)
  BY DEF Owed
<1>3. Ordered(a, <<>>, TRUE, over, ab)
  BY DEF Ordered
<1>4. Complete(a, <<>>, ask, fin, ab, sn, tx)
  BY DEF Books, Complete
<1> QED BY <1>1, <1>2, <1>3, <1>4 DEF Books

(* A delta for the oldest request is rendered or accumulated: its answer stays complete. *)
LEMMA BooksDelta ==
  ASSUME NEW a, NEW b, NEW q, NEW ask, NEW fin, NEW int, NEW ab, NEW dead, NEW over,
         NEW disp, NEW sn, NEW tx, NEW newtx, q # <<>>, Head(q) \notin ab,
         Books(a, q, ask, fin, int, ab, dead, over, disp, sn, tx),
         b # NoResponse, b.id = Head(q),
         \/ /\ b.accumulated = Collected(a, Head(q))
            /\ newtx = [tx EXCEPT ![Head(q)] = @ + 1]
         \/ /\ b.accumulated = Collected(a, Head(q)) + 1 /\ newtx = tx
  PROVE  Books(b, q, ask, fin, int, ab, dead, over, disp,
               [sn EXCEPT ![Head(q)] = @ + 1], newtx)
<1> DEFINE r == Head(q)
           newsn == [sn EXCEPT ![r] = @ + 1]
<1>0. q \in Seq(Requests)
  BY DEF Books, Queued
<1>1. Len(q) \in Nat \ {0} /\ r = q[1] /\ r \in Requests
  BY <1>0, Tailed
<1>2. 1 \in 1..Len(q)
  BY <1>1
<1> HIDE DEF r
<1>3. r \in ask /\ r \notin fin /\ r \notin int /\ r \notin ab
  BY <1>1, <1>2 DEF Books, Queued, r
<1>4. \A i \in 1..Len(q) : q[i] = r => i = 1
  BY <1>1, <1>2 DEF Books, Queued
<1>5. InFlight(b, ask, int)
  BY <1>3 DEF InFlight, r
<1>6. Owed(b, q, dead, ab, disp)
  BY <1>1, <1>2 DEF Books, Owed, IsOwed, r
<1>7. Complete(b, q, ask, fin, ab, newsn, newtx)
  <2>1. /\ sn \in [Requests -> Nat] /\ tx \in [Requests -> Nat]
        /\ Collected(a, r) \in Nat
    BY DEF Books, Complete, Collected
  <2>2. /\ newtx \in [Requests -> Nat] /\ \A x \in Requests : x # r => newtx[x] = tx[x]
        /\ newsn \in [Requests -> Nat] /\ \A x \in Requests : x # r => newsn[x] = sn[x]
        /\ b.accumulated \in Nat
    BY <1>1, <2>1 DEF r
  <2>3. sn[r] = tx[r] + Collected(a, r)
    BY <1>1, <1>2, <1>3 DEF Books, Complete
  <2>4. Collected(b, r) = b.accumulated /\ \A x : x # r => Collected(b, x) = 0
    BY DEF Collected, r
  <2>5. newsn[r] = newtx[r] + Collected(b, r)
    BY <1>1, <2>1, <2>3, <2>4 DEF r
  <2>6. \A i \in 1..Len(q) : q[i] \notin ab => newsn[q[i]] = newtx[q[i]] + Collected(b, q[i])
    <3> SUFFICES ASSUME NEW i \in 1..Len(q), q[i] \notin ab, q[i] # r
                 PROVE  newsn[q[i]] = newtx[q[i]] + Collected(b, q[i])
      BY <2>5
    <3>1. i > 1
      BY <1>1
    <3>2. sn[q[i]] = tx[q[i]] + Collected(a, q[i]) /\ Collected(a, q[i]) = 0
      BY <3>1 DEF Books, Complete
    <3>3. q[i] \in Requests
      BY <1>0
    <3> QED BY <2>2, <2>4, <3>2, <3>3
  <2>7. \A x \in fin : newsn[x] = newtx[x]
    BY <1>3, <2>2 DEF Books, Complete, Queued
  <2>8. \A x \in Requests : x \notin ask => newsn[x] = 0 /\ newtx[x] = 0
    BY <1>3, <2>2 DEF Books, Complete
  <2>9. \A i \in 1..Len(q) : i > 1 => Collected(b, q[i]) = 0
    BY <1>4, <2>4
  <2> QED BY <2>2, <2>6, <2>7, <2>8, <2>9 DEF Complete
<1>8. Ordered(b, q, dead, over, ab)
  <2> SUFFICES ASSUME NEW i \in 1..Len(q), NEW j \in 1..Len(q), q[j] = b.id, i < j
               PROVE  q[i] \in ab
    BY DEF Ordered
  <2>1. j = 1
    BY <1>4 DEF r
  <2> QED BY <2>1
<1> QED BY <1>5, <1>6, <1>7, <1>8 DEF Books, r

(* A request that was in flight and is interrupted is one whose end is still awaited. *)
LEMMA BooksInterrupt ==
  ASSUME NEW a, NEW q, NEW ask, NEW fin, NEW int, NEW ab, NEW dead, NEW over,
         NEW disp \in [Requests -> {"no", "ended", "running"}], NEW sn, NEW tx, a # NoResponse,
         Books(a, q, ask, fin, int, ab, dead, over, disp, sn, tx)
  PROVE  Books(NoResponse, q, ask, fin, int \cup {a.id}, ab \cup {a.id}, dead, over,
               [disp EXCEPT ![a.id] = "no"], sn, tx)
<1>1. Queued(q, ask, fin, int \cup {a.id}, ab \cup {a.id})
  BY DEF Books, Queued, InFlight
<1>2. Owed(NoResponse, q, dead, ab \cup {a.id}, [disp EXCEPT ![a.id] = "no"])
  BY DEF Books, Owed
<1>3. Complete(NoResponse, q, ask, fin, ab \cup {a.id}, sn, tx)
  <2>1. \A r : r # a.id => Collected(a, r) = 0
    BY DEF Collected
  <2>2. \A r : Collected(NoResponse, r) = 0
    BY DEF Collected
  <2> QED BY <2>1, <2>2 DEF Books, Complete
<1> QED BY <1>1, <1>2, <1>3 DEF Books, InFlight, Ordered

(* Unless a request was overtaken, an answer begins only when no other is in flight. *)
LEMMA InTurn ==
  ASSUME NEW a, NEW q, NEW ask, NEW fin, NEW int, NEW ab, NEW disp, NEW sn, NEW tx,
         Books(a, q, ask, fin, int, ab, FALSE, FALSE, disp, sn, tx),
         a # NoResponse, q # <<>>, Head(q) \notin ab
  PROVE  a.id = Head(q)
<1>0. q \in Seq(Requests)
  BY DEF Books, Queued
<1>1. Len(q) \in Nat \ {0} /\ Head(q) = q[1]
  BY <1>0, Tailed
<1>2. PICK j \in 1..Len(q) : q[j] = a.id
  BY DEF Books, Owed, IsOwed
<1>3. CASE j = 1
  BY <1>1, <1>2, <1>3
<1>4. CASE j > 1
  <2>1. 1 \in 1..Len(q)
    BY <1>1
  <2> QED BY <1>1, <1>2, <1>4, <2>1 DEF Books, Ordered
<1> QED BY <1>2, <1>3, <1>4

-----------------------------------------------------------------------------
(* A row that reads like the tail of the answer is the answer's own, or a program's. *)
OwnTail(a, s) ==
  a # NoResponse /\ a.aiEnd /\ s.tail => s.owner \in {a.id, "output"}

(* A streaming answer that has begun continues in a block of its own. *)
Marked(a, s) == Holding(a) /\ a.started /\ ~a.relabel => s.owner = a.id

HeldBy(a) == IF a = NoResponse THEN <<>> ELSE a.held

BooksNow ==
  Books(active, queue, asked, finished, interrupted, aborted, died, overtaken, dispatched,
        sent, text)

IInv ==
  /\ TypeOK
  /\ Fit(active)
  /\ BooksNow
  /\ Marked(active, screen)
  /\ Silent(active)
  /\ OutputInOrder
  /\ InterruptsAccounted

(* The types of what EndTurn does not set. *)
RestTyped ==
  /\ dispatched \in [Requests -> {"no", "ended", "running"}]
  /\ aborted \subseteq Requests
  /\ keys \in Seq({"input", "interrupt"})
  /\ queue \in Seq(Requests)
  /\ asked \subseteq Requests
  /\ died \in BOOLEAN
  /\ overtaken \in BOOLEAN
  /\ sent \in [Requests -> Nat]
  /\ text \in [Requests -> Nat]
  /\ finished \subseteq Requests
  /\ interrupted \subseteq Requests
  /\ produced \in Seq(Effects)
  /\ shown \in Seq(Effects)
  /\ notices \in Nat
  /\ pressed \in Nat
  /\ forwarded \in Nat
  /\ claimed \in [{"Stream", "Block"} -> Nat]

(* The invariant's types, in the groups the actions leave unchanged together. *)
LEMMA TypeParts ==
  ASSUME IInv
  PROVE  /\ RestTyped
         /\ active \in Responses \cup {NoResponse} /\ Fit(active)
         /\ screen \in ScreenType /\ altScreen \in BOOLEAN /\ window \in BOOLEAN
         /\ Noticed(screen) \in ScreenType /\ Noticed(screen).owner = screen.owner
         /\ Output \in ScreenType /\ \A r \in Requests : Labelled(r) \in ScreenType
<1>1. RestTyped
  BY DEF IInv, TypeOK, RestTyped
<1>2. screen \in ScreenType /\ active \in Responses \cup {NoResponse} /\ Fit(active)
      /\ altScreen \in BOOLEAN /\ window \in BOOLEAN
  BY DEF IInv, TypeOK, ScreenType
<1>3. Noticed(screen) \in ScreenType /\ Noticed(screen).owner = screen.owner
  BY <1>2 DEF ScreenType, Noticed
<1>4. Output \in ScreenType /\ \A r \in Requests : Labelled(r) \in ScreenType
  BY DEF Output, Labelled, ScreenType
<1> QED BY <1>1, <1>2, <1>3, <1>4

(* A turn that ends with a fit response, the books kept, its block on top and the output
   in order keeps IInv. *)
LEMMA TurnInv ==
  ASSUME NEW a \in Responses \cup {NoResponse}, Fit(a), NEW s \in ScreenType,
         NEW alt \in BOOLEAN, EndTurn(a, s, alt),
         RestTyped',
         Books(a, queue', asked', finished', interrupted', aborted', died', overtaken',
               dispatched', sent', text'),
         Marked(a, s),
         ~died' /\ ~overtaken' => shown' \o HeldBy(a) = produced',
         InterruptsAccounted'
  PROVE  IInv'
<1>1. /\ active' \in Responses \cup {NoResponse}
      /\ Fit(active') /\ Alike(a, active') /\ Silent(active')
      /\ screen' \in ScreenType /\ screen'.owner = s.owner
      /\ altScreen' \in BOOLEAN /\ window' \in BOOLEAN
  BY EndTurnFacts DEF Turned
<1>2. TypeOK'
  BY <1>1 DEF TypeOK, RestTyped, Fit, ScreenType
<1>3. BooksNow'
  <2>1. SameAnswer(a, active')
    BY <1>1 DEF Alike, SameAnswer
  <2>2. Books(active', queue', asked', finished', interrupted', aborted', died', overtaken',
              dispatched', sent', text')
    BY <2>1, BooksSame
  <2> QED BY <2>2 DEF BooksNow
<1>4. Marked(active', screen')
  BY <1>1 DEF Marked, Alike, Holding
<1>5. OutputInOrder'
  BY <1>1 DEF OutputInOrder, HeldOutput, HeldBy, Alike
<1> QED BY <1>1, <1>2, <1>3, <1>4, <1>5 DEF IInv

(* A turn that is about nothing but how the response in flight is shown. *)
LEMMA PlainTurn ==
  ASSUME IInv, NEW a \in Responses \cup {NoResponse}, Fit(a), NEW s \in ScreenType,
         NEW alt \in BOOLEAN, EndTurn(a, s, alt), SameAnswer(active, a), Marked(a, s),
         ~died /\ ~overtaken => shown' \o HeldBy(a) = produced',
         shown' \in Seq(Effects), produced' \in Seq(Effects), notices' \in Nat,
         UNCHANGED <<dispatched, aborted, interrupted, daemonVars, answerVars>>,
         InterruptsAccounted',
         keys' \in Seq({"input", "interrupt"}), pressed' \in Nat, forwarded' \in Nat,
         claimed' \in [{"Stream", "Block"} -> Nat]
  PROVE  IInv'
<1>1. RestTyped'
  BY TypeParts DEF RestTyped, daemonVars, answerVars
<1>2. Books(a, queue, asked, finished, interrupted, aborted, died, overtaken, dispatched,
            sent, text)
  BY BooksSame DEF IInv, BooksNow
<1>3. Books(a, queue', asked', finished', interrupted', aborted', died', overtaken',
            dispatched', sent', text')
  BY <1>2 DEF daemonVars, answerVars
<1>4. ~died' /\ ~overtaken' => shown' \o HeldBy(a) = produced'
  BY DEF daemonVars
<1> QED BY <1>1, <1>3, <1>4, TurnInv

(* A step that neither takes nor presses a key keeps the account of Ctrl+C. *)
LEMMA KeysSame ==
  ASSUME IInv, UNCHANGED keyVars
  PROVE  /\ InterruptsAccounted'
         /\ keys' \in Seq({"input", "interrupt"}) /\ pressed' \in Nat /\ forwarded' \in Nat
         /\ claimed' \in [{"Stream", "Block"} -> Nat]
BY TypeParts DEF IInv, InterruptsAccounted, Swallowed, keyVars, RestTyped

(* A response is the same answer as itself. *)
LEMMA SameSame == \A a : SameAnswer(a, a)
BY DEF SameAnswer

(* A notice of other origin changes neither the owner of the block nor the answer. *)
LEMMA NoticeInv == ASSUME IInv, Notice PROVE IInv'
<1>1. Marked(active, Noticed(screen))
  BY TypeParts DEF IInv, Marked
<1>2. EndTurn(active, Noticed(screen), altScreen) /\ notices' \in Nat
  BY TypeParts DEF Notice, RestTyped
<1>3. UNCHANGED <<dispatched, aborted, interrupted, daemonVars, answerVars>>
      /\ UNCHANGED keyVars /\ UNCHANGED outputVars
  BY DEF Notice
<1>4. (~died /\ ~overtaken => shown' \o HeldBy(active) = produced')
      /\ shown' \in Seq(Effects) /\ produced' \in Seq(Effects)
  BY <1>3, TypeParts DEF outputVars, IInv, OutputInOrder, HeldOutput, HeldBy, RestTyped
<1> QED BY <1>1, <1>2, <1>3, <1>4, TypeParts, KeysSame, SameSame, PlainTurn

(* Deadlines only make a response due for a notice. *)
LEMMA TimeInv ==
  ASSUME IInv, ReceiptDelayPasses \/ StallDelayPasses PROVE IInv'
<1>1. active \in Responses /\ active # NoResponse
  BY TypeParts DEF ReceiptDelayPasses, StallDelayPasses
<1>2. PICK stalled \in BOOLEAN : TimePasses([active EXCEPT !.waited = TRUE, !.stalled = stalled])
  <2>1. CASE ReceiptDelayPasses
    <3>1. [active EXCEPT !.waited = TRUE]
            = [active EXCEPT !.waited = TRUE, !.stalled = active.stalled]
      BY <1>1 DEF Responses
    <3>2. active.stalled \in BOOLEAN
      BY <1>1 DEF Responses
    <3> QED BY <2>1, <3>1, <3>2 DEF ReceiptDelayPasses
  <2>2. CASE StallDelayPasses
    BY <2>2 DEF StallDelayPasses
  <2> QED BY <2>1, <2>2
<1> DEFINE a == [active EXCEPT !.waited = TRUE, !.stalled = stalled]
<1>3. a \in Responses /\ Alike(active, a)
  <2>1. a \in Responses
    BY <1>1 DEF Responses
  <2>2. a # NoResponse
    BY <2>1, NoResponseAssumption
  <2> QED BY <1>1, <2>1, <2>2 DEF Responses, Alike
<1>4. EndTurn(a, screen, altScreen)
      /\ UNCHANGED <<dispatched, aborted, interrupted, notices, keyVars, daemonVars,
                     outputVars, answerVars>>
  BY <1>2 DEF TimePasses
<1> HIDE DEF a
<1>5. Fit(a) /\ SameAnswer(active, a) /\ Marked(a, screen) /\ HeldBy(a) = HeldBy(active)
  BY <1>1, <1>3, TypeParts DEF Alike, Fit, SameAnswer, Marked, IInv, HeldBy, Holding
<1>6. (~died /\ ~overtaken => shown' \o HeldBy(a) = produced')
      /\ shown' \in Seq(Effects) /\ produced' \in Seq(Effects) /\ notices' \in Nat
  BY <1>4, <1>5, TypeParts DEF outputVars, IInv, OutputInOrder, HeldOutput, HeldBy, RestTyped
<1> QED BY <1>3, <1>4, <1>5, <1>6, TypeParts, KeysSame, PlainTurn

(* A tool line has the rest of the answer labelled anew. *)
LEMMA ToolInv ==
  ASSUME IInv, NEW r, OnToolActivity(r) PROVE IInv'
<1>1. notices' \in Nat
      /\ UNCHANGED <<dispatched, aborted, interrupted, daemonVars, answerVars>>
      /\ UNCHANGED keyVars /\ UNCHANGED outputVars
  BY TypeParts DEF OnToolActivity, RestTyped
<1>2. (~died /\ ~overtaken => shown' \o HeldBy(active) = produced')
      /\ shown' \in Seq(Effects) /\ produced' \in Seq(Effects)
  BY <1>1, TypeParts DEF outputVars, IInv, OutputInOrder, HeldOutput, HeldBy, RestTyped
<1>3. CASE ~(r \notin aborted /\ Rendering(r))
  <2>1. EndTurn(active, screen, altScreen)
    BY <1>3 DEF OnToolActivity
  <2>2. Marked(active, screen)
    BY DEF IInv
  <2> QED BY <1>1, <1>2, <2>1, <2>2, TypeParts, KeysSame, SameSame, PlainTurn
<1>4. CASE r \notin aborted /\ Rendering(r)
  <2>1. active \in Responses /\ active # NoResponse
    BY <1>4, TypeParts DEF Rendering
  <2> DEFINE relabel == active.relabel \/ (~active.anchored /\ active.started)
             a == [active EXCEPT !.receiptShown = TRUE, !.stalled = FALSE,
                                 !.aiEnd = FALSE, !.relabel = relabel]
  <2>2. EndTurn(a, Noticed(screen), altScreen)
    BY <1>4 DEF OnToolActivity
  <2>3. a \in Responses
    BY <2>1 DEF Responses
  <2>4. a # NoResponse
    BY <2>3, NoResponseAssumption
  <2>5. /\ a.id = active.id /\ a.mode = active.mode /\ a.anchored = active.anchored
        /\ a.started = active.started /\ a.accumulated = active.accumulated
        /\ a.held = active.held
    BY <2>1 DEF Responses
  <2>6. a.relabel <=> relabel
    BY <2>1 DEF Responses
  <2> HIDE DEF a
  <2>7. Marked(a, Noticed(screen))
    BY <2>1, <2>4, <2>5, <2>6, TypeParts DEF Marked, IInv, Holding
  <2>8. Fit(a) /\ SameAnswer(active, a) /\ HeldBy(a) = HeldBy(active)
    BY <2>1, <2>3, <2>4, <2>5, TypeParts DEF Fit, SameAnswer, HeldBy
  <2> QED BY <1>1, <1>2, <2>2, <2>3, <2>7, <2>8, TypeParts, KeysSame, PlainTurn
<1> QED BY <1>3, <1>4

(* Output of a program is held behind the answer, released with what was held, or passes. *)
LEMMA OutputInv ==
  ASSUME IInv, NEW e \in Effects, OutputHeld(e) \/ FuseReleases(e) \/ OutputPasses(e)
  PROVE  IInv'
<1>1. /\ produced' = Append(produced, e)
      /\ UNCHANGED <<dispatched, aborted, interrupted, daemonVars, answerVars>>
      /\ UNCHANGED keyVars /\ notices' = notices
  BY DEF OutputHeld, FuseReleases, OutputPasses, ProgramWrites
<1>2. produced \in Seq(Effects) /\ shown \in Seq(Effects) /\ notices \in Nat
  BY TypeParts DEF RestTyped
<1>3. produced' \in Seq(Effects) /\ notices' \in Nat
  BY <1>1, <1>2
<1>4. ~died /\ ~overtaken => shown \o HeldBy(active) = produced
  BY DEF IInv, OutputInOrder, HeldOutput, HeldBy
<1>5. \A h \in Seq(Effects) : shown \o Append(h, e) = Append(shown \o h, e)
  BY <1>2
<1>6. \A c : AltAfter(c) \in BOOLEAN
  BY TypeParts DEF AltAfter
<1>7. CASE OutputHeld(e)
  <2>1. active \in Responses /\ active # NoResponse /\ Holding(active)
    BY <1>7, TypeParts DEF OutputHeld, Holding
  <2> DEFINE h == Append(active.held, e)
             a == [active EXCEPT !.held = h]
  <2>2. active.held \in Seq(Effects) /\ h \in Seq(Effects) /\ Len(h) < Fuse
    <3>1. active.held \in Seq(Effects)
      BY <2>1 DEF Responses
    <3> QED BY <1>7, <3>1 DEF OutputHeld
  <2>3. EndTurn(a, screen, altScreen) /\ shown' = shown
    BY <1>7 DEF OutputHeld
  <2> HIDE DEF h
  <2>4. a \in Responses
    BY <2>1, <2>2 DEF Responses
  <2>5. a # NoResponse
    BY <2>4, NoResponseAssumption
  <2>6. /\ a.id = active.id /\ a.mode = active.mode /\ a.anchored = active.anchored
        /\ a.started = active.started /\ a.accumulated = active.accumulated
        /\ a.held = h /\ a.relabel = active.relabel
    BY <2>1 DEF Responses
  <2> HIDE DEF a
  <2>7. Fit(a) /\ SameAnswer(active, a) /\ Marked(a, screen) /\ HeldBy(a) = h
    <3>1. Fit(active) /\ Marked(active, screen)
      BY TypeParts DEF IInv
    <3>2. active.mode = "Stream" /\ ~active.anchored
      BY <2>1 DEF Holding
    <3>3. Fit(a)
      BY <2>1, <2>2, <2>4, <2>6, <3>1, <3>2 DEF Fit
    <3>4. Marked(a, screen)
      BY <2>1, <2>5, <2>6, <3>1 DEF Marked, Holding
    <3> QED BY <2>1, <2>5, <2>6, <3>3, <3>4 DEF SameAnswer, HeldBy
  <2>8. ~died /\ ~overtaken => shown' \o HeldBy(a) = produced'
    BY <1>1, <1>4, <1>5, <2>1, <2>2, <2>3, <2>7 DEF HeldBy, h
  <2>9. shown' \in Seq(Effects)
    BY <1>2, <2>3
  <2> QED BY <1>1, <1>3, <2>3, <2>4, <2>7, <2>8, <2>9, TypeParts, KeysSame, PlainTurn
<1>8. CASE FuseReleases(e)
  <2>1. active \in Responses /\ active # NoResponse /\ Holding(active)
    BY <1>8, TypeParts DEF FuseReleases, Holding
  <2> DEFINE h == Append(active.held, e)
             relabel == active.relabel \/ active.started
             a == [active EXCEPT !.held = <<>>, !.relabel = relabel]
  <2>2. active.held \in Seq(Effects) /\ h \in Seq(Effects)
    <3>1. active.held \in Seq(Effects)
      BY <2>1 DEF Responses
    <3> QED BY <3>1
  <2>3. EndTurn(a, Output, AltAfter(h)) /\ shown' = shown \o h
    BY <1>8 DEF FuseReleases
  <2>12. relabel \in BOOLEAN /\ <<>> \in Seq(Effects)
    OBVIOUS
  <2>4. a \in Responses
    <3> HIDE DEF relabel
    <3> QED BY <2>1, <2>12 DEF Responses
  <2>5. a # NoResponse
    BY <2>4, NoResponseAssumption
  <2>6. /\ a.id = active.id /\ a.mode = active.mode /\ a.anchored = active.anchored
        /\ a.started = active.started /\ a.accumulated = active.accumulated
        /\ a.held = <<>>
    BY <2>1 DEF Responses
  <2>7. a.relabel <=> relabel
    BY <2>1 DEF Responses
  <2> HIDE DEF a, h
  <2>8. Fit(a) /\ SameAnswer(active, a) /\ HeldBy(a) = <<>>
    BY <2>1, <2>4, <2>5, <2>6, TypeParts, FuseAssumption DEF Fit, SameAnswer, HeldBy
  <2>9. Marked(a, Output)
    BY <2>6, <2>7 DEF Marked
  <2>10. shown' \in Seq(Effects) /\ shown' \o <<>> = shown'
    BY <1>2, <2>2, <2>3
  <2>11. ~died /\ ~overtaken => shown' \o HeldBy(a) = produced'
    BY <1>1, <1>4, <1>5, <2>1, <2>2, <2>3, <2>8, <2>10 DEF HeldBy, h
  <2> QED BY <1>1, <1>3, <1>6, <2>3, <2>4, <2>8, <2>9, <2>10, <2>11, TypeParts, KeysSame,
             PlainTurn
<1>9. CASE OutputPasses(e)
  <2>0. PICK alike \in BOOLEAN :
          /\ ~Holding(active) /\ shown' = Append(shown, e)
          /\ EndTurn(active,
                     IF active # NoResponse /\ active.anchored /\ e # "lines"
                     THEN screen ELSE [Output EXCEPT !.tail = alike],
                     AltAfter(<<e>>))
    BY <1>9 DEF OutputPasses
  <2> DEFINE s == IF active # NoResponse /\ active.anchored /\ e # "lines"
                  THEN screen ELSE [Output EXCEPT !.tail = alike]
  <2>1. ~Holding(active) /\ EndTurn(active, s, AltAfter(<<e>>)) /\ shown' = Append(shown, e)
    BY <2>0
  <2>2. s \in ScreenType
    BY TypeParts DEF ScreenType
  <2> HIDE DEF s
  <2>3. Marked(active, s)
    BY <2>1 DEF Marked
  <2>4. HeldBy(active) = <<>>
    BY <2>1, TypeParts DEF HeldBy, Fit, Holding
  <2>5. shown \o <<>> = shown /\ Append(shown, e) \o <<>> = Append(shown, e)
        /\ Append(shown, e) \in Seq(Effects)
    BY <1>2
  <2>6. ~died /\ ~overtaken => shown' \o HeldBy(active) = produced'
    BY <1>1, <1>4, <2>1, <2>4, <2>5
  <2> QED BY <1>1, <1>3, <1>6, <2>1, <2>2, <2>3, <2>5, <2>6, TypeParts, KeysSame, SameSame,
             PlainTurn
<1> QED BY <1>7, <1>8, <1>9

(* A response begins fit, with nothing held and nothing accumulated. *)
LEMMA NewFacts ==
  ASSUME NEW r \in Requests, NEW mode \in {"Stream", "Block"}, NEW resting \in BOOLEAN
  PROVE  /\ NewResponse(r, mode, resting) \in Responses
         /\ NewResponse(r, mode, resting).id = r
         /\ NewResponse(r, mode, resting).accumulated = 0
         /\ NewResponse(r, mode, resting).held = <<>>
         /\ ~NewResponse(r, mode, resting).started
         /\ NewResponse(r, mode, resting).anchored => NewResponse(r, mode, resting).mode = "Stream"
<1> DEFINE anchored == mode = "Stream" /\ resting
<1>1. anchored \in BOOLEAN /\ (anchored => mode = "Stream") /\ <<>> \in Seq(Effects)
  OBVIOUS
<1>2. NewResponse(r, mode, resting)
        = [id |-> r, mode |-> mode, anchored |-> anchored,
           started |-> FALSE, accumulated |-> 0, held |-> <<>>, relabel |-> FALSE,
           aiEnd |-> FALSE, receiptShown |-> FALSE, stallShown |-> FALSE,
           waited |-> FALSE, stalled |-> FALSE]
  BY DEF NewResponse
<1> HIDE DEF anchored
<1> QED BY <1>1, <1>2 DEF Responses

(* A dispatch keeps IInv. *)
LEMMA DispatchInv ==
  ASSUME IInv, NEW r \in Requests, NEW standing \in {"ended", "running"},
         NEW resting \in BOOLEAN, Dispatch(r, standing, resting)
  PROVE  IInv'
<1> DEFINE mode == IF standing = "running" THEN "Block" ELSE "Stream"
           new == NewResponse(r, mode, resting)
           a == IF active = NoResponse THEN new ELSE active
<1>1. r \notin asked
  <2>1. \E x \in Requests : x \notin asked
    BY TypeParts DEF RestTyped, Dispatch
  <2> QED BY <2>1 DEF Dispatch, NextId
<1>2. /\ EndTurn(a, screen, altScreen)
      /\ asked' = asked \cup {r} /\ queue' = Append(queue, r)
      /\ overtaken' = (overtaken \/ (active = NoResponse /\ ToSet(queue) \ aborted # {}))
      /\ dispatched' = [dispatched EXCEPT ![r] = standing]
      /\ UNCHANGED <<died, aborted, interrupted, notices, keyVars, outputVars, answerVars>>
  BY DEF Dispatch, Awaited
<1>3. /\ new \in Responses /\ new.id = r /\ new.accumulated = 0 /\ new.held = <<>>
      /\ ~new.started /\ (new.anchored => new.mode = "Stream")
  BY NewFacts
<1>4. new # NoResponse
  BY <1>3, NoResponseAssumption
<1> HIDE DEF new
<1>5. a \in Responses \cup {NoResponse} /\ Fit(a) /\ HeldBy(a) = HeldBy(active)
  <2>1. Fit(new)
    BY <1>3, FuseAssumption DEF Fit
  <2> QED BY <1>3, <1>4, <2>1, TypeParts DEF HeldBy
<1>6. Marked(a, screen)
  BY <1>3 DEF IInv, Marked
<1>7. RestTyped'
  <2>1. RestTyped
    BY TypeParts
  <2>2. queue' \in Seq(Requests) /\ overtaken' \in BOOLEAN
    BY <1>2, <2>1 DEF RestTyped
  <2> QED BY <1>2, <2>1, <2>2 DEF RestTyped, keyVars, outputVars, answerVars
<1>8. Books(a, Append(queue, r), asked \cup {r}, finished, interrupted, aborted, died,
            overtaken \/ (active = NoResponse /\ ToSet(queue) \ aborted # {}),
            [dispatched EXCEPT ![r] = standing], sent, text)
  <2>1. IF active = NoResponse THEN a # NoResponse /\ a.id = r /\ a.accumulated = 0
                               ELSE a = active
    BY <1>3, <1>4
  <2>2. BooksNow /\ dispatched \in [Requests -> {"no", "ended", "running"}]
    BY TypeParts DEF IInv, RestTyped
  <2> HIDE DEF a
  <2> QED BY <1>1, <2>1, <2>2, BooksDispatch DEF BooksNow
<1> HIDE DEF a
<1>9. Books(a, queue', asked', finished', interrupted', aborted', died', overtaken',
            dispatched', sent', text')
  BY <1>2, <1>8 DEF answerVars
<1>10. ~died' /\ ~overtaken' => shown' \o HeldBy(a) = produced'
  BY <1>2, <1>5 DEF IInv, OutputInOrder, HeldOutput, HeldBy, outputVars
<1>11. InterruptsAccounted'
  BY <1>2, KeysSame
<1> QED BY <1>2, <1>5, <1>6, <1>7, <1>9, <1>10, <1>11, TypeParts, TurnInv

-----------------------------------------------------------------------------
(* A delta of an interrupted request is received and shows nowhere. *)
LEMMA BooksDropped ==
  ASSUME NEW a, NEW q, NEW ask, NEW fin, NEW int, NEW ab, NEW dead, NEW over, NEW disp,
         NEW sn, NEW tx, q # <<>>, Head(q) \in ab,
         Books(a, q, ask, fin, int, ab, dead, over, disp, sn, tx)
  PROVE  Books(a, q, ask, fin, int, ab, dead, over, disp, [sn EXCEPT ![Head(q)] = @ + 1], tx)
<1> DEFINE r == Head(q)
           newsn == [sn EXCEPT ![r] = @ + 1]
<1>0. q \in Seq(Requests)
  BY DEF Books, Queued
<1>1. Len(q) \in Nat \ {0} /\ r = q[1] /\ r \in Requests
  BY <1>0, Tailed
<1>2. 1 \in 1..Len(q)
  BY <1>1
<1> HIDE DEF r
<1>3. r \in ask /\ r \notin fin /\ r \in ab
  BY <1>1, <1>2 DEF Books, Queued, r
<1>4. newsn \in [Requests -> Nat] /\ \A x \in Requests : x # r => newsn[x] = sn[x]
  BY <1>1 DEF Books, Complete
<1>5. \A i \in 1..Len(q) : q[i] \notin ab => newsn[q[i]] = sn[q[i]]
  <2>1. \A i \in 1..Len(q) : q[i] \in Requests
    BY <1>0
  <2> QED BY <1>3, <1>4, <2>1
<1>6. \A x \in fin : newsn[x] = sn[x]
  BY <1>3, <1>4 DEF Books, Queued
<1>7. \A x \in Requests : x \notin ask => newsn[x] = sn[x]
  BY <1>3, <1>4
<1> HIDE DEF newsn
<1>8. Complete(a, q, ask, fin, ab, newsn, tx)
  BY <1>4, <1>5, <1>6, <1>7 DEF Books, Complete
<1> QED BY <1>8 DEF Books, newsn, r

(* The daemon's oldest request. *)
LEMMA HeadOfQueue ==
  ASSUME IInv, queue # <<>>
  PROVE  Head(queue) \in Requests /\ queue \in Seq(Requests) /\ Tail(queue) \in Seq(Requests)
<1>1. queue \in Seq(Requests)
  BY TypeParts DEF RestTyped
<1> QED BY <1>1, Tailed

(* The response a delta is for. *)
LEMMA AddressedFacts ==
  ASSUME IInv, queue # <<>>, Head(queue) \notin aborted, NEW resting \in BOOLEAN,
         NEW a, a = [Addressed(Head(queue), resting) EXCEPT !.stalled = FALSE]
  PROVE  /\ a \in Responses /\ a # NoResponse /\ Fit(a) /\ a.id = Head(queue)
         /\ a.accumulated = Collected(active, Head(queue))
         /\ Marked(a, screen)
         /\ ~died /\ ~overtaken => HeldBy(a) = HeldBy(active)
<1> DEFINE r == Head(queue)
           b == Addressed(r, resting)
<1>0. r \in Requests
  BY HeadOfQueue
<1>1. CASE Rendering(r)
  <2>1. b = active /\ active \in Responses /\ active # NoResponse /\ active.id = r
    BY <1>1, TypeParts DEF Addressed, Rendering
  <2>2. a = [active EXCEPT !.stalled = FALSE]
    BY <2>1
  <2>3. a \in Responses
    BY <2>1, <2>2 DEF Responses
  <2>4. a # NoResponse
    BY <2>3, NoResponseAssumption
  <2>5. /\ a.id = active.id /\ a.mode = active.mode /\ a.anchored = active.anchored
        /\ a.started = active.started /\ a.accumulated = active.accumulated
        /\ a.held = active.held /\ a.relabel = active.relabel
    BY <2>1, <2>2 DEF Responses
  <2>6. Fit(active) /\ Marked(active, screen)
    BY DEF IInv
  <2>7. Fit(a)
    BY <2>1, <2>3, <2>5, <2>6 DEF Fit
  <2>8. Marked(a, screen)
    BY <2>1, <2>5, <2>6 DEF Marked, Holding
  <2> QED BY <2>1, <2>3, <2>4, <2>5, <2>7, <2>8 DEF Collected, HeldBy
<1>2. CASE ~Rendering(r)
  <2> DEFINE mode == IF dispatched[r] = "ended" THEN "Stream" ELSE "Block"
  <2>1. b = NewResponse(r, mode, resting)
    BY <1>2 DEF Addressed
  <2>2. /\ b \in Responses /\ b.id = r /\ b.accumulated = 0 /\ b.held = <<>>
        /\ ~b.started /\ (b.anchored => b.mode = "Stream")
    BY <1>0, <2>1, NewFacts
  <2> HIDE DEF b
  <2>3. a = [b EXCEPT !.stalled = FALSE]
    BY DEF b
  <2>4. a \in Responses
    BY <2>2, <2>3 DEF Responses
  <2>5. a # NoResponse
    BY <2>4, NoResponseAssumption
  <2>6. /\ a.id = r /\ a.mode = b.mode /\ a.anchored = b.anchored
        /\ ~a.started /\ a.accumulated = 0 /\ a.held = <<>>
    BY <2>2, <2>3 DEF Responses
  <2>7. Fit(a)
    BY <2>2, <2>4, <2>6, FuseAssumption DEF Fit
  <2>8. Marked(a, screen)
    BY <2>6 DEF Marked
  <2>9. Collected(active, r) = 0
    BY <1>2 DEF Collected, Rendering
  <2>10. ~died /\ ~overtaken => active = NoResponse
    <3> SUFFICES ASSUME died = FALSE, overtaken = FALSE, active # NoResponse PROVE FALSE
      BY TypeParts DEF RestTyped
    <3>1. Books(active, queue, asked, finished, interrupted, aborted, FALSE, FALSE, dispatched,
                sent, text)
      BY DEF IInv, BooksNow
    <3>2. active.id = r
      BY <3>1, InTurn
    <3> QED BY <1>2, <3>2 DEF Rendering
  <2> QED BY <2>4, <2>5, <2>6, <2>7, <2>8, <2>9, <2>10 DEF HeldBy
<1> QED BY <1>1, <1>2

(* A delta that is not dropped, by what becomes of the response. *)
LEMMA DeltaTurn ==
  ASSUME IInv, queue # <<>>, Head(queue) \notin aborted, NEW b \in Responses,
         Fit(b), b.id = Head(queue), NEW s \in ScreenType, EndTurn(b, s, altScreen),
         Marked(b, s), ~died /\ ~overtaken => HeldBy(b) = HeldBy(active),
         sent' = [sent EXCEPT ![Head(queue)] = @ + 1],
         \/ /\ b.accumulated = Collected(active, Head(queue))
            /\ text' = [text EXCEPT ![Head(queue)] = @ + 1]
         \/ /\ b.accumulated = Collected(active, Head(queue)) + 1 /\ text' = text,
         UNCHANGED <<dispatched, aborted, interrupted, finished, notices, keyVars, daemonVars,
                     outputVars>>
  PROVE  IInv'
<1> DEFINE r == Head(queue)
<1>1. r \in Requests /\ RestTyped
  BY HeadOfQueue, TypeParts
<1>2. sent' \in [Requests -> Nat] /\ text' \in [Requests -> Nat]
  <2>1. sent \in [Requests -> Nat] /\ text \in [Requests -> Nat]
    BY <1>1 DEF RestTyped
  <2>2. sent' \in [Requests -> Nat]
    BY <1>1, <2>1
  <2>3. CASE text' = [text EXCEPT ![Head(queue)] = @ + 1]
    BY <1>1, <2>1, <2>2, <2>3
  <2> QED BY <2>1, <2>2, <2>3
<1>3. RestTyped'
  BY <1>1, <1>2 DEF RestTyped, keyVars, outputVars, daemonVars
<1>4. b # NoResponse
  BY NoResponseAssumption
<1>5. Books(b, queue, asked, finished, interrupted, aborted, died, overtaken, dispatched,
            [sent EXCEPT ![Head(queue)] = @ + 1], text')
  BY <1>4, BooksDelta DEF IInv, BooksNow
<1>6. Books(b, queue', asked', finished', interrupted', aborted', died', overtaken',
            dispatched', sent', text')
  BY <1>5 DEF daemonVars
<1>7. ~died' /\ ~overtaken' => shown' \o HeldBy(b) = produced'
  BY DEF IInv, OutputInOrder, HeldOutput, HeldBy, outputVars, daemonVars
<1>8. InterruptsAccounted'
  BY KeysSame
<1> QED BY <1>3, <1>6, <1>7, <1>8, TypeParts, TurnInv

(* A delta keeps IInv, dropped, streamed, inserted, degrading its answer or accumulated. *)
LEMMA DeltaInv ==
  ASSUME IInv, queue # <<>>, NEW resting \in BOOLEAN, OnDelta(Head(queue), resting)
  PROVE  IInv'
<1> DEFINE r == Head(queue)
           a == [Addressed(r, resting) EXCEPT !.stalled = FALSE]
<1>1. /\ sent' = [sent EXCEPT ![r] = @ + 1]
      /\ UNCHANGED <<dispatched, aborted, interrupted, finished, notices, keyVars, daemonVars,
                     outputVars>>
  BY DEF OnDelta, DeltaArrives
<1>2. r \in Requests /\ RestTyped
  BY HeadOfQueue, TypeParts
<1>3. CASE DeltaDropped(r)
  <2>1. r \in aborted /\ EndTurn(active, screen, altScreen) /\ text' = text
    BY <1>3 DEF DeltaDropped
  <2>2. sent' \in [Requests -> Nat]
    BY <1>1, <1>2 DEF RestTyped
  <2>3. RestTyped'
    BY <1>1, <1>2, <2>1, <2>2 DEF RestTyped, keyVars, outputVars, daemonVars
  <2>4. Books(active, queue, asked, finished, interrupted, aborted, died, overtaken, dispatched,
              [sent EXCEPT ![Head(queue)] = @ + 1], text)
    BY <2>1, BooksDropped DEF IInv, BooksNow
  <2>5. Books(active, queue', asked', finished', interrupted', aborted', died', overtaken',
              dispatched', sent', text')
    BY <1>1, <2>1, <2>4 DEF daemonVars
  <2>6. ~died' /\ ~overtaken' => shown' \o HeldBy(active) = produced'
    BY <1>1 DEF IInv, OutputInOrder, HeldOutput, HeldBy, outputVars, daemonVars
  <2>7. InterruptsAccounted' /\ Marked(active, screen)
    BY <1>1, KeysSame DEF IInv
  <2> QED BY <2>1, <2>3, <2>5, <2>6, <2>7, TypeParts, TurnInv
<1>4. CASE r \notin aborted /\ (DeltaStreams(a) \/ DeltaInserted(a) \/ DeltaDegrades(a)
                                  \/ DeltaAccumulates(a))
  <2>1. /\ a \in Responses /\ a # NoResponse /\ Fit(a) /\ a.id = r
        /\ a.accumulated = Collected(active, r)
        /\ Marked(a, screen)
        /\ ~died /\ ~overtaken => HeldBy(a) = HeldBy(active)
    BY <1>4, AddressedFacts
  <2> HIDE DEF a, r
  <2>2. screen \in ScreenType /\ Labelled(r) \in ScreenType /\ Labelled(r).owner = r
    BY <1>2, TypeParts DEF Labelled
  <2>3. CASE DeltaStreams(a)
    <3> DEFINE b == [a EXCEPT !.started = TRUE, !.relabel = FALSE]
               s == IF ~a.started \/ a.relabel THEN Labelled(r) ELSE screen
    <3>1. /\ EndTurn(b, s, altScreen) /\ text' = [text EXCEPT ![r] = @ + 1]
          /\ a.mode = "Stream" /\ ~a.anchored
      BY <2>1, <2>3 DEF DeltaStreams
    <3>2. b \in Responses
      BY <2>1 DEF Responses
    <3>3. /\ b.id = a.id /\ b.mode = a.mode /\ b.anchored = a.anchored
          /\ b.accumulated = a.accumulated /\ b.held = a.held
      BY <2>1 DEF Responses
    <3>4. b # NoResponse
      BY <3>2, NoResponseAssumption
    <3> HIDE DEF b
    <3>5. Fit(b) /\ HeldBy(b) = HeldBy(a)
      BY <2>1, <3>2, <3>3, <3>4 DEF Fit, HeldBy
    <3>6. s \in ScreenType /\ s.owner = r
      BY <2>1, <2>2, <3>1 DEF Marked, Holding
    <3> HIDE DEF s
    <3>7. Marked(b, s)
      BY <2>1, <3>3, <3>6 DEF Marked
    <3> QED BY <1>1, <1>4, <2>1, <3>1, <3>2, <3>3, <3>5, <3>6, <3>7, DeltaTurn DEF r
  <2>4. CASE DeltaInserted(a)
    <3> DEFINE b == [a EXCEPT !.started = TRUE, !.aiEnd = TRUE]
               s == IF a.aiEnd THEN screen ELSE Labelled(r)
    <3>1. /\ EndTurn(b, s, altScreen) /\ text' = [text EXCEPT ![r] = @ + 1] /\ a.anchored
      BY <2>1, <2>4 DEF DeltaInserted
    <3>2. b \in Responses
      BY <2>1 DEF Responses
    <3>3. /\ b.id = a.id /\ b.mode = a.mode /\ b.anchored = a.anchored
          /\ b.accumulated = a.accumulated /\ b.held = a.held
      BY <2>1 DEF Responses
    <3>4. b # NoResponse
      BY <3>2, NoResponseAssumption
    <3> HIDE DEF b
    <3>5. Fit(b) /\ HeldBy(b) = HeldBy(a)
      BY <2>1, <3>2, <3>3, <3>4 DEF Fit, HeldBy
    <3>6. s \in ScreenType
      BY <2>2
    <3> HIDE DEF s
    <3>7. Marked(b, s)
      BY <3>1, <3>3 DEF Marked, Holding
    <3> QED BY <1>1, <1>4, <2>1, <3>1, <3>2, <3>3, <3>5, <3>6, <3>7, DeltaTurn DEF r
  <2>5. CASE DeltaDegrades(a)
    <3> DEFINE b == [a EXCEPT !.mode = "Block", !.anchored = FALSE,
                              !.accumulated = a.accumulated + 1]
    <3>1. EndTurn(b, screen, altScreen) /\ text' = text /\ a.anchored
      BY <2>5 DEF DeltaDegrades
    <3>2. a.accumulated \in Nat
      BY <2>1 DEF Responses
    <3>3. b \in Responses
      <4> DEFINE n == a.accumulated + 1
      <4>1. n \in Nat
        BY <3>2
      <4>2. b = [a EXCEPT !.mode = "Block", !.anchored = FALSE, !.accumulated = n]
        OBVIOUS
      <4> HIDE DEF n, b
      <4>3. /\ b = [id |-> a.id, mode |-> "Block", anchored |-> FALSE, started |-> a.started,
                    accumulated |-> n, held |-> a.held, relabel |-> a.relabel,
                    aiEnd |-> a.aiEnd, receiptShown |-> a.receiptShown,
                    stallShown |-> a.stallShown, waited |-> a.waited, stalled |-> a.stalled]
        BY <2>1, <4>2 DEF Responses
      <4> QED BY <2>1, <4>1, <4>3 DEF Responses
    <3>4. /\ b.id = a.id /\ b.mode = "Block" /\ b.anchored = FALSE
          /\ b.accumulated = a.accumulated + 1 /\ b.held = a.held
      BY <2>1 DEF Responses
    <3>5. b # NoResponse
      BY <3>3, NoResponseAssumption
    <3> HIDE DEF b
    <3>6. Fit(b) /\ HeldBy(b) = HeldBy(a)
      BY <2>1, <3>1, <3>3, <3>4, <3>5 DEF Fit, HeldBy
    <3>7. Marked(b, screen)
      BY <3>4 DEF Marked, Holding
    <3> QED BY <1>1, <1>4, <2>1, <2>2, <3>1, <3>3, <3>4, <3>6, <3>7, DeltaTurn DEF r
  <2>6. CASE DeltaAccumulates(a)
    <3> DEFINE b == [a EXCEPT !.accumulated = a.accumulated + 1]
    <3>1. EndTurn(b, screen, altScreen) /\ text' = text /\ a.mode = "Block"
      BY <2>6 DEF DeltaAccumulates
    <3>2. a.accumulated \in Nat
      BY <2>1 DEF Responses
    <3>3. b \in Responses
      BY <2>1, <3>2 DEF Responses
    <3>4. /\ b.id = a.id /\ b.mode = a.mode /\ b.anchored = a.anchored
          /\ b.accumulated = a.accumulated + 1 /\ b.held = a.held
      BY <2>1 DEF Responses
    <3>5. b # NoResponse
      BY <3>3, NoResponseAssumption
    <3> HIDE DEF b
    <3>6. Fit(b) /\ HeldBy(b) = HeldBy(a)
      BY <2>1, <3>1, <3>3, <3>4, <3>5 DEF Fit, HeldBy
    <3>7. Marked(b, screen)
      BY <3>1, <3>4 DEF Marked, Holding
    <3> QED BY <1>1, <1>4, <2>1, <2>2, <3>1, <3>3, <3>4, <3>6, <3>7, DeltaTurn DEF r
  <2> QED BY <1>4, <2>3, <2>4, <2>5, <2>6
<1>5. DeltaDropped(r) \/ (r \notin aborted /\ (DeltaStreams(a) \/ DeltaInserted(a)
                             \/ DeltaDegrades(a) \/ DeltaAccumulates(a)))
  BY DEF OnDelta
<1> QED BY <1>3, <1>4, <1>5

-----------------------------------------------------------------------------
(* The end of an answer flushes what was held behind it and keeps IInv. *)
LEMMA EndInv ==
  ASSUME IInv, queue # <<>>, Finish(Head(queue))
  PROVE  IInv'
<1> DEFINE r == Head(queue)
<1>1. r \in Requests /\ Tail(queue) \in Seq(Requests) /\ RestTyped
  BY HeadOfQueue, TypeParts
<1>2. Ended(r)
  BY DEF Finish, FinishesUnseen, FinishesElsewhere, FinishesStream, FinishesBlock
<1>3. /\ queue' = Tail(queue) /\ dispatched' = [dispatched EXCEPT ![r] = "no"]
      /\ aborted' = aborted \ {r}
      /\ UNCHANGED <<asked, died, overtaken, sent, interrupted, produced, notices, keyVars>>
  BY <1>2 DEF Ended
<1>4. BooksNow
  BY DEF IInv
<1>5. InterruptsAccounted'
  BY <1>3, KeysSame
<1>6. ~died /\ ~overtaken => shown \o HeldBy(active) = produced
  BY DEF IInv, OutputInOrder, HeldOutput, HeldBy
<1>7. \A failed \in BOOLEAN, s \in ScreenType :
        ErrorSeam(s, failed) \in ScreenType /\ ErrorSeam(s, failed).owner = s.owner
  BY DEF ErrorSeam, Noticed, ScreenType
<1>8. screen \in ScreenType /\ altScreen \in BOOLEAN /\ Output \in ScreenType
      /\ Labelled(r) \in ScreenType /\ \A c : AltAfter(c) \in BOOLEAN
  BY <1>1, TypeParts DEF AltAfter
<1>9. dispatched \in [Requests -> {"no", "ended", "running"}]
      /\ shown \in Seq(Effects) /\ produced \in Seq(Effects) /\ shown \o <<>> = shown
  BY <1>1 DEF RestTyped
<1>10. ASSUME NEW b \in Responses \cup {NoResponse}, Fit(b), NEW s \in ScreenType,
              NEW alt \in BOOLEAN, EndTurn(b, s, alt), Marked(b, s),
              Books(b, Tail(queue), asked, finished', interrupted, aborted \ {r}, died,
                    overtaken, [dispatched EXCEPT ![r] = "no"], sent, text'),
              ~died /\ ~overtaken => shown' \o HeldBy(b) = produced,
              shown' \in Seq(Effects)
       PROVE  IInv'
  <2>1. /\ finished' \subseteq Requests /\ text' \in [Requests -> Nat]
    BY <1>1, <1>10 DEF Books, Queued, Complete, RestTyped
  <2>2. RestTyped'
    BY <1>1, <1>3, <1>10, <2>1 DEF RestTyped, keyVars
  <2>3. Books(b, queue', asked', finished', interrupted', aborted', died', overtaken',
              dispatched', sent', text')
    BY <1>3, <1>10
  <2>4. ~died' /\ ~overtaken' => shown' \o HeldBy(b) = produced'
    BY <1>3, <1>10
  <2> QED BY <1>5, <1>10, <2>2, <2>3, <2>4, TurnInv
<1> HIDE DEF r
<1>11. CASE FinishesUnseen(r)
  <2>1. /\ r \in aborted /\ EndTurn(active, screen, altScreen)
        /\ UNCHANGED <<text, finished, shown>>
    BY <1>11 DEF FinishesUnseen
  <2>2. Books(active, Tail(queue), asked, finished', interrupted, aborted \ {r}, died,
              overtaken, [dispatched EXCEPT ![r] = "no"], sent, text')
    BY <1>4, <1>9, <2>1, BooksEnd DEF BooksNow, r
  <2>3. Marked(active, screen)
    BY DEF IInv
  <2> QED BY <1>6, <1>8, <1>9, <1>10, <2>1, <2>2, <2>3, TypeParts
<1>12. ASSUME NEW failed \in BOOLEAN, FinishesElsewhere(r, failed) PROVE IInv'
  <2>1. /\ r \notin aborted /\ ~Rendering(r) /\ finished' = finished \cup {r}
        /\ EndTurn(active, ErrorSeam(screen, failed), altScreen)
        /\ UNCHANGED <<text, shown>>
    BY <1>12 DEF FinishesElsewhere
  <2>2. Books(active, Tail(queue), asked, finished', interrupted, aborted \ {r}, died,
              overtaken, [dispatched EXCEPT ![r] = "no"], sent, text')
    BY <1>4, <1>9, <2>1, BooksEnd DEF BooksNow, r, Rendering
  <2>3. ErrorSeam(screen, failed) \in ScreenType /\ Marked(active, ErrorSeam(screen, failed))
    BY <1>7, <1>8 DEF IInv, Marked
  <2> QED BY <1>6, <1>8, <1>9, <1>10, <2>1, <2>2, <2>3, TypeParts
<1>13. Fit(NoResponse) /\ HeldBy(NoResponse) = <<>> /\ \A s : Marked(NoResponse, s)
  BY DEF Fit, HeldBy, Marked, Holding
<1>14. ASSUME Rendering(r)
       PROVE  /\ active \in Responses /\ active # NoResponse /\ active.id = r
              /\ HeldBy(active) = active.held /\ active.held \in Seq(Effects)
              /\ shown \o active.held \in Seq(Effects)
              /\ (shown \o active.held) \o <<>> = shown \o active.held
  <2>1. active \in Responses /\ active # NoResponse /\ active.id = r
    BY <1>14, TypeParts DEF Rendering
  <2>2. active.held \in Seq(Effects)
    BY <2>1 DEF Responses
  <2> QED BY <1>9, <2>1, <2>2 DEF HeldBy
<1>15. ASSUME NEW failed \in BOOLEAN, FinishesStream(r, failed) PROVE IInv'
  <2> DEFINE s == IF active.held = <<>> THEN ErrorSeam(screen, failed) ELSE Output
  <2>1. /\ r \notin aborted /\ Rendering(r) /\ active.mode = "Stream"
        /\ finished' = finished \cup {r}
        /\ shown' = shown \o active.held
        /\ EndTurn(NoResponse, s, AltAfter(active.held))
        /\ text' = text
    BY <1>15 DEF FinishesStream
  <2>2. s \in ScreenType
    BY <1>7, <1>8
  <2> HIDE DEF s
  <2>3. text = [text EXCEPT ![r] = @ + active.accumulated]
    <3>1. active.accumulated = 0
      BY <1>14, <2>1, TypeParts DEF Fit
    <3>2. text \in [Requests -> Nat]
      BY <1>1 DEF RestTyped
    <3> QED BY <1>1, <3>1, <3>2 DEF r
  <2>4. Books(NoResponse, Tail(queue), asked, finished', interrupted, aborted \ {r}, died,
              overtaken, [dispatched EXCEPT ![r] = "no"], sent, text')
    BY <1>4, <1>9, <1>14, <2>1, <2>3, BooksEnd DEF BooksNow, r
  <2> QED BY <1>6, <1>8, <1>9, <1>10, <1>13, <1>14, <2>1, <2>2, <2>4
<1>16. ASSUME NEW failed \in BOOLEAN, FinishesBlock(r, failed) PROVE IInv'
  <2> DEFINE t == IF active.accumulated = 0 THEN screen ELSE Labelled(r)
             s == ErrorSeam(t, failed)
  <2>1. /\ r \notin aborted /\ Rendering(r) /\ active.mode = "Block"
        /\ finished' = finished \cup {r}
        /\ text' = [text EXCEPT ![r] = @ + active.accumulated]
        /\ EndTurn(NoResponse, s, altScreen)
        /\ shown' = shown
    BY <1>16 DEF FinishesBlock
  <2>2. t \in ScreenType
    BY <1>8
  <2> HIDE DEF t
  <2>3. s \in ScreenType
    BY <1>7, <2>2
  <2> HIDE DEF s
  <2>4. Books(NoResponse, Tail(queue), asked, finished', interrupted, aborted \ {r}, died,
              overtaken, [dispatched EXCEPT ![r] = "no"], sent, text')
    BY <1>4, <1>9, <1>14, <2>1, BooksEnd DEF BooksNow, r
  <2>5. active.held = <<>>
    BY <1>14, <2>1, TypeParts DEF Fit
  <2> QED BY <1>6, <1>8, <1>9, <1>10, <1>13, <1>14, <2>1, <2>3, <2>4, <2>5
<1> QED BY <1>11, <1>12, <1>15, <1>16 DEF Finish, r

(* The daemon's death leaves the processor as it was. *)
LEMMA DeathInv == ASSUME IInv, DaemonDies PROVE IInv'
<1>1. /\ queue' = <<>> /\ died' = TRUE
      /\ UNCHANGED <<dispatched, aborted, asked, overtaken, interrupted, notices, procVars,
                     keyVars, outputVars, answerVars>>
  BY DEF DaemonDies
<1>2. Books(active, <<>>, asked, finished, interrupted, aborted, TRUE, overtaken, dispatched,
            sent, text)
  BY BooksDeath DEF IInv, BooksNow
<1>3. BooksNow'
  BY <1>1, <1>2 DEF BooksNow, procVars, answerVars
<1>4. TypeOK'
  BY <1>1 DEF IInv, TypeOK, procVars, keyVars, outputVars, answerVars
<1>5. OutputInOrder'
  BY <1>1 DEF OutputInOrder
<1>6. Fit(active') /\ Marked(active', screen') /\ Silent(active')
  BY <1>1 DEF IInv, procVars
<1>7. InterruptsAccounted'
  BY <1>1, KeysSame
<1> QED BY <1>3, <1>4, <1>5, <1>6, <1>7 DEF IInv

-----------------------------------------------------------------------------
(* The swallowed keys among those on their way to the processor. *)
Marks(k) == {i \in DOMAIN k : k[i] = "interrupt"}

(* The swallowed keys on their way can be counted. *)
LEMMA MarksFinite ==
  ASSUME NEW k \in Seq({"input", "interrupt"})
  PROVE  IsFiniteSet(Marks(k)) /\ Cardinality(Marks(k)) \in Nat
<1>1. IsFiniteSet(1..Len(k))
  BY FS_Interval
<1>2. Marks(k) \in SUBSET (1..Len(k))
  BY DEF Marks
<1> QED BY <1>1, <1>2, FS_Subset, FS_CardinalityType

(* A key on its way is one swallowed key more if the window was armed for it. *)
LEMMA MarksAppend ==
  ASSUME NEW k \in Seq({"input", "interrupt"}), NEW x \in {"input", "interrupt"}
  PROVE  Cardinality(Marks(Append(k, x)))
           = Cardinality(Marks(k)) + IF x = "interrupt" THEN 1 ELSE 0
<1> DEFINE p == Append(k, x)
<1>1. /\ Len(k) \in Nat /\ DOMAIN k = 1..Len(k) /\ DOMAIN p = 1..(Len(k) + 1)
      /\ (\A i \in 1..Len(k) : p[i] = k[i]) /\ p[Len(k) + 1] = x
  OBVIOUS
<1>2. \A i \in 1..(Len(k) + 1) : i \in 1..Len(k) \/ i = Len(k) + 1
  BY <1>1
<1>3. Len(k) + 1 \notin Marks(k) /\ Len(k) + 1 \in 1..(Len(k) + 1)
      /\ \A i \in 1..Len(k) : i \in 1..(Len(k) + 1)
  BY <1>1 DEF Marks
<1> HIDE DEF p
<1>4. CASE x = "interrupt"
  <2>1. Marks(p) = Marks(k) \cup {Len(k) + 1}
    BY <1>1, <1>2, <1>3, <1>4 DEF Marks
  <2> QED BY <1>3, <1>4, <2>1, MarksFinite, FS_AddElement DEF p
<1>5. CASE x # "interrupt"
  <2>1. Marks(p) = Marks(k)
    BY <1>1, <1>2, <1>3, <1>5 DEF Marks
  <2> QED BY <1>5, <2>1, MarksFinite DEF p
<1> QED BY <1>4, <1>5

(* A key taken by the processor is one swallowed key less if it was one. *)
LEMMA MarksTail ==
  ASSUME NEW k \in Seq({"input", "interrupt"}), k # <<>>
  PROVE  Cardinality(Marks(k))
           = Cardinality(Marks(Tail(k))) + IF Head(k) = "interrupt" THEN 1 ELSE 0
<1> DEFINE p == Tail(k)
           S == Marks(k) \ {1}
           f == [i \in Marks(p) |-> i + 1]
<1>1. /\ p \in Seq({"input", "interrupt"}) /\ Len(p) = Len(k) - 1 /\ Len(k) \in Nat \ {0}
      /\ (\A i \in 1..Len(p) : p[i] = k[i + 1]) /\ Head(k) = k[1]
      /\ DOMAIN p = 1..Len(p) /\ DOMAIN k = 1..Len(k)
  BY Tailed
<1> HIDE DEF p
<1>2. \A i \in Marks(p) : i \in Nat /\ i + 1 \in S
  BY <1>1 DEF Marks
<1>3. \A j \in S : j - 1 \in Marks(p) /\ (j - 1) + 1 = j
  <2> SUFFICES ASSUME NEW j \in S PROVE j - 1 \in Marks(p) /\ (j - 1) + 1 = j
    OBVIOUS
  <2>1. j \in 2..Len(k) /\ k[j] = "interrupt"
    BY <1>1 DEF Marks
  <2>2. j - 1 \in 1..Len(p) /\ (j - 1) + 1 = j
    BY <1>1, <2>1
  <2>3. p[j - 1] = k[j]
    BY <1>1, <2>2
  <2> QED BY <1>1, <2>1, <2>2, <2>3 DEF Marks
<1>4. f \in Bijection(Marks(p), S)
  <2>1. f \in [Marks(p) -> S]
    BY <1>2
  <2>2. \A i, j \in Marks(p) : f[i] = f[j] => i = j
    BY <1>2
  <2>3. \A j \in S : \E i \in Marks(p) : f[i] = j
    BY <1>3
  <2> HIDE DEF f, S
  <2> QED BY <2>1, <2>2, <2>3 DEF Bijection, Injection, IsInjective, Surjection
<1>5. Cardinality(S) = Cardinality(Marks(p))
  <2>1. IsFiniteSet(Marks(p))
    BY <1>1, MarksFinite
  <2> HIDE DEF f, S
  <2> QED BY <1>4, <2>1, FS_Bijection DEF ExistsBijection
<1>6. Cardinality(S) = IF 1 \in Marks(k) THEN Cardinality(Marks(k)) - 1
                                        ELSE Cardinality(Marks(k))
  BY MarksFinite, FS_RemoveElement
<1>7. 1 \in Marks(k) <=> Head(k) = "interrupt"
  BY <1>1 DEF Marks
<1>8. Cardinality(Marks(k)) \in Nat
  BY MarksFinite
<1> HIDE DEF S
<1> QED BY <1>5, <1>6, <1>7, <1>8 DEF p

(* A key that is pressed goes to the program or on its way to the processor. *)
LEMMA PressInv == ASSUME IInv, PressInterrupt PROVE IInv'
<1> DEFINE x == IF window THEN "interrupt" ELSE "input"
<1>1. /\ pressed' = pressed + 1 /\ keys' = Append(keys, x)
      /\ forwarded' = IF window THEN forwarded ELSE forwarded + 1
      /\ UNCHANGED <<dispatched, aborted, interrupted, claimed, notices, procVars,
                     daemonVars, outputVars, answerVars>>
  BY DEF PressInterrupt
<1>2. RestTyped /\ keys \in Seq({"input", "interrupt"})
  BY TypeParts DEF RestTyped
<1>3. x \in {"input", "interrupt"} /\ (x = "interrupt" <=> window)
  OBVIOUS
<1> HIDE DEF x
<1>4. Cardinality(Marks(keys')) = Cardinality(Marks(keys)) + IF window THEN 1 ELSE 0
  BY <1>1, <1>2, <1>3, MarksAppend
<1>5. /\ pressed \in Nat /\ forwarded \in Nat /\ claimed["Stream"] \in Nat
      /\ claimed["Block"] \in Nat /\ Cardinality(Marks(keys)) \in Nat
  BY <1>2, MarksFinite DEF RestTyped
<1>6. pressed = forwarded + claimed["Stream"] + claimed["Block"] + Cardinality(Marks(keys))
  BY DEF IInv, InterruptsAccounted, Swallowed, Marks
<1>7. claimed' = claimed
  BY <1>1
<1>8. pressed' = forwarded' + claimed'["Stream"] + claimed'["Block"] + Cardinality(Marks(keys'))
  <2>1. CASE window
    BY <1>1, <1>4, <1>5, <1>6, <1>7, <2>1
  <2>2. CASE ~window
    BY <1>1, <1>4, <1>5, <1>6, <1>7, <2>2
  <2> QED BY <2>1, <2>2
<1>9. InterruptsAccounted'
  BY <1>8 DEF InterruptsAccounted, Swallowed, Marks
<1>10. keys' \in Seq({"input", "interrupt"})
  BY <1>1, <1>2, <1>3
<1>11. pressed' \in Nat /\ forwarded' \in Nat
  BY <1>1, <1>5
<1>12. TypeOK'
  BY <1>1, <1>10, <1>11 DEF IInv, TypeOK, procVars, daemonVars, outputVars, answerVars
<1>13. BooksNow' /\ OutputInOrder'
  BY <1>1 DEF IInv, BooksNow, OutputInOrder, HeldOutput, procVars, daemonVars, outputVars,
              answerVars
<1>14. Fit(active') /\ Marked(active', screen') /\ Silent(active')
  BY <1>1 DEF IInv, procVars
<1> QED BY <1>9, <1>12, <1>13, <1>14 DEF IInv

(* A turn that takes the answer in flight away. *)
LEMMA StoppedInv ==
  ASSUME IInv, UserInterrupt, keys' \in Seq({"input", "interrupt"}), forwarded' \in Nat,
         claimed' \in [{"Stream", "Block"} -> Nat], InterruptsAccounted',
         UNCHANGED <<pressed, produced, notices, daemonVars, answerVars>>
  PROVE  IInv'
<1>1. active \in Responses /\ active # NoResponse /\ RestTyped
  BY TypeParts DEF UserInterrupt
<1> DEFINE s == IF active.held = <<>> THEN Noticed(screen) ELSE Output
<1>2. /\ dispatched' = [dispatched EXCEPT ![active.id] = "no"]
      /\ aborted' = aborted \cup {active.id} /\ interrupted' = interrupted \cup {active.id}
      /\ shown' = shown \o active.held
      /\ EndTurn(NoResponse, s, AltAfter(active.held))
  BY DEF UserInterrupt
<1>3. s \in ScreenType
  BY TypeParts
<1> HIDE DEF s
<1>4. AltAfter(active.held) \in BOOLEAN
  BY TypeParts DEF AltAfter
<1>5. active.id \in Requests /\ active.held \in Seq(Effects)
  BY <1>1 DEF Responses
<1>6. shown \in Seq(Effects)
  BY <1>1 DEF RestTyped
<1>7. shown' \in Seq(Effects) /\ shown' \o <<>> = shown'
  BY <1>2, <1>5, <1>6
<1>8. /\ dispatched' \in [Requests -> {"no", "ended", "running"}]
      /\ aborted' \subseteq Requests /\ interrupted' \subseteq Requests
  BY <1>1, <1>2, <1>5 DEF RestTyped
<1>9. RestTyped'
  BY <1>1, <1>7, <1>8 DEF RestTyped, daemonVars, answerVars
<1>10. Books(NoResponse, queue, asked, finished, interrupted \cup {active.id},
             aborted \cup {active.id}, died, overtaken,
             [dispatched EXCEPT ![active.id] = "no"], sent, text)
  BY <1>1, BooksInterrupt DEF IInv, BooksNow, RestTyped
<1>11. Books(NoResponse, queue', asked', finished', interrupted', aborted', died', overtaken',
             dispatched', sent', text')
  BY <1>2, <1>10 DEF daemonVars, answerVars
<1>12. Fit(NoResponse) /\ HeldBy(NoResponse) = <<>> /\ Marked(NoResponse, s)
  BY DEF Fit, HeldBy, Marked, Holding
<1>13. ~died' /\ ~overtaken' => shown' \o HeldBy(NoResponse) = produced'
  BY <1>1, <1>2, <1>7, <1>12 DEF IInv, OutputInOrder, HeldOutput, daemonVars
<1> QED BY <1>2, <1>3, <1>4, <1>9, <1>11, <1>12, <1>13, TurnInv

(* What a key taken by the processor leaves to account for. *)
LEMMA KeyTaken ==
  ASSUME IInv, NEW k, TakeKey(k)
  PROVE  /\ keys' \in Seq({"input", "interrupt"})
         /\ k \in {"input", "interrupt"}
         /\ Cardinality(Marks(keys))
              = Cardinality(Marks(keys')) + IF k = "interrupt" THEN 1 ELSE 0
         /\ Cardinality(Marks(keys')) \in Nat
         /\ pressed = forwarded + claimed["Stream"] + claimed["Block"]
                       + Cardinality(Marks(keys))
         /\ pressed \in Nat /\ forwarded \in Nat /\ claimed["Stream"] \in Nat
         /\ claimed["Block"] \in Nat /\ pressed' = pressed
         /\ claimed \in [{"Stream", "Block"} -> Nat]
         /\ UNCHANGED <<pressed, produced, notices, daemonVars, answerVars>>
<1>1. RestTyped /\ keys \in Seq({"input", "interrupt"})
  BY TypeParts DEF RestTyped
<1>2. keys # <<>> /\ Head(keys) = k /\ keys' = Tail(keys)
      /\ UNCHANGED <<pressed, produced, notices, daemonVars, answerVars>>
  BY DEF TakeKey
<1>3. keys' \in Seq({"input", "interrupt"}) /\ Head(keys) \in {"input", "interrupt"}
  BY <1>1, <1>2, Tailed
<1>4. Cardinality(Marks(keys))
        = Cardinality(Marks(keys')) + IF k = "interrupt" THEN 1 ELSE 0
  BY <1>1, <1>2, MarksTail
<1>5. pressed = forwarded + claimed["Stream"] + claimed["Block"] + Cardinality(Marks(keys))
  BY DEF IInv, InterruptsAccounted, Swallowed, Marks
<1>6. Cardinality(Marks(keys')) \in Nat
  BY <1>3, MarksFinite
<1>7. /\ pressed \in Nat /\ forwarded \in Nat /\ claimed["Stream"] \in Nat
      /\ claimed["Block"] \in Nat /\ claimed \in [{"Stream", "Block"} -> Nat]
  BY <1>1 DEF RestTyped
<1> QED BY <1>2, <1>3, <1>4, <1>5, <1>6, <1>7

(* A turn with nothing to interrupt. *)
LEMMA StillInv ==
  ASSUME IInv, NothingToInterrupt, keys' \in Seq({"input", "interrupt"}), forwarded' \in Nat,
         claimed' \in [{"Stream", "Block"} -> Nat], InterruptsAccounted',
         UNCHANGED <<pressed, produced, notices, daemonVars, answerVars>>
  PROVE  IInv'
<1>1. EndTurn(active, screen, altScreen) /\ UNCHANGED <<dispatched, aborted, interrupted, shown>>
  BY DEF NothingToInterrupt
<1>2. RestTyped
  BY TypeParts
<1>3. ~died /\ ~overtaken => shown' \o HeldBy(active) = produced'
  BY <1>1 DEF IInv, OutputInOrder, HeldOutput, HeldBy
<1>4. shown' \in Seq(Effects) /\ produced' \in Seq(Effects) /\ notices' \in Nat /\ pressed' \in Nat
  BY <1>1, <1>2 DEF RestTyped
<1>5. Marked(active, screen)
  BY DEF IInv
<1> QED BY <1>1, <1>3, <1>4, <1>5, TypeParts, SameSame, PlainTurn

(* The processor hears of a key the program has. *)
LEMMA InputInv == ASSUME IInv, OnInput PROVE IInv'
<1>1. TakeKey("input") /\ forwarded' = forwarded /\ claimed' = claimed
      /\ (UserInterrupt \/ NothingToInterrupt)
  BY DEF OnInput
<1>2. pressed' = forwarded' + claimed'["Stream"] + claimed'["Block"] + Cardinality(Marks(keys'))
  <2>1. Cardinality(Marks(keys)) = Cardinality(Marks(keys'))
    BY <1>1, KeyTaken
  <2> QED BY <1>1, <2>1, KeyTaken
<1>3. InterruptsAccounted'
  BY <1>2 DEF InterruptsAccounted, Swallowed, Marks
<1>4. /\ keys' \in Seq({"input", "interrupt"}) /\ forwarded' \in Nat
      /\ claimed' \in [{"Stream", "Block"} -> Nat]
      /\ UNCHANGED <<pressed, produced, notices, daemonVars, answerVars>>
  BY <1>1, KeyTaken
<1> QED BY <1>1, <1>3, <1>4, StoppedInv, StillInv

(* A swallowed key stops one answer or is forwarded. *)
LEMMA InterruptInv == ASSUME IInv, OnInterrupt PROVE IInv'
<1>1. TakeKey("interrupt")
  BY DEF OnInterrupt
<1>2. /\ keys' \in Seq({"input", "interrupt"})
      /\ Cardinality(Marks(keys)) = Cardinality(Marks(keys')) + 1
      /\ Cardinality(Marks(keys')) \in Nat
      /\ pressed = forwarded + claimed["Stream"] + claimed["Block"] + Cardinality(Marks(keys))
      /\ pressed \in Nat /\ forwarded \in Nat /\ claimed["Stream"] \in Nat
      /\ claimed["Block"] \in Nat /\ pressed' = pressed
      /\ claimed \in [{"Stream", "Block"} -> Nat]
      /\ UNCHANGED <<pressed, produced, notices, daemonVars, answerVars>>
  BY <1>1, KeyTaken
<1>3. CASE /\ UserInterrupt /\ claimed' = [claimed EXCEPT ![active.mode] = @ + 1]
           /\ forwarded' = forwarded
  <2>1. active.mode \in {"Stream", "Block"}
    <3>1. active \in Responses
      BY <1>3, TypeParts DEF UserInterrupt
    <3> QED BY <3>1 DEF Responses
  <2>2. claimed' \in [{"Stream", "Block"} -> Nat]
    BY <1>2, <1>3, <2>1
  <2>3. claimed'["Stream"] + claimed'["Block"] = claimed["Stream"] + claimed["Block"] + 1
    <3>1. CASE active.mode = "Stream"
      BY <1>2, <1>3, <3>1
    <3>2. CASE active.mode = "Block"
      BY <1>2, <1>3, <3>2
    <3> QED BY <2>1, <3>1, <3>2
  <2>4. claimed'["Stream"] \in Nat /\ claimed'["Block"] \in Nat
    BY <2>2
  <2>5. pressed' = forwarded' + claimed'["Stream"] + claimed'["Block"] + Cardinality(Marks(keys'))
    <3>1. forwarded' = forwarded /\ pressed' = pressed
      BY <1>2, <1>3
    <3>2. pressed' = forwarded' + (claimed["Stream"] + claimed["Block"] + 1)
                      + Cardinality(Marks(keys'))
      BY <1>2, <3>1
    <3> QED BY <1>2, <2>3, <2>4, <3>1, <3>2
  <2>6. InterruptsAccounted'
    BY <2>5 DEF InterruptsAccounted, Swallowed, Marks
  <2> QED BY <1>2, <1>3, <2>2, <2>6, StoppedInv
<1>4. CASE NothingToInterrupt /\ forwarded' = forwarded + 1 /\ claimed' = claimed
  <2>1. pressed' = forwarded' + claimed'["Stream"] + claimed'["Block"] + Cardinality(Marks(keys'))
    BY <1>2, <1>4
  <2>2. InterruptsAccounted'
    BY <2>1 DEF InterruptsAccounted, Swallowed, Marks
  <2> QED BY <1>2, <1>4, <2>2, StillInv
<1> QED BY <1>3, <1>4 DEF OnInterrupt

-----------------------------------------------------------------------------
(* Before the first question nothing is in flight, held or awaited.        *)
LEMMA InitInv == ASSUME Init PROVE IInv
<1>1. TypeOK
  <2>1. /\ dispatched \in [Requests -> {"no", "ended", "running"}]
        /\ sent \in [Requests -> Nat] /\ text \in [Requests -> Nat]
        /\ claimed \in [{"Stream", "Block"} -> Nat]
    BY DEF Init
  <2>2. screen \in ScreenType
    BY DEF Init, ScreenType
  <2>3. /\ keys \in Seq({"input", "interrupt"}) /\ queue \in Seq(Requests)
        /\ produced \in Seq(Effects) /\ shown \in Seq(Effects)
    BY DEF Init
  <2>4. /\ active = NoResponse /\ aborted = {} /\ asked = {} /\ finished = {}
        /\ interrupted = {} /\ altScreen = FALSE /\ window = FALSE /\ died = FALSE
        /\ overtaken = FALSE /\ notices = 0 /\ pressed = 0 /\ forwarded = 0
    BY DEF Init
  <2> QED BY <2>1, <2>2, <2>3, <2>4 DEF TypeOK, ScreenType
<1>2. Fit(active) /\ Marked(active, screen) /\ Silent(active)
  BY DEF Init, Fit, Marked, Silent, Holding
<1>3. BooksNow
  <2>1. /\ sent \in [Requests -> Nat] /\ text \in [Requests -> Nat]
        /\ \A r \in Requests : sent[r] = 0 /\ text[r] = 0 /\ dispatched[r] = "no"
        /\ queue = <<>> /\ active = NoResponse /\ asked = {} /\ finished = {}
        /\ interrupted = {} /\ aborted = {}
    BY DEF Init
  <2>2. queue \in Seq(Requests) /\ Len(queue) = 0
    BY <2>1
  <2> QED BY <2>1, <2>2 DEF BooksNow, Books, Queued, InFlight, Owed, Complete, Ordered
<1>4. OutputInOrder
  BY DEF Init, OutputInOrder, HeldOutput
<1>5. InterruptsAccounted
  <2>1. Swallowed = {}
    BY DEF Init, Swallowed
  <2>2. Cardinality(Swallowed) = 0
    BY <2>1, FS_EmptySet
  <2> QED BY <2>2 DEF Init, InterruptsAccounted
<1> QED BY <1>1, <1>2, <1>3, <1>4, <1>5 DEF IInv

(* Every turn of the processor, step of the daemon and press keeps IInv.   *)
LEMMA NextInv == ASSUME IInv, [Next]_vars PROVE IInv'
<1>1. CASE \E r \in Requests, standing \in {"ended", "running"}, resting \in BOOLEAN :
             Dispatch(r, standing, resting)
  BY <1>1, DispatchInv
<1>2. CASE Notice
  BY <1>2, NoticeInv
<1>3. CASE \E e \in Effects : OutputHeld(e) \/ FuseReleases(e) \/ OutputPasses(e)
  BY <1>3, OutputInv
<1>4. CASE DaemonDelta
  BY <1>4, DeltaInv DEF DaemonDelta
<1>5. CASE DaemonToolActivity
  BY <1>5, ToolInv DEF DaemonToolActivity
<1>6. CASE DaemonEnds
  BY <1>6, EndInv DEF DaemonEnds
<1>7. CASE DaemonDies
  BY <1>7, DeathInv
<1>8. CASE PressInterrupt
  BY <1>8, PressInv
<1>9. CASE OnInput
  BY <1>9, InputInv
<1>10. CASE OnInterrupt
  BY <1>10, InterruptInv
<1>11. CASE ReceiptDelayPasses \/ StallDelayPasses
  BY <1>11, TimeInv
<1>12. CASE UNCHANGED vars
  BY <1>12 DEF vars, IInv, TypeOK, BooksNow, OutputInOrder, HeldOutput, InterruptsAccounted,
               Swallowed
<1> QED BY <1>1, <1>2, <1>3, <1>4, <1>5, <1>6, <1>7, <1>8, <1>9, <1>10, <1>11, <1>12 DEF Next

(* The inductive invariant holds in every state. *)
THEOREM InvariantAlwaysHolds == Spec => []IInv
<1>1. Init => IInv
  BY InitInv
<1>2. IInv /\ [Next]_vars => IInv'
  BY NextInv
<1> QED BY <1>1, <1>2, PTL DEF Spec

(* For any number of questions, fuse and output: until the daemon dies or a request is
   overtaken, the screen and what is held are together exactly what the programs wrote,
   and nothing is held silently past the stall delay. *)
THEOREM OutputAlwaysSound == Spec => []OutputSound
<1>1. IInv => OutputSound
  BY DEF IInv, OutputSound, HeldNeverSilent, Silent
<1> QED BY <1>1, InvariantAlwaysHolds, PTL

(* A request that ended without an interrupt has every delta the terminal received on the
   screen, whatever died, was overtaken or degraded meanwhile. *)
THEOREM AnswersAlwaysComplete == Spec => []AnswerComplete
<1>1. IInv => AnswerComplete
  BY DEF IInv, BooksNow, Books, Complete, AnswerComplete
<1> QED BY <1>1, InvariantAlwaysHolds, PTL

(* Every Ctrl+C was given to the program, stopped one answer or is on its way; and what
   the processor keeps of requests is about ones the daemon still owes an end. *)
THEOREM InterruptsAlwaysSound == Spec => []InterruptsSound
<1>1. IInv => InterruptsSound
  <2> SUFFICES ASSUME IInv PROVE OutstandingOnly
    BY DEF IInv, InterruptsSound
  <2>1. queue \in Seq(Requests)
    BY TypeParts DEF RestTyped
  <2>2. \A r : IsOwed(queue, r) => r \in ToSet(queue)
    BY <2>1 DEF IsOwed, ToSet
  <2>3. Owed(active, queue, died, aborted, dispatched)
    BY DEF IInv, BooksNow, Books
  <2> QED BY <2>2, <2>3 DEF Owed, OutstandingOnly
<1> QED BY <1>1, InvariantAlwaysHolds, PTL

(* A turn that is given a response whose tail is its own or a program's ends with one. *)
LEMMA TailTurn ==
  ASSUME NEW a \in Responses \cup {NoResponse}, NEW s \in ScreenType,
         NEW alt \in BOOLEAN, EndTurn(a, s, alt), OwnTail(a, s)
  PROVE  OwnTail(active, screen)'
<1>1. active' = Polled(a)
  BY DEF EndTurn
<1>2. screen'.owner = s.owner /\ (screen'.tail => s.tail)
  BY DEF EndTurn, Noticed, ScreenType
<1>3. CASE a = NoResponse
  BY <1>1, <1>3 DEF OwnTail, Polled, StallDue, ReceiptDue, Holding
<1>4. CASE a # NoResponse
  <2>1. active'.id = a.id /\ active'.aiEnd = a.aiEnd
    BY <1>1, <1>4 DEF Polled, Responses
  <2> QED BY <1>2, <1>4, <2>1 DEF OwnTail
<1> QED BY <1>3, <1>4

(* The row a delta's tail is compared with is the answer's own or a program's. *)
LEMMA TailAddressed ==
  ASSUME IInv, OwnTail(active, screen), NEW r \in Requests, NEW resting \in BOOLEAN,
         NEW a \in Responses, a = [Addressed(r, resting) EXCEPT !.stalled = FALSE]
  PROVE  OwnTail(a, screen) /\ (a.aiEnd => active # NoResponse /\ active.id = a.id /\ active.aiEnd)
<1>1. CASE Rendering(r)
  <2>1. active \in Responses /\ active # NoResponse /\ a = [active EXCEPT !.stalled = FALSE]
    BY <1>1, TypeParts DEF Addressed, Rendering
  <2>2. a.id = active.id /\ a.aiEnd = active.aiEnd
    BY <2>1 DEF Responses
  <2> QED BY <2>1, <2>2 DEF OwnTail
<1>2. CASE ~Rendering(r)
  <2> DEFINE mode == IF dispatched[r] = "ended" THEN "Stream" ELSE "Block"
  <2>1. a = [NewResponse(r, mode, resting) EXCEPT !.stalled = FALSE]
    BY <1>2 DEF Addressed
  <2>2. ~a.aiEnd
    BY <2>1 DEF NewResponse
  <2> QED BY <2>2 DEF OwnTail
<1> QED BY <1>1, <1>2

(* A delta leaves the row above the live region the answer's own or a program's. *)
LEMMA TailDelta ==
  ASSUME IInv, OwnTail(active, screen), DaemonDelta
  PROVE  OwnTail(active, screen)'
<1>1. PICK resting \in BOOLEAN : OnDelta(Head(queue), resting) /\ queue # <<>>
  BY DEF DaemonDelta
<1> DEFINE h == Head(queue)
           a == [Addressed(h, resting) EXCEPT !.stalled = FALSE]
<1>2. /\ h \in Requests /\ active \in Responses \cup {NoResponse}
      /\ screen \in ScreenType /\ altScreen \in BOOLEAN
  BY <1>1, HeadOfQueue, TypeParts
<1>3. CASE h \in aborted
  <2>1. EndTurn(active, screen, altScreen)
    BY <1>1, <1>3 DEF OnDelta, DeltaDropped
  <2> QED BY <1>2, <2>1, TailTurn
<1>4. CASE h \notin aborted
  <2>1. DeltaStreams(a) \/ DeltaInserted(a) \/ DeltaDegrades(a) \/ DeltaAccumulates(a)
    BY <1>1, <1>4 DEF OnDelta, DeltaDropped
  <2>2. a \in Responses /\ a.id = h
    BY <1>1, <1>4, AddressedFacts
  <2>3. OwnTail(a, screen)
    BY <1>2, <2>2, TailAddressed
  <2> HIDE DEF a, h
  <2>4. /\ Labelled(a.id) \in ScreenType /\ Labelled(a.id).owner = a.id
        /\ a.accumulated + 1 \in Nat
    BY <1>2, <2>2 DEF Labelled, ScreenType, Responses
  <2>5. CASE DeltaStreams(a)
    <3> DEFINE b == [a EXCEPT !.started = TRUE, !.relabel = FALSE]
               s == IF ~a.started \/ a.relabel THEN Labelled(a.id) ELSE screen
    <3>1. EndTurn(b, s, altScreen)
      BY <2>5 DEF DeltaStreams
    <3>2. b \in Responses /\ b.id = a.id /\ b.aiEnd = a.aiEnd
      BY <2>2 DEF Responses
    <3>3. s \in ScreenType /\ OwnTail(b, s)
      <4> HIDE DEF b
      <4> QED BY <1>2, <2>2, <2>3, <2>4, <3>2, NoResponseAssumption DEF OwnTail
    <3> HIDE DEF b, s
    <3> QED BY <1>2, <3>1, <3>2, <3>3, TailTurn
  <2>6. CASE DeltaInserted(a)
    <3> DEFINE b == [a EXCEPT !.started = TRUE, !.aiEnd = TRUE]
               s == IF a.aiEnd THEN screen ELSE Labelled(a.id)
    <3>1. EndTurn(b, s, altScreen)
      BY <2>6 DEF DeltaInserted
    <3>2. b \in Responses /\ b.id = a.id /\ (a.aiEnd => b.aiEnd)
      BY <2>2 DEF Responses
    <3>3. s \in ScreenType /\ OwnTail(b, s)
      <4> HIDE DEF b
      <4> QED BY <1>2, <2>2, <2>3, <2>4, <3>2, NoResponseAssumption DEF OwnTail
    <3> HIDE DEF b, s
    <3> QED BY <1>2, <3>1, <3>2, <3>3, TailTurn
  <2>7. CASE DeltaDegrades(a) \/ DeltaAccumulates(a)
    <3>1. PICK b \in Responses : EndTurn(b, screen, altScreen) /\ b.id = a.id /\ b.aiEnd = a.aiEnd
      <4>1. CASE DeltaDegrades(a)
        <5> DEFINE b == [a EXCEPT !.mode = "Block", !.anchored = FALSE, !.accumulated = @ + 1]
        <5>1. EndTurn(b, screen, altScreen)
          BY <4>1 DEF DeltaDegrades
        <5>2. b \in Responses /\ b.id = a.id /\ b.aiEnd = a.aiEnd
          BY <2>2, <2>4 DEF Responses
        <5> QED BY <5>1, <5>2
      <4>2. CASE DeltaAccumulates(a)
        <5> DEFINE b == [a EXCEPT !.accumulated = @ + 1]
        <5>1. EndTurn(b, screen, altScreen)
          BY <4>2 DEF DeltaAccumulates
        <5>2. b \in Responses /\ b.id = a.id /\ b.aiEnd = a.aiEnd
          BY <2>2, <2>4 DEF Responses
        <5> QED BY <5>1, <5>2
      <4> QED BY <2>7, <4>1, <4>2
    <3>2. OwnTail(b, screen)
      BY <2>2, <2>3, <3>1, NoResponseAssumption DEF OwnTail
    <3> QED BY <1>2, <3>1, <3>2, TailTurn
  <2> QED BY <2>1, <2>5, <2>6, <2>7
<1> QED BY <1>3, <1>4

(* The output of a program leaves the row the answer's own or the program's. *)
LEMMA TailOutput ==
  ASSUME IInv, OwnTail(active, screen), NEW e \in Effects,
         OutputHeld(e) \/ FuseReleases(e) \/ OutputPasses(e)
  PROVE  OwnTail(active, screen)'
<1>1. /\ active \in Responses \cup {NoResponse} /\ screen \in ScreenType
      /\ altScreen \in BOOLEAN /\ \A c : AltAfter(c) \in BOOLEAN
  BY TypeParts DEF AltAfter
<1>2. Output \in ScreenType /\ Output.owner = "output"
  BY DEF Output, ScreenType
<1>3. CASE OutputHeld(e)
  <2> DEFINE a == [active EXCEPT !.held = Append(@, e)]
  <2>1. EndTurn(a, screen, altScreen) /\ active \in Responses /\ active # NoResponse
    BY <1>1, <1>3 DEF OutputHeld, Holding
  <2>2. Append(active.held, e) \in Seq(Effects)
    BY <2>1 DEF Responses
  <2>3. a \in Responses /\ a.id = active.id /\ a.aiEnd = active.aiEnd
    BY <2>1, <2>2 DEF Responses
  <2>4. OwnTail(a, screen)
    BY <2>1, <2>3 DEF OwnTail
  <2> HIDE DEF a
  <2> QED BY <1>1, <2>1, <2>3, <2>4, TailTurn
<1>4. CASE FuseReleases(e)
  <2> DEFINE relabel == active.relabel \/ active.started
             a == [active EXCEPT !.held = <<>>, !.relabel = relabel]
             alt == AltAfter(Append(active.held, e))
  <2>1. EndTurn(a, Output, alt) /\ active \in Responses /\ active # NoResponse
    BY <1>1, <1>4 DEF FuseReleases, Holding
  <2>2. relabel \in BOOLEAN /\ <<>> \in Seq(Effects) /\ alt \in BOOLEAN
    BY <1>1
  <2>3. a \in Responses
    <3> HIDE DEF relabel
    <3> QED BY <2>1, <2>2 DEF Responses
  <2>4. OwnTail(a, Output)
    BY <1>2 DEF OwnTail
  <2> HIDE DEF a, alt
  <2> QED BY <1>2, <2>1, <2>2, <2>3, <2>4, TailTurn
<1>5. CASE OutputPasses(e)
  <2>1. PICK alike \in BOOLEAN :
          EndTurn(active,
                  IF active # NoResponse /\ active.anchored /\ e # "lines"
                  THEN screen ELSE [Output EXCEPT !.tail = alike],
                  AltAfter(<<e>>))
    BY <1>5 DEF OutputPasses
  <2> DEFINE s == IF active # NoResponse /\ active.anchored /\ e # "lines"
                  THEN screen ELSE [Output EXCEPT !.tail = alike]
  <2>2. s \in ScreenType /\ (s = screen \/ s.owner = "output")
    BY <1>1, <1>2 DEF ScreenType
  <2>3. EndTurn(active, s, AltAfter(<<e>>))
    BY <2>1
  <2> HIDE DEF s
  <2>4. OwnTail(active, s)
    BY <2>2 DEF OwnTail
  <2> QED BY <1>1, <2>2, <2>3, <2>4, TailTurn
<1> QED BY <1>3, <1>4, <1>5

(* The row above the live region reads like an answer's tail only if it is that answer's
   own, or what a program wrote. *)
LEMMA TailKept ==
  ASSUME IInv, OwnTail(active, screen), [Next]_vars
  PROVE  OwnTail(active, screen)'
<1>1. /\ active \in Responses \cup {NoResponse} /\ screen \in ScreenType
      /\ altScreen \in BOOLEAN
      /\ Noticed(screen) \in ScreenType /\ ~Noticed(screen).tail
  BY TypeParts DEF Noticed, ScreenType
<1>2. \A failed \in BOOLEAN :
        ErrorSeam(screen, failed) \in ScreenType /\ OwnTail(active, ErrorSeam(screen, failed))
  BY <1>1 DEF ErrorSeam, OwnTail
<1>3. OwnTail(active, Noticed(screen))
  BY <1>1 DEF OwnTail
<1>4. CASE EndTurn(active, screen, altScreen)
  BY <1>1, <1>4, TailTurn
<1>5. ASSUME NEW s, NEW alt, EndTurn(NoResponse, s, alt) PROVE OwnTail(active, screen)'
  BY <1>5 DEF EndTurn, Polled, StallDue, ReceiptDue, Holding, OwnTail
<1>6. CASE UNCHANGED <<active, screen>>
  BY <1>6 DEF OwnTail
<1>7. CASE \E r \in Requests, standing \in {"ended", "running"}, resting \in BOOLEAN :
             Dispatch(r, standing, resting)
  <2>1. PICK r \in Requests, mode \in {"Stream", "Block"}, resting \in BOOLEAN :
          EndTurn(IF active = NoResponse THEN NewResponse(r, mode, resting) ELSE active,
                  screen, altScreen)
    BY <1>7 DEF Dispatch
  <2>2. CASE active = NoResponse
    <3> DEFINE a == NewResponse(r, mode, resting)
    <3>1. a \in Responses
      BY <2>1, NewFacts
    <3>2. ~a.aiEnd
      BY DEF NewResponse
    <3>3. OwnTail(a, screen)
      BY <3>2 DEF OwnTail
    <3> HIDE DEF a
    <3>4. EndTurn(a, screen, altScreen)
      BY <2>1, <2>2 DEF a
    <3> QED BY <1>1, <3>1, <3>3, <3>4, TailTurn
  <2> QED BY <1>4, <2>1, <2>2
<1>8. CASE Notice
  BY <1>1, <1>3, <1>8, TailTurn DEF Notice
<1>9. CASE \E e \in Effects : OutputHeld(e) \/ FuseReleases(e) \/ OutputPasses(e)
  BY <1>9, TailOutput
<1>10. CASE DaemonDelta
  BY <1>10, TailDelta
<1>11. CASE DaemonToolActivity
  <2>1. PICK q \in BOOLEAN :
          \/ EndTurn([active EXCEPT !.receiptShown = TRUE, !.stalled = FALSE,
                        !.aiEnd = FALSE, !.relabel = q], Noticed(screen), altScreen)
             /\ active # NoResponse
          \/ EndTurn(active, screen, altScreen)
    <3> DEFINE q == active.relabel \/ (~active.anchored /\ active.started)
    <3>1. q \in BOOLEAN
      OBVIOUS
    <3> QED BY <1>11, <3>1 DEF DaemonToolActivity, OnToolActivity, Rendering
  <2> DEFINE a == [active EXCEPT !.receiptShown = TRUE, !.stalled = FALSE,
                     !.aiEnd = FALSE, !.relabel = q]
  <2>2. CASE active # NoResponse /\ EndTurn(a, Noticed(screen), altScreen)
    <3>1. a \in Responses
      BY <1>1, <2>2 DEF Responses
    <3>2. OwnTail(a, Noticed(screen))
      BY <1>1 DEF OwnTail
    <3> HIDE DEF a
    <3> QED BY <1>1, <2>2, <3>1, <3>2, TailTurn
  <2> QED BY <1>4, <2>1, <2>2
<1>12. CASE DaemonEnds
  <2>1. \/ \E failed \in BOOLEAN : EndTurn(active, ErrorSeam(screen, failed), altScreen)
        \/ EndTurn(active, screen, altScreen)
        \/ \E s, alt : EndTurn(NoResponse, s, alt)
    BY <1>12 DEF DaemonEnds, Finish, FinishesUnseen, FinishesElsewhere, FinishesStream,
                 FinishesBlock
  <2>2. CASE \E failed \in BOOLEAN : EndTurn(active, ErrorSeam(screen, failed), altScreen)
    BY <1>1, <1>2, <2>2, TailTurn
  <2> QED BY <1>4, <1>5, <2>1, <2>2
<1>13. CASE DaemonDies \/ PressInterrupt
  BY <1>6, <1>13 DEF DaemonDies, PressInterrupt, procVars
<1>14. CASE OnInput \/ OnInterrupt
  <2>1. EndTurn(active, screen, altScreen) \/ \E s, alt : EndTurn(NoResponse, s, alt)
    BY <1>14 DEF OnInput, OnInterrupt, UserInterrupt, NothingToInterrupt
  <2> QED BY <1>4, <1>5, <2>1
<1>15. CASE ReceiptDelayPasses \/ StallDelayPasses
  <2>1. PICK a : /\ active \in Responses /\ active # NoResponse
                 /\ EndTurn(a, screen, altScreen)
                 /\ \/ a = [active EXCEPT !.waited = TRUE]
                    \/ a = [active EXCEPT !.waited = TRUE, !.stalled = TRUE]
    BY <1>1, <1>15 DEF ReceiptDelayPasses, StallDelayPasses, TimePasses
  <2>2. a \in Responses /\ a.id = active.id /\ a.aiEnd = active.aiEnd
    BY <2>1 DEF Responses
  <2>3. OwnTail(a, screen)
    BY <2>1, <2>2 DEF OwnTail
  <2> QED BY <1>1, <2>1, <2>2, <2>3, TailTurn
<1>16. CASE UNCHANGED vars
  BY <1>6, <1>16 DEF vars
<1> QED BY <1>7, <1>8, <1>9, <1>10, <1>11, <1>12, <1>13, <1>14, <1>15, <1>16 DEF Next

(* Whatever moves the text of an answer is a step of the oldest request,   *)
(* one nobody interrupted, and leaves a block of that answer on top, or    *)
(* continues a row of a program that reads like it.                        *)
LEMMA TextMoves ==
  ASSUME IInv, OwnTail(active, screen), [Next]_vars,
         NEW r \in Requests, text'[r] # text[r]
  PROVE  /\ queue # <<>> /\ r = Head(queue) /\ r \notin aborted
         /\ screen'.owner = r \/ Lookalike(r)
<1>1. CASE DaemonDelta
  <2>1. PICK resting \in BOOLEAN : OnDelta(Head(queue), resting) /\ queue # <<>>
    BY <1>1 DEF DaemonDelta
  <2> DEFINE h == Head(queue)
             a == [Addressed(h, resting) EXCEPT !.stalled = FALSE]
  <2>2. h \in Requests /\ text \in [Requests -> Nat]
    BY <2>1, HeadOfQueue, TypeParts DEF RestTyped
  <2>3. h \notin aborted /\ (DeltaStreams(a) \/ DeltaInserted(a))
    BY <2>1 DEF OnDelta, DeltaDropped, DeltaDegrades, DeltaAccumulates
  <2>4. a \in Responses /\ a # NoResponse /\ Fit(a) /\ a.id = h /\ Marked(a, screen)
    BY <2>1, <2>3, AddressedFacts
  <2>10. OwnTail(a, screen) /\ (a.aiEnd => active # NoResponse /\ active.id = a.id /\ active.aiEnd)
    BY <2>2, <2>4, TailAddressed
  <2> HIDE DEF a, h
  <2>5. screen \in ScreenType /\ Labelled(h) \in ScreenType /\ Labelled(h).owner = h
        /\ altScreen \in BOOLEAN
    BY <2>2, TypeParts DEF Labelled
  <2>6. text' = [text EXCEPT ![h] = @ + 1]
    BY <2>3, <2>4 DEF DeltaStreams, DeltaInserted
  <2>7. r = h
    BY <2>2, <2>6
  <2>8. CASE DeltaStreams(a)
    <3> DEFINE b == [a EXCEPT !.started = TRUE, !.relabel = FALSE]
               s == IF ~a.started \/ a.relabel THEN Labelled(h) ELSE screen
    <3>1. EndTurn(b, s, altScreen) /\ a.mode = "Stream" /\ ~a.anchored
      BY <2>4, <2>8 DEF DeltaStreams
    <3>2. s \in ScreenType /\ s.owner = h
      BY <2>4, <2>5, <3>1 DEF Marked, Holding
    <3>3. screen'.owner = s.owner
      <4> HIDE DEF b, s
      <4> QED BY <2>5, <3>1, <3>2 DEF EndTurn, Noticed, ScreenType
    <3> QED BY <2>1, <2>3, <2>7, <3>2, <3>3 DEF h
  <2>9. CASE DeltaInserted(a)
    <3> DEFINE b == [a EXCEPT !.started = TRUE, !.aiEnd = TRUE]
               s == IF a.aiEnd THEN screen ELSE Labelled(h)
    <3>1. EndTurn(b, s, altScreen) /\ TailIntact(a)
      BY <2>4, <2>9 DEF DeltaInserted
    <3>2. s \in ScreenType /\ (s.owner = h \/ Lookalike(h))
      BY <2>4, <2>5, <2>10, <3>1 DEF TailIntact, OwnTail, Lookalike
    <3>3. screen'.owner = s.owner
      <4> HIDE DEF b, s
      <4> QED BY <2>5, <3>1, <3>2 DEF EndTurn, Noticed, ScreenType
    <3> QED BY <2>1, <2>3, <2>7, <3>2, <3>3 DEF h
  <2> QED BY <2>3, <2>8, <2>9
<1>2. CASE DaemonEnds
  <2> DEFINE h == Head(queue)
  <2>1. h \in Requests /\ text \in [Requests -> Nat] /\ queue # <<>>
    BY <1>2, HeadOfQueue, TypeParts DEF RestTyped, DaemonEnds
  <2>2. PICK failed \in BOOLEAN : FinishesBlock(h, failed)
    BY <1>2, <2>1 DEF DaemonEnds, Finish, FinishesUnseen, FinishesElsewhere, FinishesStream
  <2> HIDE DEF h
  <2> DEFINE t == IF active.accumulated = 0 THEN screen ELSE Labelled(h)
             s == ErrorSeam(t, failed)
  <2>3. /\ h \notin aborted /\ Rendering(h)
        /\ text' = [text EXCEPT ![h] = @ + active.accumulated]
        /\ EndTurn(NoResponse, s, altScreen)
    BY <2>2 DEF FinishesBlock
  <2>4. active.accumulated \in Nat
    BY <2>3, TypeParts DEF Rendering, Responses
  <2>5. r = h /\ active.accumulated # 0
    BY <2>1, <2>3, <2>4
  <2>6. t = Labelled(h) /\ Labelled(h) \in ScreenType /\ Labelled(h).owner = h
    BY <2>1, <2>5, TypeParts DEF Labelled
  <2>7. s \in ScreenType /\ s.owner = h
    BY <2>6 DEF ErrorSeam, Noticed, ScreenType
  <2>8. screen'.owner = s.owner
    <3> HIDE DEF s
    <3> QED BY <2>3, <2>7 DEF EndTurn, Noticed, ScreenType
  <2> QED BY <2>1, <2>3, <2>5, <2>7, <2>8 DEF h
<1>3. CASE UNCHANGED text
  BY <1>3
<1>4. DaemonDelta \/ DaemonEnds \/ UNCHANGED text
  <2>1. CASE UNCHANGED vars
    BY <2>1 DEF vars
  <2>2. CASE Next
    <3>1. CASE \E q \in Requests, standing \in {"ended", "running"}, resting \in BOOLEAN :
                 Dispatch(q, standing, resting)
      BY <3>1 DEF Dispatch, answerVars
    <3>2. CASE Notice \/ DaemonDies \/ PressInterrupt
      BY <3>2 DEF Notice, DaemonDies, PressInterrupt, answerVars
    <3>3. CASE \E e \in Effects : OutputHeld(e) \/ FuseReleases(e) \/ OutputPasses(e)
      BY <3>3 DEF OutputHeld, FuseReleases, OutputPasses, ProgramWrites, answerVars
    <3>4. CASE DaemonToolActivity
      BY <3>4 DEF DaemonToolActivity, OnToolActivity, answerVars
    <3>5. CASE OnInput \/ OnInterrupt
      BY <3>5 DEF OnInput, OnInterrupt, TakeKey, answerVars
    <3>6. CASE ReceiptDelayPasses \/ StallDelayPasses
      BY <3>6 DEF ReceiptDelayPasses, StallDelayPasses, TimePasses, answerVars
    <3> QED BY <2>2, <3>1, <3>2, <3>3, <3>4, <3>5, <3>6 DEF Next
  <2> QED BY <2>1, <2>2
<1> QED BY <1>1, <1>2, <1>3, <1>4

(* Between two deltas of one answer nothing else gets into its block, and  *)
(* from the interrupt on the text stays as it is.                          *)
THEOREM TextAlwaysKeepsItsPlace == Spec => TextKeepsItsPlace
<1>1. IInv /\ OwnTail(active, screen) /\ [Next]_vars
        => [\A r \in Requests : text'[r] # text[r] => screen'.owner = r \/ Lookalike(r)]_vars
  BY TextMoves
<1>2. IInv /\ OwnTail(active, screen) /\ [Next]_vars
        => [\A r \in interrupted : text'[r] = text[r]]_vars
  <2> SUFFICES ASSUME IInv, OwnTail(active, screen), [Next]_vars,
                      NEW r \in interrupted, text'[r] # text[r]
               PROVE  FALSE
    OBVIOUS
  <2>1. r \in Requests /\ queue \in Seq(Requests)
    BY TypeParts DEF RestTyped
  <2>2. queue # <<>> /\ r = Head(queue) /\ r \notin aborted
    BY <2>1, TextMoves
  <2>3. Len(queue) \in Nat \ {0} /\ r = queue[1]
    BY <2>1, <2>2, Tailed
  <2>4. 1 \in 1..Len(queue)
    BY <2>3
  <2> QED BY <2>2, <2>3, <2>4 DEF IInv, BooksNow, Books, Queued
<1>3. Init => OwnTail(active, screen)
  BY DEF Init, OwnTail
<1>4. IInv /\ OwnTail(active, screen) /\ [Next]_vars => OwnTail(active, screen)'
  BY TailKept
<1> QED BY <1>1, <1>2, <1>3, <1>4, InvariantAlwaysHolds, PTL
        DEF Spec, TextKeepsItsPlace, NeverInterleaved, InterruptSilences
=============================================================================
