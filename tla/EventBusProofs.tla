---------------------------- MODULE EventBusProofs ----------------------------
(***************************************************************************)
(* Proofs about EventBus, for any publishers, subscriptions, filters and   *)
(* capacities, and any number of events.                                   *)
(***************************************************************************)
EXTENDS EventBus, TLAPS

-----------------------------------------------------------------------------
(***************************************************************************)
(* The ring buffer.                                                        *)
(***************************************************************************)

\* The place of the d-th newest item.
Back(d) == IF d <= head THEN head - d ELSE (head + Size) - d

\* The d-th newest item is the event with the d-th highest number; the ring has
\* all events until it is full.
RingInv ==
    /\ items \in [0 .. Size - 1 -> Nat]
    /\ head \in 0 .. Size - 1 /\ count \in 0 .. Size /\ seq \in Nat
    /\ count <= seq /\ (count < Size => count = seq)
    /\ \A d \in 1 .. count : items[Back(d)] = (seq - d) + 1

\* What % does to a number that is less than twice the divisor.
LEMMA ModOnce ==
  ASSUME NEW N \in Nat \ {0}, NEW a \in 0 .. 2 * N - 1
  PROVE a % N = IF a < N THEN a ELSE a - N
<1>1. CASE a < N
  BY <1>1
<1>2. CASE a >= N
  BY <1>2
<1>3. QED BY <1>1, <1>2

\* The new ring is empty (NewRingBuffer).
LEMMA RingInit == Init => RingInv
BY BusAssumption DEF Init, RingInv, Back

\* Add writes over the oldest item of a full ring and moves the others back.
LEMMA RingAdd == ASSUME RingInv, Add(seq + 1) PROVE RingInv'
<1> USE BusAssumption
<1>1. head' = IF head + 1 < Size THEN head + 1 ELSE 0
  <2>1. head + 1 \in 0 .. 2 * Size - 1 /\ Size \in Nat \ {0}
    BY DEF RingInv
  <2>2. (head + 1) % Size = IF head + 1 < Size THEN head + 1 ELSE (head + 1) - Size
    BY <2>1, ModOnce
  <2>3. QED BY <2>1, <2>2 DEF Add, RingInv
<1>2. /\ items' = [items EXCEPT ![head] = seq + 1] /\ seq' = seq + 1
      /\ count' = IF count < Size THEN count + 1 ELSE count
  BY DEF Add, CountAfter
<1>3. ASSUME NEW d \in 1 .. count' PROVE items'[Back(d)'] = (seq' - d) + 1
  <2>1. CASE d = 1
    BY <1>1, <1>2, <2>1 DEF Back, RingInv
  <2>2. CASE d > 1
    <3>1. d - 1 \in 1 .. count /\ d - 1 < Size
      BY <1>2, <2>2 DEF RingInv
    <3>2. Back(d)' = Back(d - 1)
      BY <1>1, <3>1 DEF Back, RingInv
    <3>3. Back(d - 1) # head /\ Back(d - 1) \in 0 .. Size - 1
      BY <3>1 DEF Back, RingInv
    <3>4. items[Back(d - 1)] = (seq - (d - 1)) + 1
      BY <3>1 DEF RingInv
    <3>5. items'[Back(d - 1)] = items[Back(d - 1)]
      BY <1>2, <3>3 DEF RingInv
    <3>6. QED BY <1>2, <3>2, <3>4, <3>5 DEF RingInv
  <2>3. QED BY <2>1, <2>2, <1>2 DEF RingInv
<1>4. /\ items' \in [0 .. Size - 1 -> Nat]
      /\ head' \in 0 .. Size - 1 /\ count' \in 0 .. Size /\ seq' \in Nat
      /\ count' <= seq' /\ (count' < Size => count' = seq')
  BY <1>1, <1>2 DEF RingInv
<1>5. QED BY <1>3, <1>4 DEF RingInv

\* Only Publish changes the ring.
LEMMA RingStep == RingInv /\ [Next]_vars => RingInv'
<1> SUFFICES ASSUME RingInv, [Next]_vars PROVE RingInv'
  OBVIOUS
<1>1. ASSUME NEW p \in Publishers, Store(p) PROVE RingInv'
  BY <1>1, RingAdd DEF Store
<1>2. CASE UNCHANGED ring
  BY <1>2 DEF ring, RingInv, Back
<1>3. QED
  BY <1>1, <1>2
  DEF Next, vars, Check, ReadLock, Visit, Send, Return, Register, ReadRing, ReplayNext,
      Receive, Unsubscribe, Unsubscribed, CloseOnly, Close, CloseAll

\* Where Last finds the i-th of the newest m items.
LEMMA LastAt ==
  ASSUME RingInv, NEW m \in 0 .. count, NEW i \in 1 .. m
  PROVE items[(StartOf(m) + (i - 1)) % Size] = (seq - m) + i
<1> USE BusAssumption
<1>1. m \in 0 .. Size /\ m <= count /\ m <= seq /\ m \in Nat /\ i \in Nat
  BY DEF RingInv
<1>2. (head + Size) - m \in 0 .. 2 * Size - 1 /\ Size \in Nat \ {0}
  BY <1>1 DEF RingInv
<1>3. StartOf(m) = IF m <= head THEN IF m = 0 THEN head ELSE head - m ELSE (head + Size) - m
  <2>1. StartOf(m) = IF (head + Size) - m < Size THEN (head + Size) - m
                                                 ELSE ((head + Size) - m) - Size
    BY <1>2, ModOnce DEF StartOf
  <2>2. QED BY <2>1, <1>1 DEF RingInv
<1>4. StartOf(m) + (i - 1) \in 0 .. 2 * Size - 1
  BY <1>3, <1>1 DEF RingInv
<1>5. (StartOf(m) + (i - 1)) % Size = Back((m - i) + 1)
  <2>1. (StartOf(m) + (i - 1)) % Size =
           IF StartOf(m) + (i - 1) < Size THEN StartOf(m) + (i - 1)
                                          ELSE (StartOf(m) + (i - 1)) - Size
    BY <1>2, <1>4, ModOnce
  <2>2. QED BY <2>1, <1>3, <1>1 DEF RingInv, Back
<1>6. (m - i) + 1 \in 1 .. count
  BY <1>1 DEF RingInv
<1>7. items[Back((m - i) + 1)] = (seq - ((m - i) + 1)) + 1
  BY <1>6 DEF RingInv
<1>8. (seq - ((m - i) + 1)) + 1 = (seq - m) + i
  BY <1>1 DEF RingInv
<1>9. QED BY <1>5, <1>7, <1>8

\* Last(n) returns the newest n events, or all that the ring has.
LEMMA LastCorrect ==
  ASSUME RingInv, NEW n \in Nat
  PROVE LET m == IF n < count THEN n ELSE count
        IN  Last(n) = [i \in 1 .. m |-> (seq - m) + i]
<1> DEFINE m == IF n < count THEN n ELSE count
<1>1. m \in 0 .. count
  BY BusAssumption DEF RingInv
<1>2. Last(n) = [i \in 1 .. m |-> items[(StartOf(m) + (i - 1)) % Size]]
  BY BusAssumption DEF Last, RingInv
<1>3. \A i \in 1 .. m : items[(StartOf(m) + (i - 1)) % Size] = (seq - m) + i
  BY <1>1, LastAt
<1>4. QED BY <1>2, <1>3

\* The ring gives back the newest events, oldest first, for every capacity and
\* every number of events: RingBuffer.Add and Last, wrapping round as they do.
THEOREM RingKeepsNewest == Spec => []LastIsNewest
<1>1. RingInv => LastIsNewest
  BY LastCorrect, BusAssumption DEF LastIsNewest
<1>2. QED BY RingInit, RingStep, <1>1, PTL DEF Spec

-----------------------------------------------------------------------------
(***************************************************************************)
(* Types.                                                                  *)
(***************************************************************************)

\* What the ring gives back are events.
LEMMA LastEvents ==
  ASSUME RingInv, seq \in 0 .. MaxEvents, NEW n \in Nat
  PROVE Last(n) \in Seq(Events)
<1> DEFINE m == IF n < count THEN n ELSE count
<1>1. Last(n) = [i \in 1 .. m |-> (seq - m) + i]
  BY LastCorrect
<1>2. m \in Nat /\ m <= seq
  BY DEF RingInv
<1>3. \A i \in 1 .. m : (seq - m) + i \in Events
  BY <1>2, BusAssumption DEF Events
<1>4. QED BY <1>1, <1>2, <1>3

\* The initial state has the types (New, and subscriptions nobody made yet).
LEMMA TypesInit == Init => TypeOK
<1> SUFFICES ASSUME Init PROVE TypeOK
  OBVIOUS
<1>1. << >> \in Seq(Events) /\ Len(<< >>) = 0
  OBVIOUS
<1>2. QED BY <1>1, BusAssumption DEF Init, TypeOK, Resting, NoPanic, PubState, SubState

\* Publishing keeps the types.
LEMMA TypesPublish ==
  ASSUME TypeOK, RingInv, NEW p \in Publishers,
         Check(p) \/ Store(p) \/ ReadLock(p) \/ Return(p) \/ \E s \in Subs : Visit(p, s)
  PROVE TypeOK'
<1> USE BusAssumption
<1>1. CASE Check(p)
  <2>0. pub[p] \in PubState
    BY DEF TypeOK
  <2>1. [pub[p] EXCEPT !.pc = "checked"] \in PubState
    BY <2>0 DEF PubState
  <2>2. pub' \in [Publishers -> PubState]
    BY <1>1, <2>1 DEF Check, TypeOK
  <2>3. QED BY <1>1, <2>2 DEF Check, ring, TypeOK
<1>2. CASE Store(p)
  <2>1. /\ items' = [items EXCEPT ![head] = seq + 1]
        /\ UNCHANGED <<reg, sub, shut, offered, since, panic>>
    BY <1>2 DEF Store, Add
  <2>2. RingInv'
    BY <1>2, RingAdd DEF Store
  <2>3. seq' \in 0 .. MaxEvents
    BY <1>2 DEF Store, Add, TypeOK
  <2>4. items' \in [0 .. Size - 1 -> 0 .. MaxEvents]
    BY <1>2, <2>1 DEF Store, TypeOK
  <2>5. pub' \in [Publishers -> PubState]
    <3>1. pub[p] \in PubState /\ seq + 1 \in 0 .. MaxEvents
      BY <1>2 DEF Store, TypeOK
    <3>2. [pub[p] EXCEPT !.pc = "added", !.e = seq + 1] \in PubState
      BY <3>1 DEF PubState
    <3>3. QED BY <1>2, <3>2 DEF Store, TypeOK
  <2>6. QED BY <2>1, <2>2, <2>3, <2>4, <2>5 DEF TypeOK, RingInv
<1>3. CASE ReadLock(p)
  <2>1. pub[p] \in PubState
    BY DEF TypeOK
  <2>2. [pub[p] EXCEPT !.pc = "fan", !.left = reg] \in PubState
    BY <2>1 DEF PubState, TypeOK
  <2>3. pub' \in [Publishers -> PubState]
    BY <1>3, <2>2 DEF ReadLock, Targets, TypeOK
  <2>4. QED BY <1>3, <2>3 DEF ReadLock, ring, TypeOK
<1>4. CASE Return(p)
  BY <1>4 DEF Return, Resting, ring, TypeOK, PubState
<1>5. ASSUME NEW s \in Subs, Visit(p, s) PROVE TypeOK'
  <2>1. pub[p] \in PubState
    BY DEF TypeOK
  <2>2. /\ [pub[p] EXCEPT !.left = @ \ {s}] \in PubState
        /\ [pub[p] EXCEPT !.pc = "send", !.to = s] \in PubState
    BY <2>1 DEF PubState
  <2>3. pub' \in [Publishers -> PubState]
    BY <1>5, <2>2 DEF Visit, TypeOK
  <2>4. QED BY <1>5, <2>3 DEF Visit, ring, TypeOK
<1>6. QED BY <1>1, <1>2, <1>3, <1>4, <1>5

\* A send that does not wait keeps the types of the subscriptions.
LEMMA TypesOffer ==
  ASSUME TypeOK, NEW s \in Subs, NEW e \in Events,
         sub' = [sub EXCEPT ![s].ch = IF Len(@) < Cap THEN Append(@, e) ELSE @]
  PROVE /\ sub' \in [Subs -> SubState]
        /\ \A x \in Subs : Len(sub'[x].ch) <= Cap
<1> DEFINE ch == IF Len(sub[s].ch) < Cap THEN Append(sub[s].ch, e) ELSE sub[s].ch
<1>1. sub[s].ch \in Seq(Events) /\ Len(sub[s].ch) <= Cap
  BY DEF TypeOK, SubState
<1>2. ch \in Seq(Events) /\ Len(ch) <= Cap
  BY <1>1, BusAssumption
<1>0. sub \in [Subs -> SubState] /\ sub[s] \in SubState
  BY DEF TypeOK
<1>3. sub' = [sub EXCEPT ![s].ch = ch]
  BY <1>0
<1> HIDE DEF ch
<1>4. [sub[s] EXCEPT !.ch = ch] \in SubState
  BY <1>0, <1>2 DEF SubState
<1>5. sub' \in [Subs -> SubState]
  BY <1>0, <1>3, <1>4
<1>6. ASSUME NEW x \in Subs PROVE Len(sub'[x].ch) <= Cap
  <2>1. CASE x = s
    <3>1. sub'[s] = [sub[s] EXCEPT !.ch = ch]
      BY <1>0, <1>3
    <3>2. sub'[s].ch = ch
      BY <1>0, <3>1 DEF SubState
    <3>3. QED BY <1>2, <2>1, <3>2
  <2>2. CASE x # s
    BY <1>3, <2>2 DEF TypeOK
  <2>3. QED BY <2>1, <2>2
<1>7. QED BY <1>5, <1>6

\* A subscription of which only control and flag change keeps its type.
LEMMA TypesControl ==
  ASSUME TypeOK, NEW s \in Subs, NEW c \in BOOLEAN,
         NEW x \in {"new", "ring", "replay", "live", "leaving", "ended"}
  PROVE /\ [sub[s] EXCEPT !.pc = x] \in SubState
        /\ [sub[s] EXCEPT !.closed = c] \in SubState
        /\ [sub[s] EXCEPT !.pc = x].ch = sub[s].ch
        /\ [sub[s] EXCEPT !.closed = c].ch = sub[s].ch
BY DEF TypeOK, SubState

\* Sending an event keeps the types, also when it panics.
LEMMA TypesSend == ASSUME TypeOK, NEW p \in Publishers, Send(p), pub[p].to \in Subs,
                          pub[p].e \in Events
                   PROVE TypeOK'
<1> DEFINE s == pub[p].to
<1>0. pub \in [Publishers -> PubState] /\ pub[p] \in PubState
  BY DEF TypeOK
<1>1. pub' \in [Publishers -> PubState]
  <2>1. [pub[p] EXCEPT !.pc = "fan", !.to = NoSub, !.left = @ \ {s}] \in PubState
    BY <1>0 DEF PubState
  <2>2. QED BY <1>0, <2>1 DEF Send
<1>2. CASE sub[s].closed
  BY <1>1, <1>2 DEF Send, Panics, ring, TypeOK
<1>3. CASE ~sub[s].closed
  <2>1. sub' \in [Subs -> SubState] /\ \A x \in Subs : Len(sub'[x].ch) <= Cap
    BY <1>3, TypesOffer DEF Send, Offer
  <2>2. offered' \in [Subs -> SUBSET Events]
    <3>1. offered' = [offered EXCEPT ![s] = offered[s] \cup {pub[p].e}]
      BY <1>3 DEF Send, Offer, TypeOK
    <3>2. offered[s] \cup {pub[p].e} \in SUBSET Events
      BY DEF TypeOK
    <3>3. QED BY <3>1, <3>2 DEF TypeOK
  <2>3. QED BY <1>1, <1>3, <2>1, <2>2 DEF Send, Offer, ring, TypeOK
<1>4. QED BY <1>2, <1>3

\* One subscription changes to a state of its type.
LEMMA TypesOne ==
  ASSUME TypeOK, NEW s \in Subs, NEW v \in SubState, Len(v.ch) <= Cap,
         sub' = [sub EXCEPT ![s] = v]
  PROVE sub' \in [Subs -> SubState] /\ \A x \in Subs : Len(sub'[x].ch) <= Cap
BY DEF TypeOK

\* The replay keeps the types: what is left of it are events.
LEMMA TypesReplay == ASSUME TypeOK, NEW s \in Subs, ReplayNext(s) PROVE TypeOK'
<1> DEFINE todo == sub[s].todo
           rest == [sub EXCEPT ![s].todo = Tail(todo)]
<1>0. todo \in Seq(Events) /\ sub[s].ch \in Seq(Events) /\ Len(sub[s].ch) <= Cap
  BY DEF TypeOK, SubState
<1>1. ASSUME todo # << >>
      PROVE /\ Head(todo) \in Events /\ Tail(todo) \in Seq(Events)
            /\ [sub[s] EXCEPT !.todo = Tail(todo)] \in SubState
            /\ [sub[s] EXCEPT !.todo = Tail(todo)].ch = sub[s].ch
  <2>1. Head(todo) \in Events /\ Tail(todo) \in Seq(Events)
    BY <1>0, <1>1
  <2> HIDE DEF todo
  <2>2. QED BY <2>1 DEF TypeOK, SubState
<1>2. CASE todo = << >>
  <2>1. sub' = [sub EXCEPT ![s] = [sub[s] EXCEPT !.pc = "live"]]
        /\ UNCHANGED <<ring, pub, reg, shut, since, offered, panic>>
    BY <1>2 DEF ReplayNext
  <2>2. sub' \in [Subs -> SubState] /\ \A x \in Subs : Len(sub'[x].ch) <= Cap
    BY <1>0, <2>1, TypesOne, TypesControl
  <2>3. QED BY <2>1, <2>2 DEF ring, TypeOK
<1>3. CASE todo # << >> /\ Head(todo) \in Unwanted
  <2>1. sub' = [sub EXCEPT ![s] = [sub[s] EXCEPT !.todo = Tail(todo)]]
        /\ UNCHANGED <<ring, pub, reg, shut, since, offered, panic>>
    BY <1>3 DEF ReplayNext
  <2>2. sub' \in [Subs -> SubState] /\ \A x \in Subs : Len(sub'[x].ch) <= Cap
    BY <1>0, <1>1, <1>3, <2>1, TypesOne
  <2>3. QED BY <2>1, <2>2 DEF ring, TypeOK
<1>4. CASE todo # << >> /\ Head(todo) \notin Unwanted /\ sub[s].closed
  BY <1>4 DEF ReplayNext, Panics, ring, TypeOK
<1>5. CASE todo # << >> /\ Head(todo) \notin Unwanted /\ ~sub[s].closed
  <2> DEFINE ch == IF Len(sub[s].ch) < Cap THEN Append(sub[s].ch, Head(todo)) ELSE sub[s].ch
             v == [sub[s] EXCEPT !.todo = Tail(todo), !.ch = ch]
  <2>1. ch \in Seq(Events) /\ Len(ch) <= Cap
    BY <1>0, <1>1, <1>5, BusAssumption
  <2>2. sub' = [rest EXCEPT ![s].ch = IF Len(@) < Cap THEN Append(@, Head(todo)) ELSE @]
        /\ offered' = [offered EXCEPT ![s] = @ \cup {Head(todo)}]
        /\ UNCHANGED <<ring, pub, reg, shut, since, panic>>
    BY <1>5 DEF ReplayNext
  <2>3. sub' = [sub EXCEPT ![s] = v]
    BY <2>2 DEF TypeOK, SubState
  <2>4. v \in SubState /\ Len(v.ch) <= Cap
    BY <1>1, <1>5, <2>1 DEF TypeOK, SubState
  <2> HIDE DEF v, ch
  <2>5. sub' \in [Subs -> SubState] /\ \A x \in Subs : Len(sub'[x].ch) <= Cap
    BY <2>3, <2>4, TypesOne
  <2>6. offered' \in [Subs -> SUBSET Events]
    BY <1>1, <1>5, <2>2 DEF TypeOK
  <2>7. QED BY <2>2, <2>5, <2>6 DEF ring, TypeOK
<1>6. QED BY <1>2, <1>3, <1>4, <1>5

\* Subscribing, receiving and closing keep the types.
LEMMA TypesSubs ==
  ASSUME TypeOK, RingInv, NEW s \in Subs,
         \/ Register(s) \/ ReadRing(s) \/ Receive(s) \/ Unsubscribe(s)
         \/ Unsubscribed(s) \/ CloseOnly(s)
  PROVE TypeOK'
<1>0. sub[s].ch \in Seq(Events) /\ Len(sub[s].ch) <= Cap
  BY DEF TypeOK, SubState
<1>1. CASE Register(s)
  <2>1. sub' = [sub EXCEPT ![s] = [sub[s] EXCEPT !.pc = "ring"]]
    BY <1>1 DEF Register
  <2>2. sub' \in [Subs -> SubState] /\ \A x \in Subs : Len(sub'[x].ch) <= Cap
    BY <1>0, <2>1, TypesOne, TypesControl
  <2>3. QED BY <1>1, <2>2 DEF Register, ring, TypeOK
<1>2. CASE ReadRing(s)
  <2> DEFINE last == Last(Replay)
             v == [sub[s] EXCEPT !.pc = "replay", !.todo = last]
  <2>1. last \in Seq(Events)
    BY LastEvents, BusAssumption DEF TypeOK
  <2>2. sub' = [sub EXCEPT ![s] = v]
        /\ since' = [since EXCEPT ![s] = seq]
        /\ UNCHANGED <<ring, pub, reg, shut, offered, panic>>
    BY <1>2 DEF ReadRing, TypeOK
  <2> HIDE DEF last
  <2>3. v \in SubState /\ v.ch = sub[s].ch
    BY <2>1 DEF TypeOK, SubState
  <2> HIDE DEF v
  <2>4. sub' \in [Subs -> SubState] /\ \A x \in Subs : Len(sub'[x].ch) <= Cap
    BY <1>0, <2>2, <2>3, TypesOne
  <2>5. QED BY <2>2, <2>4 DEF ring, TypeOK
<1>3. CASE Receive(s)
  <2> DEFINE rest == Tail(sub[s].ch)
             v == [sub[s] EXCEPT !.ch = rest]
  <2>1. rest \in Seq(Events) /\ Len(rest) <= Cap
    BY <1>0, <1>3, BusAssumption DEF Receive
  <2>2. sub' = [sub EXCEPT ![s] = v] /\ UNCHANGED <<ring, pub, reg, shut, offered, since, panic>>
    BY <1>3 DEF Receive, TypeOK
  <2> HIDE DEF rest
  <2>3. v \in SubState /\ v.ch = rest
    BY <2>1 DEF TypeOK, SubState
  <2> HIDE DEF v
  <2>4. sub' \in [Subs -> SubState] /\ \A x \in Subs : Len(sub'[x].ch) <= Cap
    BY <2>1, <2>2, <2>3, TypesOne
  <2>5. QED BY <2>2, <2>4 DEF ring, TypeOK
<1>4. CASE Unsubscribe(s)
  <2>1. sub' = [sub EXCEPT ![s] = [sub[s] EXCEPT !.pc = "leaving"]]
    BY <1>4 DEF Unsubscribe
  <2>2. sub' \in [Subs -> SubState] /\ \A x \in Subs : Len(sub'[x].ch) <= Cap
    BY <1>0, <2>1, TypesOne, TypesControl
  <2>3. QED BY <1>4, <2>2 DEF Unsubscribe, ring, TypeOK
<1>5. CASE Unsubscribed(s) \/ CloseOnly(s)
  <2> DEFINE v == [sub[s] EXCEPT !.pc = "ended", !.ch = << >>, !.closed = TRUE]
  <2>1. << >> \in Seq(Events) /\ Len(<< >>) = 0
    OBVIOUS
  <2>2. v \in SubState /\ v.ch = << >>
    BY <2>1 DEF TypeOK, SubState
  <2>3. sub' = [sub EXCEPT ![s] = v] /\ UNCHANGED <<ring, pub, reg, shut, offered, since, panic>>
    BY <1>5 DEF Unsubscribed, CloseOnly, Closed
  <2> HIDE DEF v
  <2>4. v.ch = << >> /\ Len(v.ch) <= Cap
    BY <2>1, <2>2, BusAssumption
  <2>5. sub' \in [Subs -> SubState] /\ \A x \in Subs : Len(sub'[x].ch) <= Cap
    BY <2>2, <2>3, <2>4, TypesOne
  <2>6. QED BY <2>3, <2>5 DEF ring, TypeOK
<1>6. QED BY <1>1, <1>2, <1>3, <1>4, <1>5

\* Closing the bus keeps the types.
LEMMA TypesClose == ASSUME TypeOK, Close \/ CloseAll PROVE TypeOK'
<1>1. CASE Close
  BY <1>1 DEF Close, ring, TypeOK
<1>2. CASE CloseAll
  <2>1. \A s \in Subs : sub'[s] \in SubState /\ sub'[s].ch = sub[s].ch
    BY <1>2, TypesControl DEF CloseAll, TypeOK
  <2>2. sub' = [s \in Subs |-> sub'[s]]
    BY <1>2 DEF CloseAll
  <2>3. sub' \in [Subs -> SubState]
    BY <2>1, <2>2
  <2>4. \A x \in Subs : Len(sub'[x].ch) <= Cap
    BY <2>1 DEF TypeOK
  <2>5. QED BY <1>2, <2>3, <2>4 DEF CloseAll, ring, TypeOK
<1>3. QED BY <1>1, <1>2

-----------------------------------------------------------------------------
(***************************************************************************)
(* Who may close what while Publish holds the read lock.                   *)
(***************************************************************************)

\* A call of Publish that has an event to offer knows its number; the
\* subscriptions it has still to visit are registered, and the one it is about
\* to send to is not closed by a consumer that calls Unsubscribe.
PubsFit ==
    \A p \in Publishers :
        /\ pub[p].pc \in {"added", "fan", "send"} => pub[p].e \in Events
        /\ pub[p].pc \in {"idle", "checked", "added"} => pub[p].left = {}
        /\ pub[p].left \subseteq reg
        /\ pub[p].pc = "send" =>
             /\ pub[p].to \in pub[p].left
             /\ pub[p].to \in Polite => ~sub[pub[p].to].closed

\* Subscriptions are registered from Register to their end; until a consumer has
\* left, only Close of the bus closes them.
SubsFit ==
    \A s \in Subs :
        /\ sub[s].pc \in {"new", "leaving"} => s \notin reg
        /\ sub[s].pc = "new" => ~sub[s].closed
        /\ (sub[s].pc \in {"ring", "replay", "live"} /\ ~sub[s].closed) => s \in reg
        /\ (sub[s].pc \in {"ring", "replay", "live"} /\ sub[s].closed) => shut = "closed"

\* What every step keeps.
Inv == TypeOK /\ RingInv /\ PubsFit /\ SubsFit /\ SendsToOpen

\* Nothing is registered and nobody publishes.
LEMMA InvInit == Init => Inv
<1> SUFFICES ASSUME Init PROVE Inv
  OBVIOUS
<1>1. PubsFit /\ SubsFit /\ SendsToOpen
  BY DEF Init, Resting, NoPanic, PubsFit, SubsFit, SendsToOpen
<1>2. QED BY <1>1, TypesInit, RingInit DEF Inv

\* Publishing keeps who may close what.
LEMMA FitPublish ==
  ASSUME Inv, NEW p \in Publishers,
         Check(p) \/ Store(p) \/ ReadLock(p) \/ Return(p) \/ \E s \in Subs : Visit(p, s)
  PROVE (PubsFit /\ SubsFit /\ SendsToOpen)'
<1> USE DEF Inv
<1>1. UNCHANGED <<sub, reg, shut, panic>>
  BY DEF Check, Store, ReadLock, Return, Visit
<1>2. SubsFit' /\ SendsToOpen'
  BY <1>1 DEF SubsFit, SendsToOpen
<1>3. \A q \in Publishers \ {p} : pub'[q] = pub[q]
  BY DEF Check, Store, ReadLock, Return, Visit, TypeOK
<1>4. pub[p] \in PubState /\ pub \in [Publishers -> PubState]
  BY DEF TypeOK
<1>5. /\ pub'[p].pc \in {"added", "fan", "send"} => pub'[p].e \in Events
      /\ pub'[p].pc \in {"idle", "checked", "added"} => pub'[p].left = {}
      /\ pub'[p].left \subseteq reg
      /\ pub'[p].pc = "send" =>
           /\ pub'[p].to \in pub'[p].left
           /\ pub'[p].to \in Polite => ~sub[pub'[p].to].closed
  <2>1. CASE Check(p)
    BY <1>4, <2>1 DEF Check, PubsFit, PubState
  <2>2. CASE Store(p)
    <3>1. seq + 1 \in Events
      BY <2>2, BusAssumption DEF Store, TypeOK, Events
    <3>2. QED BY <1>4, <2>2, <3>1 DEF Store, PubsFit, PubState
  <2>3. CASE ReadLock(p)
    BY <1>4, <2>3 DEF ReadLock, Targets, PubsFit, PubState
  <2>4. CASE Return(p)
    BY <1>4, <2>4 DEF Return, Resting, PubsFit
  <2>5. ASSUME NEW s \in Subs, Visit(p, s)
        PROVE /\ pub'[p].pc \in {"added", "fan", "send"} => pub'[p].e \in Events
              /\ pub'[p].pc \in {"idle", "checked", "added"} => pub'[p].left = {}
              /\ pub'[p].left \subseteq reg
              /\ pub'[p].pc = "send" =>
                   /\ pub'[p].to \in pub'[p].left
                   /\ pub'[p].to \in Polite => ~sub[pub'[p].to].closed
    <3>1. CASE sub[s].closed \/ pub[p].e \in Unwanted
      BY <1>4, <2>5, <3>1 DEF Visit, PubsFit, PubState
    <3>2. CASE ~(sub[s].closed \/ pub[p].e \in Unwanted)
      BY <1>4, <2>5, <3>2 DEF Visit, PubsFit, PubState
    <3>3. QED BY <3>1, <3>2
  <2>6. QED BY <2>1, <2>2, <2>3, <2>4, <2>5
<1>6. PubsFit'
  BY <1>1, <1>3, <1>5 DEF PubsFit
<1>7. QED BY <1>2, <1>6

\* A send goes to an open channel, or the consumer closed it itself.
LEMMA FitSend ==
  ASSUME Inv, NEW p \in Publishers, Send(p)
  PROVE /\ pub[p].to \in Subs /\ pub[p].e \in Events
        /\ (PubsFit /\ SubsFit /\ SendsToOpen)'
<1> USE DEF Inv
<1> DEFINE t == pub[p].to
<1>1. t \in Subs /\ pub[p].e \in Events /\ pub[p] \in PubState
  BY DEF Send, PubsFit, TypeOK, PubState
<1>2. \A s \in Subs : sub'[s].pc = sub[s].pc /\ sub'[s].closed = sub[s].closed
  <2>1. CASE sub[t].closed
    BY <2>1 DEF Send, Panics
  <2>2. CASE ~sub[t].closed
    <3> DEFINE ch == IF Len(sub[t].ch) < Cap THEN Append(sub[t].ch, pub[p].e) ELSE sub[t].ch
    <3>1. sub' = [sub EXCEPT ![t] = [sub[t] EXCEPT !.ch = ch]]
      BY <2>2 DEF Send, Offer, TypeOK
    <3> HIDE DEF ch
    <3>2. [sub[t] EXCEPT !.ch = ch].pc = sub[t].pc /\ [sub[t] EXCEPT !.ch = ch].closed = sub[t].closed
      BY <1>1 DEF TypeOK, SubState
    <3>3. QED BY <1>1, <3>1, <3>2 DEF TypeOK
  <2>3. QED BY <2>1, <2>2
<1>3. SubsFit'
  BY <1>2 DEF Send, SubsFit
<1>4. SendsToOpen'
  <2>1. CASE sub[t].closed
    BY <1>1, <2>1 DEF Send, Panics, PubsFit, SendsToOpen
  <2>2. CASE ~sub[t].closed
    BY <2>2 DEF Send, Offer, SendsToOpen
  <2>3. QED BY <2>1, <2>2
<1>5. PubsFit'
  <2>1. /\ pub'[p] = [pub[p] EXCEPT !.pc = "fan", !.to = NoSub, !.left = @ \ {t}]
        /\ \A q \in Publishers \ {p} : pub'[q] = pub[q]
        /\ UNCHANGED reg
    BY DEF Send, TypeOK
  <2>2. pub'[p].pc = "fan" /\ pub'[p].e = pub[p].e /\ pub'[p].left = pub[p].left \ {t}
    BY <1>1, <2>1 DEF PubState
  <2>3. \A q \in Publishers : pub[q].left \in SUBSET Subs
    BY DEF TypeOK, PubState
  <2> HIDE DEF t
  <2>4. ASSUME NEW q \in Publishers \ {p}
        PROVE /\ pub[q].pc \in {"added", "fan", "send"} => pub[q].e \in Events
              /\ pub[q].pc \in {"idle", "checked", "added"} => pub[q].left = {}
              /\ pub[q].left \subseteq reg
              /\ pub[q].pc = "send" =>
                   /\ pub[q].to \in pub[q].left
                   /\ pub[q].to \in Polite => ~sub'[pub[q].to].closed
    BY <1>2, <2>3 DEF PubsFit
  <2>5. pub[p].left \ {t} \subseteq reg
    BY DEF PubsFit
  <2>6. QED BY <1>1, <2>1, <2>2, <2>4, <2>5 DEF PubsFit
<1>6. QED BY <1>1, <1>3, <1>4, <1>5

\* A step of the replay changes its own subscription, and neither closes it nor
\* moves it elsewhere than to live.
LEMMA ReplaySub ==
  ASSUME sub \in [Subs -> SubState], NEW s \in Subs, ReplayNext(s)
  PROVE  /\ sub'[s].pc \in {sub[s].pc, "live"} /\ sub'[s].closed = sub[s].closed
         /\ \A x \in Subs \ {s} : sub'[x] = sub[x]
<1> DEFINE todo == sub[s].todo
           rest == [sub EXCEPT ![s].todo = Tail(todo)]
<1>0. sub[s] \in SubState
  OBVIOUS
<1>1. CASE sub' = [sub EXCEPT ![s].pc = "live"]
  BY <1>0, <1>1 DEF SubState
<1>2. CASE sub' = rest
  BY <1>0, <1>2 DEF SubState
<1>3. CASE UNCHANGED sub
  BY <1>3
<1>4. CASE sub' = [rest EXCEPT ![s].ch = IF Len(@) < Cap THEN Append(@, Head(todo)) ELSE @]
  <2> DEFINE ch == IF Len(rest[s].ch) < Cap THEN Append(rest[s].ch, Head(todo)) ELSE rest[s].ch
  <2>1. /\ rest[s].pc = sub[s].pc /\ rest[s].closed = sub[s].closed
        /\ rest[s] = [sub[s] EXCEPT !.todo = Tail(todo)]
        /\ DOMAIN rest = Subs /\ \A x \in Subs \ {s} : rest[x] = sub[x]
    BY <1>0 DEF SubState
  <2>2. sub' = [rest EXCEPT ![s] = [rest[s] EXCEPT !.ch = ch]]
    BY <1>4, <2>1
  <2> HIDE DEF rest, ch
  <2>3. sub'[s] = [rest[s] EXCEPT !.ch = ch] /\ \A x \in Subs \ {s} : sub'[x] = rest[x]
    BY <2>1, <2>2
  <2>4. sub'[s].pc = rest[s].pc /\ sub'[s].closed = rest[s].closed
    BY <1>0, <2>1, <2>3 DEF SubState
  <2>5. QED BY <2>1, <2>3, <2>4
<1>5. QED BY <1>1, <1>2, <1>3, <1>4 DEF ReplayNext, Panics

\* Subscribing, replaying, receiving and closing keep who may close what.
LEMMA FitSubs ==
  ASSUME Inv, NEW s \in Subs,
         \/ Register(s) \/ ReadRing(s) \/ ReplayNext(s) \/ Receive(s)
         \/ Unsubscribe(s) \/ Unsubscribed(s) \/ CloseOnly(s)
  PROVE (PubsFit /\ SubsFit /\ SendsToOpen)'
<1> USE DEF Inv
<1>1. /\ UNCHANGED <<pub, shut>>
      /\ \A x \in Subs \ {s} : sub'[x] = sub[x]
      /\ sub[s] \in SubState /\ sub \in [Subs -> SubState]
  <2>1. CASE ReplayNext(s)
    <3>1. UNCHANGED <<pub, shut>>
      BY <2>1 DEF ReplayNext
    <3>2. sub \in [Subs -> SubState]
      BY DEF TypeOK
    <3>3. QED BY <2>1, <3>1, <3>2, ReplaySub
  <2>2. CASE ~ReplayNext(s)
    BY <2>2 DEF Register, ReadRing, Receive, Unsubscribe, Unsubscribed, CloseOnly, Closed, TypeOK
  <2>3. QED BY <2>1, <2>2
<1>2. \A p \in Publishers :
        /\ pub[p].left \in SUBSET Subs
        /\ pub[p].pc = "send" => pub[p].to \in reg /\ pub[p].to \in Subs
        /\ pub[p].pc \notin {"fan", "send"} => pub[p].left = {}
  BY DEF PubsFit, TypeOK, PubState
<1>3. CASE Register(s)
  <2>1. sub'[s].pc = "ring" /\ sub'[s].closed = sub[s].closed /\ reg' = reg \cup {s}
        /\ UNCHANGED panic
    BY <1>1, <1>3 DEF Register, SubState
  <2>2. PubsFit'
    BY <1>1, <1>2, <2>1, <1>3 DEF PubsFit, NoReader, Register
  <2>3. SubsFit'
    BY <1>1, <2>1, <1>3 DEF SubsFit, Register
  <2>4. QED BY <1>1, <2>1, <2>2, <2>3 DEF SendsToOpen
<1>4. CASE ReadRing(s)
  <2>1. sub'[s].pc = "replay" /\ sub'[s].closed = sub[s].closed /\ UNCHANGED <<reg, panic>>
    BY <1>1, <1>4 DEF ReadRing, SubState
  <2>2. PubsFit' /\ SubsFit'
    BY <1>1, <1>2, <2>1, <1>4 DEF PubsFit, SubsFit, ReadRing
  <2>3. QED BY <1>1, <2>1, <2>2 DEF SendsToOpen
<1>5. CASE ReplayNext(s)
  <2>0. sub[s].pc = "replay" /\ UNCHANGED reg
    BY <1>5 DEF ReplayNext
  <2>1. sub'[s].pc \in {"replay", "live"} /\ sub'[s].closed = sub[s].closed
    BY <1>1, <1>5, <2>0, ReplaySub
  <2>2. PubsFit' /\ SubsFit'
    <3>1. UNCHANGED pub
      BY <1>1, <1>5
    <3>2. PubsFit'
      BY <1>1, <1>2, <2>0, <2>1, <3>1 DEF PubsFit
    <3>3. SubsFit'
      BY <1>1, <2>0, <2>1 DEF SubsFit
    <3>4. QED BY <3>2, <3>3
  <2>3. UNCHANGED panic \/ (sub[s].closed /\ panic' = [by |-> "replay", to |-> s])
    BY <1>5 DEF ReplayNext, Panics
  <2>4. SendsToOpen'
    BY <1>1, <2>0, <2>3 DEF SendsToOpen, SubsFit
  <2>5. QED BY <2>2, <2>4
<1>6. CASE Receive(s)
  <2>1. sub'[s].pc = sub[s].pc /\ sub'[s].closed = sub[s].closed /\ UNCHANGED <<reg, panic>>
    BY <1>1, <1>6 DEF Receive, SubState
  <2>2. PubsFit' /\ SubsFit'
    BY <1>1, <1>2, <2>1 DEF PubsFit, SubsFit
  <2>3. QED BY <1>1, <2>1, <2>2 DEF SendsToOpen
<1>7. CASE Unsubscribe(s)
  <2>1. sub'[s].pc = "leaving" /\ sub'[s].closed = sub[s].closed /\ reg' = reg \ {s}
        /\ UNCHANGED panic
    BY <1>1, <1>7 DEF Unsubscribe, SubState
  <2>2. PubsFit'
    BY <1>1, <1>2, <2>1, <1>7 DEF PubsFit, NoReader, Unsubscribe
  <2>3. SubsFit'
    BY <1>1, <2>1 DEF SubsFit
  <2>4. QED BY <1>1, <2>1, <2>2, <2>3 DEF SendsToOpen
<1>8. CASE Unsubscribed(s) \/ CloseOnly(s)
  <2>1. sub'[s].pc = "ended" /\ UNCHANGED <<reg, panic>>
    BY <1>1, <1>8 DEF Unsubscribed, CloseOnly, Closed, SubState
  <2>2. s \in Polite => s \notin reg
    BY <1>8 DEF Unsubscribed, CloseOnly, SubsFit
  <2>3. PubsFit'
    BY <1>1, <1>2, <2>1, <2>2 DEF PubsFit
  <2>4. SubsFit'
    BY <1>1, <2>1 DEF SubsFit
  <2>5. QED BY <1>1, <2>1, <2>3, <2>4 DEF SendsToOpen
<1>9. QED BY <1>3, <1>4, <1>5, <1>6, <1>7, <1>8

\* Closing the bus, too: it waits for the calls of Publish.
LEMMA FitClose ==
  ASSUME Inv, Close \/ CloseAll
  PROVE (PubsFit /\ SubsFit /\ SendsToOpen)'
<1> USE DEF Inv
<1>1. CASE Close
  <2>1. shut' # "closed" /\ shut # "closed" /\ UNCHANGED <<pub, reg, sub, panic>>
    BY <1>1 DEF Close
  <2>2. QED BY <2>1 DEF PubsFit, SubsFit, SendsToOpen
<1>2. CASE CloseAll
  <2>1. /\ reg' = {} /\ shut' = "closed" /\ UNCHANGED <<pub, panic>>
        /\ \A p \in Publishers : pub[p].pc \notin {"fan", "send"}
    BY <1>2 DEF CloseAll, NoReader
  <2>2. \A s \in Subs : /\ sub'[s].pc = sub[s].pc
                        /\ sub'[s].closed = (s \in reg \/ sub[s].closed)
    BY <1>2 DEF CloseAll, TypeOK, SubState
  <2>3. \A p \in Publishers : pub[p].left = {}
    BY <2>1 DEF PubsFit, TypeOK, PubState
  <2>4. PubsFit'
    BY <2>1, <2>3 DEF PubsFit
  <2>5. SubsFit'
    BY <2>1, <2>2 DEF SubsFit
  <2>6. QED BY <2>1, <2>4, <2>5 DEF SendsToOpen
<1>3. QED BY <1>1, <1>2

\* Every step keeps the invariant.
LEMMA InvStep == Inv /\ [Next]_vars => Inv'
<1> SUFFICES ASSUME Inv, [Next]_vars PROVE Inv'
  OBVIOUS
<1>1. RingInv'
  BY RingStep DEF Inv
<1>2. ASSUME NEW p \in Publishers,
             Check(p) \/ Store(p) \/ ReadLock(p) \/ Return(p) \/ \E s \in Subs : Visit(p, s)
      PROVE Inv'
  BY <1>1, <1>2, TypesPublish, FitPublish DEF Inv
<1>3. ASSUME NEW p \in Publishers, Send(p) PROVE Inv'
  BY <1>1, <1>3, TypesSend, FitSend DEF Inv
<1>4. ASSUME NEW s \in Subs, ReplayNext(s) PROVE Inv'
  BY <1>1, <1>4, TypesReplay, FitSubs DEF Inv
<1>5. ASSUME NEW s \in Subs,
             \/ Register(s) \/ ReadRing(s) \/ Receive(s)
             \/ Unsubscribe(s) \/ Unsubscribed(s) \/ CloseOnly(s)
      PROVE Inv'
  BY <1>1, <1>5, TypesSubs, FitSubs DEF Inv
<1>6. ASSUME Close \/ CloseAll PROVE Inv'
  BY <1>1, <1>6, TypesClose, FitClose DEF Inv
<1>7. CASE UNCHANGED vars
  BY <1>1, <1>7 DEF vars, ring, Inv, TypeOK, PubsFit, SubsFit, SendsToOpen
<1>8. QED BY <1>2, <1>3, <1>4, <1>5, <1>6, <1>7 DEF Next

\* Every variable of the bus keeps its type; the ring has at most its capacity
\* and no channel is over its own.
THEOREM BusTypes == Spec => []TypeOK
<1>1. Inv => TypeOK
  BY DEF Inv
<1>2. QED BY InvInit, InvStep, <1>1, PTL DEF Spec

\* Publish sends on no closed channel unless the consumer closed it itself,
\* and a replay meets one only after Close of the bus.
THEOREM OpenSends == Spec => []SendsToOpen
<1>1. Inv => SendsToOpen
  BY DEF Inv
<1>2. QED BY InvInit, InvStep, <1>1, PTL DEF Spec

-----------------------------------------------------------------------------
(***************************************************************************)
(* No event falls between the replay and the live events.                  *)
(***************************************************************************)

\* s has e still to replay.
ToReplay(e, s) ==
    sub[s].pc = "replay" /\ \E i \in 1 .. Len(sub[s].todo) : sub[s].todo[i] = e

Covered(e, s) ==
    e \in offered[s] \/ TooOld(e, s) \/ InFlight(e, s) \/ ToReplay(e, s)

\* Once a subscription has read the ring, every event is accounted for.
GapFor(s) ==
    (sub[s].pc \in {"replay", "live"} /\ ~sub[s].closed) =>
        \A e \in (1 .. seq) \ Unwanted : Covered(e, s)

GapInv == \A s \in Subs : GapFor(s)

\* A live subscription has nothing to replay any more.
LEMMA GapInvGives == GapInv => NoGap
BY DEF GapInv, GapFor, NoGap, Covered, ToReplay

\* What a call of Publish has in flight stays so, unless it is offered, or the
\* subscription is closed, or was not registered, or does not want it.
LEMMA FlightPublish ==
  ASSUME Inv, NEW p \in Publishers, NEW s \in Subs, NEW e \in Events \ Unwanted,
         s \in reg, ~sub[s].closed,
         Check(p) \/ Store(p) \/ ReadLock(p) \/ Return(p) \/ \E x \in Subs : Visit(p, x),
         InFlight(e, s)
  PROVE InFlight(e, s)'
<1> USE DEF Inv
<1>1. PICK q \in Publishers : pub[q].e = e /\ (pub[q].pc = "added" \/ s \in pub[q].left)
  BY DEF InFlight
<1>2. pub[p] \in PubState /\ pub \in [Publishers -> PubState]
  BY DEF TypeOK
<1>3. CASE q # p
  <2>1. pub'[q] = pub[q]
    BY <1>2, <1>3 DEF Check, Store, ReadLock, Return, Visit
  <2>2. QED BY <1>1, <2>1 DEF InFlight
<1>4. CASE q = p
  <2>1. ~Check(p) /\ ~Store(p) /\ ~Return(p)
    BY <1>1, <1>4 DEF Check, Store, Return, PubsFit
  <2>2. CASE ReadLock(p)
    <3>1. pub'[p].e = e /\ s \in pub'[p].left
      BY <1>1, <1>2, <1>4, <2>2 DEF ReadLock, Targets, PubState
    <3>2. QED BY <3>1 DEF InFlight
  <2>3. ASSUME NEW x \in Subs, Visit(p, x) PROVE InFlight(e, s)'
    <3>1. s \in pub[p].left /\ pub[p].e = e
      BY <1>1, <1>4, <2>3 DEF Visit
    <3>2. CASE sub[x].closed \/ pub[p].e \in Unwanted
      <4>1. x # s
        BY <3>1, <3>2
      <4>2. pub'[p] = [pub[p] EXCEPT !.left = @ \ {x}]
        BY <1>2, <2>3, <3>2 DEF Visit
      <4>3. pub'[p].e = e /\ s \in pub'[p].left
        BY <1>2, <3>1, <4>1, <4>2 DEF PubState
      <4>4. QED BY <4>3 DEF InFlight
    <3>3. CASE ~(sub[x].closed \/ pub[p].e \in Unwanted)
      <4>1. pub'[p] = [pub[p] EXCEPT !.pc = "send", !.to = x]
        BY <1>2, <2>3, <3>3 DEF Visit
      <4>2. pub'[p].e = e /\ s \in pub'[p].left
        BY <1>2, <3>1, <4>1 DEF PubState
      <4>3. QED BY <4>2 DEF InFlight
    <3>4. QED BY <3>2, <3>3
  <2>4. QED BY <2>1, <2>2, <2>3
<1>5. QED BY <1>3, <1>4

\* A subscription that only gets closed, and calls of Publish that stay, keep it.
LEMMA GapKept ==
  ASSUME NEW s \in Subs, GapFor(s),
         sub'[s].pc = sub[s].pc, sub'[s].todo = sub[s].todo, sub[s].closed => sub'[s].closed,
         UNCHANGED <<pub, seq>>, offered[s] \subseteq offered'[s], since'[s] = since[s]
  PROVE GapFor(s)'
<1> SUFFICES ASSUME sub'[s].pc \in {"replay", "live"}, ~sub'[s].closed,
                    NEW e \in (1 .. seq') \ Unwanted
             PROVE Covered(e, s)'
  BY DEF GapFor
<1>1. Covered(e, s)
  BY DEF GapFor
<1>2. QED BY <1>1 DEF Covered, TooOld, InFlight, ToReplay

\* Publishing up to the sends keeps it: a new event is in flight to everyone.
LEMMA GapPublish ==
  ASSUME Inv, GapInv, NEW p \in Publishers, NEW s \in Subs,
         Check(p) \/ Store(p) \/ ReadLock(p) \/ Return(p) \/ \E x \in Subs : Visit(p, x)
  PROVE GapFor(s)'
<1> USE DEF Inv
<1>1. UNCHANGED <<sub, reg, offered, since>>
  BY DEF Check, Store, ReadLock, Return, Visit
<1> SUFFICES ASSUME sub[s].pc \in {"replay", "live"}, ~sub[s].closed,
                    NEW e \in (1 .. seq') \ Unwanted
             PROVE Covered(e, s)'
  BY <1>1 DEF GapFor
<1>2. s \in reg
  BY DEF SubsFit
<1>3. seq \in Nat /\ seq <= MaxEvents /\ (UNCHANGED seq \/ (Store(p) /\ seq' = seq + 1))
  <2>1. seq \in Nat /\ seq <= MaxEvents
    BY BusAssumption DEF TypeOK
  <2>2. CASE Store(p)
    BY <2>1, <2>2 DEF Store, Add
  <2>3. CASE ~Store(p)
    BY <2>1, <2>3 DEF Check, ReadLock, Return, Visit, ring
  <2>4. QED BY <2>2, <2>3
<1>4. CASE e \in 1 .. seq
  <2>1. Covered(e, s) /\ e \in Events \ Unwanted
    BY <1>3, <1>4, BusAssumption DEF GapInv, GapFor, Events
  <2>2. CASE InFlight(e, s)
    BY <1>2, <2>1, <2>2, FlightPublish DEF Covered
  <2>3. CASE ~InFlight(e, s)
    BY <1>1, <2>1, <2>3 DEF Covered, TooOld, ToReplay
  <2>4. QED BY <2>2, <2>3
<1>5. CASE e \notin 1 .. seq
  <2>1. Store(p) /\ e = seq + 1
    BY <1>3, <1>5
  <2>2. pub'[p].pc = "added" /\ pub'[p].e = e
    BY <2>1 DEF Store, TypeOK, PubState
  <2>3. QED BY <2>2 DEF Covered, InFlight
<1>6. QED BY <1>4, <1>5

\* Sending keeps it: what is no longer in flight has been offered.
LEMMA GapSend ==
  ASSUME Inv, GapInv, NEW p \in Publishers, NEW s \in Subs, Send(p)
  PROVE GapFor(s)'
<1> USE DEF Inv
<1> DEFINE t == pub[p].to
<1>0. t \in Subs /\ pub[p] \in PubState /\ pub \in [Publishers -> PubState]
  BY FitSend DEF TypeOK
<1>1. sub'[s].pc = sub[s].pc /\ sub'[s].closed = sub[s].closed /\ sub'[s].todo = sub[s].todo
  <2>1. CASE sub[t].closed
    BY <2>1 DEF Send, Panics
  <2>2. CASE ~sub[t].closed
    <3> DEFINE ch == IF Len(sub[t].ch) < Cap THEN Append(sub[t].ch, pub[p].e) ELSE sub[t].ch
    <3>1. sub' = [sub EXCEPT ![t] = [sub[t] EXCEPT !.ch = ch]]
      BY <2>2 DEF Send, Offer, TypeOK
    <3> HIDE DEF ch
    <3>2. /\ [sub[t] EXCEPT !.ch = ch].pc = sub[t].pc
          /\ [sub[t] EXCEPT !.ch = ch].closed = sub[t].closed
          /\ [sub[t] EXCEPT !.ch = ch].todo = sub[t].todo
      BY <1>0 DEF TypeOK, SubState
    <3>3. QED BY <1>0, <3>1, <3>2 DEF TypeOK
  <2>3. QED BY <2>1, <2>2
<1> SUFFICES ASSUME sub[s].pc \in {"replay", "live"}, ~sub[s].closed,
                    NEW e \in (1 .. seq) \ Unwanted
             PROVE Covered(e, s)'
  BY <1>1 DEF GapFor, Send, ring
<1>2. Covered(e, s)
  BY DEF GapInv, GapFor
<1>3. offered[s] \subseteq offered'[s] /\ since' = since
  <2>1. CASE sub[t].closed
    BY <2>1 DEF Send, Panics
  <2>2. CASE ~sub[t].closed
    <3>1. offered' = [offered EXCEPT ![t] = @ \cup {pub[p].e}] /\ since' = since
      BY <2>2 DEF Send, Offer
    <3>2. QED BY <1>0, <3>1 DEF TypeOK
  <2>3. QED BY <2>1, <2>2
<1>4. CASE InFlight(e, s)
  <2>1. PICK q \in Publishers : pub[q].e = e /\ (pub[q].pc = "added" \/ s \in pub[q].left)
    BY <1>4 DEF InFlight
  <2>2. CASE q # p
    <3>1. pub'[q] = pub[q]
      BY <1>0, <2>2 DEF Send
    <3>2. QED BY <2>1, <3>1 DEF Covered, InFlight
  <2>3. CASE q = p /\ s # t
    <3>1. pub'[p] = [pub[p] EXCEPT !.pc = "fan", !.to = NoSub, !.left = @ \ {t}]
      BY <1>0 DEF Send
    <3>2. pub'[p].e = pub[p].e /\ pub'[p].left = pub[p].left \ {t}
      BY <1>0, <3>1 DEF PubState
    <3>3. s \in pub[p].left
      BY <2>1, <2>3 DEF Send
    <3>4. QED BY <2>1, <2>3, <3>2, <3>3 DEF Covered, InFlight
  <2>4. CASE q = p /\ s = t
    <3>1. offered' = [offered EXCEPT ![s] = @ \cup {e}]
      BY <2>1, <2>4 DEF Send, Offer
    <3>2. e \in offered'[s]
      BY <3>1 DEF TypeOK
    <3>3. QED BY <3>2 DEF Covered
  <2>5. QED BY <2>2, <2>3, <2>4
<1>5. CASE ~InFlight(e, s)
  BY <1>1, <1>2, <1>3, <1>5 DEF Covered, TooOld, ToReplay
<1>6. QED BY <1>4, <1>5

\* Reading the ring establishes it: what Last does not return is too old.
LEMMA GapRead == ASSUME Inv, NEW s \in Subs, ReadRing(s) PROVE GapFor(s)'
<1> USE DEF Inv
<1> DEFINE m == IF Replay < count THEN Replay ELSE count
           last == Last(Replay)
<1>1. last = [i \in 1 .. m |-> (seq - m) + i]
  BY LastCorrect, BusAssumption
<1>2. m \in Nat /\ m <= seq /\ seq \in Nat /\ count \in 0 .. Size /\ (count < Size => count = seq)
  BY BusAssumption DEF RingInv
<1>3. sub'[s].pc = "replay" /\ sub'[s].todo = last /\ since'[s] = seq /\ seq' = seq
  BY DEF ReadRing, TypeOK, SubState, ring
<1>4. Len(last) = m
  BY <1>1, <1>2
<1> SUFFICES ASSUME NEW e \in (1 .. seq) \ Unwanted PROVE Covered(e, s)'
  BY <1>3 DEF GapFor
<1>5. CASE e > seq - m
  <2>1. e - (seq - m) \in 1 .. m
    BY <1>2, <1>5
  <2>2. last[e - (seq - m)] = e
    BY <1>1, <1>2, <2>1
  <2> HIDE DEF last, m
  <2>3. ToReplay(e, s)'
    BY <1>3, <1>4, <2>1, <2>2 DEF ToReplay
  <2>4. QED BY <2>3 DEF Covered
<1>6. CASE e <= seq - m
  <2>1. e + Replay <= seq \/ e + Size <= seq
    BY <1>2, <1>6, BusAssumption
  <2>2. QED BY <1>3, <2>1 DEF Covered, TooOld
<1>7. QED BY <1>2, <1>5, <1>6

\* Replaying keeps it: an event leaves the replay when it is sent.
LEMMA GapReplay == ASSUME Inv, NEW s \in Subs, GapFor(s), ReplayNext(s) PROVE GapFor(s)'
<1> USE DEF Inv
<1> DEFINE todo == sub[s].todo
<1>0. todo \in Seq(Events) /\ sub[s] \in SubState
  BY DEF TypeOK, SubState
<1>1. UNCHANGED <<pub, seq>> /\ since'[s] = since[s] /\ offered[s] \subseteq offered'[s]
  BY DEF ReplayNext, Panics, ring, TypeOK
<1> SUFFICES ASSUME sub'[s].pc \in {"replay", "live"}, ~sub'[s].closed,
                    NEW e \in (1 .. seq) \ Unwanted
             PROVE Covered(e, s)'
  BY <1>1 DEF GapFor
<1>2. CASE todo = << >>
  <2>1. sub' = [sub EXCEPT ![s].pc = "live"]
    BY <1>2 DEF ReplayNext
  <2>2. ~sub[s].closed /\ sub[s].pc = "replay"
    BY <1>0, <2>1 DEF ReplayNext, TypeOK, SubState
  <2>3. Covered(e, s) /\ ~ToReplay(e, s)
    BY <1>2, <2>2 DEF GapFor, ToReplay
  <2>4. QED BY <1>1, <2>3 DEF Covered, TooOld, InFlight
<1>3. CASE todo # << >> /\ Head(todo) \notin Unwanted /\ sub[s].closed
  BY <1>3 DEF ReplayNext, Panics
<1>4. CASE todo # << >> /\ ~(Head(todo) \notin Unwanted /\ sub[s].closed)
  <2> DEFINE rest == Tail(todo)
  <2>1. sub'[s].closed = sub[s].closed /\ sub'[s].pc = sub[s].pc /\ sub'[s].todo = rest
    BY <1>0, <1>4 DEF ReplayNext, TypeOK, SubState
  <2>2. Covered(e, s) /\ sub[s].pc = "replay"
    BY <2>1 DEF GapFor, ReplayNext
  <2>3. CASE ToReplay(e, s)
    <3>1. PICK i \in 1 .. Len(todo) : todo[i] = e
      BY <2>3 DEF ToReplay
    <3>2. CASE i = 1
      <4>1. offered' = [offered EXCEPT ![s] = @ \cup {e}]
        BY <1>0, <1>4, <3>1, <3>2 DEF ReplayNext
      <4>2. e \in offered'[s]
        BY <4>1 DEF TypeOK
      <4>3. QED BY <4>2 DEF Covered
    <3>3. CASE i > 1
      <4>1. i - 1 \in 1 .. Len(rest) /\ rest[i - 1] = e
        BY <1>0, <1>4, <3>1, <3>3
      <4> HIDE DEF rest
      <4>2. ToReplay(e, s)'
        BY <2>1, <2>2, <4>1 DEF ToReplay
      <4>3. QED BY <4>2 DEF Covered
    <3>4. QED BY <3>1, <3>2, <3>3
  <2>4. CASE ~ToReplay(e, s)
    BY <1>1, <2>2, <2>4 DEF Covered, TooOld, InFlight
  <2>5. QED BY <2>3, <2>4
<1>5. QED BY <1>2, <1>3, <1>4

\* What other subscriptions do does not touch this one.
LEMMA GapOthers ==
  ASSUME Inv, NEW s \in Subs, GapFor(s), NEW x \in Subs,
         \/ Register(x) \/ ReadRing(x) \/ ReplayNext(x) \/ Receive(x)
         \/ Unsubscribe(x) \/ Unsubscribed(x) \/ CloseOnly(x)
  PROVE GapFor(s)'
<1> USE DEF Inv
<1>0. sub \in [Subs -> SubState] /\ sub[x] \in SubState
  BY DEF TypeOK
<1>1. UNCHANGED <<pub, seq>>
  BY DEF Register, ReadRing, ReplayNext, Receive, Unsubscribe, Unsubscribed, CloseOnly, ring
<1>2. CASE x # s
  <2>1. sub'[s] = sub[s] /\ offered'[s] = offered[s] /\ since'[s] = since[s]
    <3>1. CASE ReplayNext(x)
      BY <1>0, <1>2, <3>1 DEF ReplayNext, Panics, TypeOK
    <3>2. CASE ~ReplayNext(x)
      BY <1>0, <1>2, <3>2 DEF Register, ReadRing, Receive, Unsubscribe, Unsubscribed,
                              CloseOnly, Closed, TypeOK
    <3>3. QED BY <3>1, <3>2
  <2>2. QED BY <1>1, <2>1, GapKept
<1>3. CASE x = s /\ ReadRing(x)
  BY <1>3, GapRead
<1>4. CASE x = s /\ ReplayNext(x)
  BY <1>4, GapReplay
<1>5. CASE x = s /\ Receive(x)
  <2>1. /\ sub'[s].pc = sub[s].pc /\ sub'[s].todo = sub[s].todo
        /\ sub'[s].closed = sub[s].closed /\ offered' = offered /\ since' = since
    BY <1>0, <1>5 DEF Receive, SubState
  <2>2. QED BY <1>1, <2>1, GapKept
<1>6. CASE x = s /\ (Register(x) \/ Unsubscribe(x) \/ Unsubscribed(x) \/ CloseOnly(x))
  <2>1. sub'[s].pc \in {"ring", "leaving", "ended"}
    BY <1>0, <1>6 DEF Register, Unsubscribe, Unsubscribed, CloseOnly, Closed, SubState
  <2>2. QED BY <2>1 DEF GapFor
<1>7. QED BY <1>2, <1>3, <1>4, <1>5, <1>6

\* Every step keeps it.
LEMMA GapStep == Inv /\ GapInv /\ [Next]_vars => GapInv'
<1> SUFFICES ASSUME Inv, GapInv, [Next]_vars, NEW s \in Subs PROVE GapFor(s)'
  BY DEF GapInv
<1>0. GapFor(s)
  BY DEF GapInv
<1>1. ASSUME NEW p \in Publishers,
             Check(p) \/ Store(p) \/ ReadLock(p) \/ Return(p) \/ \E x \in Subs : Visit(p, x)
      PROVE GapFor(s)'
  BY <1>1, GapPublish
<1>2. ASSUME NEW p \in Publishers, Send(p) PROVE GapFor(s)'
  BY <1>2, GapSend
<1>3. ASSUME NEW x \in Subs,
             \/ Register(x) \/ ReadRing(x) \/ ReplayNext(x) \/ Receive(x)
             \/ Unsubscribe(x) \/ Unsubscribed(x) \/ CloseOnly(x)
      PROVE GapFor(s)'
  BY <1>0, <1>3, GapOthers
<1>4. CASE Close \/ CloseAll
  <2>1. /\ sub'[s].pc = sub[s].pc /\ sub'[s].todo = sub[s].todo
        /\ sub[s].closed => sub'[s].closed
    BY <1>4 DEF Close, CloseAll, Inv, TypeOK, SubState
  <2>2. UNCHANGED <<pub, seq, offered, since>>
    BY <1>4 DEF Close, CloseAll, ring
  <2>3. QED BY <1>0, <2>1, <2>2, GapKept
<1>5. CASE UNCHANGED vars
  BY <1>0, <1>5, GapKept DEF vars, ring
<1>6. QED BY <1>1, <1>2, <1>3, <1>4, <1>5 DEF Next

\* No event falls between the replay and the live events of a subscription, for
\* any number of publishers at any point of Publish (Subscribe).
THEOREM GapFree == Spec => []NoGap
<1>1. Init => GapInv
  BY DEF Init, GapInv, GapFor
<1>2. QED BY InvInit, InvStep, GapStep, GapInvGives, <1>1, PTL DEF Spec
=============================================================================
