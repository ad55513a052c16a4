------------------------------ MODULE EventBus ------------------------------
(***************************************************************************)
(* The event bus: src/internal/infrastructure/events/bus (bus.go,          *)
(* subscription.go, ring_buffer.go) with the consumers that end their      *)
(* subscriptions.  Publishing stores an event in a ring buffer and then    *)
(* offers it, without waiting, to every subscription under a read lock.    *)
(* An event is the number of its place in the history of the ring.         *)
(***************************************************************************)
EXTENDS Naturals, Sequences

CONSTANTS Publishers,  \* goroutines that publish
          Subs,        \* subscriptions
          Polite,      \* those whose consumer calls Unsubscribe, not Close
          Replay,      \* ReplayLast of every subscription
          Size,        \* capacity of the ring buffer
          Cap,         \* buffer of a subscription
          Unwanted,    \* events that the filters reject
          MaxEvents    \* bound: events published

ASSUME BusAssumption ==
    /\ Polite \subseteq Subs
    /\ Replay \in Nat /\ Size \in Nat \ {0} /\ Cap \in Nat \ {0}
    /\ MaxEvents \in Nat

VARIABLES items, head, count,  \* RingBuffer
          seq,      \* its sequence number, which is the last event
          pub,      \* the calls of Publish
          reg,      \* Bus.subscribers
          sub,      \* the subscriptions and their consumers
          shut,     \* Bus.closed, and how far Close is
          offered,  \* auxiliary: events sent to a subscription or dropped
          since,    \* auxiliary: the last event when a subscription read the ring
          panic     \* auxiliary: the call that sent on a closed channel

ring == <<items, head, count, seq>>
vars == <<ring, pub, reg, sub, shut, offered, since, panic>>

Events == 1 .. MaxEvents
NoSub == "none"
Resting == [pc |-> "idle", e |-> 0, left |-> {}, to |-> NoSub]
NoPanic == [by |-> "nobody", to |-> NoSub]

PubState == [pc : {"idle", "checked", "added", "fan", "send"},
             e : 0 .. MaxEvents, left : SUBSET Subs, to : Subs \cup {NoSub}]
SubState == [pc : {"new", "ring", "replay", "live", "leaving", "ended"},
             ch : Seq(Events), todo : Seq(Events), closed : BOOLEAN]

(***************************************************************************)
(* Every variable has its type; the ring has at most Size items and no     *)
(* channel is over its capacity.                                           *)
(***************************************************************************)
TypeOK ==
    /\ items \in [0 .. Size - 1 -> 0 .. MaxEvents]
    /\ head \in 0 .. Size - 1 /\ count \in 0 .. Size /\ seq \in 0 .. MaxEvents
    /\ pub \in [Publishers -> PubState]
    /\ reg \subseteq Subs
    /\ sub \in [Subs -> SubState]
    /\ \A s \in Subs : Len(sub[s].ch) <= Cap
    /\ shut \in {"open", "closing", "closed"}
    /\ offered \in [Subs -> SUBSET Events]
    /\ since \in [Subs -> 0 .. MaxEvents]
    /\ panic \in [by : {"nobody", "publish", "replay"}, to : Subs \cup {NoSub}]

Init ==
    /\ items = [i \in 0 .. Size - 1 |-> 0] /\ head = 0 /\ count = 0 /\ seq = 0
    /\ pub = [p \in Publishers |-> Resting]
    /\ reg = {}
    /\ sub = [s \in Subs |-> [pc |-> "new", ch |-> << >>, todo |-> << >>, closed |-> FALSE]]
    /\ shut = "open"
    /\ offered = [s \in Subs |-> {}] /\ since = [s \in Subs |-> 0]
    /\ panic = NoPanic

-----------------------------------------------------------------------------
(***************************************************************************)
(* The ring buffer.                                                        *)
(***************************************************************************)

CountAfter == IF count < Size THEN count + 1 ELSE count

Add(e) ==
    /\ items' = [items EXCEPT ![head] = e]
    /\ head' = (head + 1) % Size
    /\ count' = CountAfter
    /\ seq' = seq + 1

\* (mutant: the items are read from the start of the array)
StartOfArray(n) == 0

\* The place of the oldest of the last n items.
StartOf(n) == ((head + Size) - n) % Size

\* Last(n), oldest first.
Last(n) ==
    LET m == IF n > count THEN count ELSE n
    IN  [i \in 1 .. m |-> items[(StartOf(m) + (i - 1)) % Size]]

-----------------------------------------------------------------------------
(***************************************************************************)
(* Sends to the channel of a subscription.                                 *)
(***************************************************************************)

\* The event is offered: sent, or dropped when the buffer is full.
Offer(s, e) ==
    /\ sub' = [sub EXCEPT ![s].ch = IF Len(@) < Cap THEN Append(@, e) ELSE @]
    /\ offered' = [offered EXCEPT ![s] = @ \cup {e}]
    /\ UNCHANGED panic

\* A send on a closed channel, in a select too, panics and ends the process.
Panics(call, s) ==
    /\ panic' = [by |-> call, to |-> s]
    /\ UNCHANGED <<sub, offered>>

Up == panic = NoPanic

\* (mutant: the map of subscribers is changed without the lock)
Always == TRUE

\* The write lock can be had: no call of Publish holds the read lock.
NoReader == \A p \in Publishers : pub[p].pc \notin {"fan", "send"}

-----------------------------------------------------------------------------
(***************************************************************************)
(* Publish.                                                                *)
(***************************************************************************)

\* The bus is open ...
Check(p) ==
    /\ Up /\ pub[p].pc = "idle" /\ shut = "open"
    /\ pub' = [pub EXCEPT ![p].pc = "checked"]
    /\ UNCHANGED <<ring, reg, sub, shut, offered, since, panic>>

\* ... the event goes into the ring ...
Store(p) ==
    /\ Up /\ pub[p].pc = "checked" /\ seq < MaxEvents
    /\ Add(seq + 1)
    /\ pub' = [pub EXCEPT ![p].pc = "added", ![p].e = seq + 1]
    /\ UNCHANGED <<reg, sub, shut, offered, since, panic>>

\* (mutant: a subscription that still replays is left out)
LiveTargets == {s \in reg : sub[s].pc # "replay"}

\* The subscriptions a fan-out visits: all that are registered.
Targets == reg

\* ... and under the read lock to the subscriptions of the map,
ReadLock(p) ==
    /\ Up /\ pub[p].pc = "added"
    /\ pub' = [pub EXCEPT ![p].pc = "fan", ![p].left = Targets]
    /\ UNCHANGED <<ring, reg, sub, shut, offered, since, panic>>

\* one after the other: closed ones and those that filter it out are skipped,
Visit(p, s) ==
    /\ Up /\ pub[p].pc = "fan" /\ s \in pub[p].left
    /\ pub' = IF sub[s].closed \/ pub[p].e \in Unwanted
              THEN [pub EXCEPT ![p].left = @ \ {s}]
              ELSE [pub EXCEPT ![p].pc = "send", ![p].to = s]
    /\ UNCHANGED <<ring, reg, sub, shut, offered, since, panic>>

Send(p) ==
    /\ Up /\ pub[p].pc = "send"
    /\ LET s == pub[p].to
       IN  /\ IF sub[s].closed THEN Panics("publish", s) ELSE Offer(s, pub[p].e)
           /\ pub' = [pub EXCEPT ![p].pc = "fan", ![p].to = NoSub, ![p].left = @ \ {s}]
    /\ UNCHANGED <<ring, reg, shut, since>>

Return(p) ==
    /\ Up /\ pub[p].pc = "fan" /\ pub[p].left = {}
    /\ pub' = [pub EXCEPT ![p] = Resting]
    /\ UNCHANGED <<ring, reg, sub, shut, offered, since, panic>>

-----------------------------------------------------------------------------
(***************************************************************************)
(* Subscribe.  It does not ask whether the bus is closed.                  *)
(***************************************************************************)

\* The subscription is registered first ...
Register(s) ==
    /\ Up /\ sub[s].pc = "new" /\ NoReader
    /\ reg' = reg \cup {s}
    /\ sub' = [sub EXCEPT ![s].pc = "ring"]
    /\ UNCHANGED <<ring, pub, shut, offered, since, panic>>

\* ... then the ring is read, without a lock on the bus ...
ReadRing(s) ==
    /\ Up /\ sub[s].pc = "ring"
    /\ sub' = [sub EXCEPT ![s].pc = "replay", ![s].todo = Last(Replay)]
    /\ since' = [since EXCEPT ![s] = seq]
    /\ UNCHANGED <<ring, pub, reg, shut, offered, panic>>

\* ... and what it held is sent, while live events may already come in.
ReplayNext(s) ==
    /\ Up /\ sub[s].pc = "replay"
    /\ LET todo == sub[s].todo
           rest == [sub EXCEPT ![s].todo = Tail(todo)]
       IN  \/ /\ todo = << >>
              /\ sub' = [sub EXCEPT ![s].pc = "live"] /\ UNCHANGED <<offered, panic>>
           \/ /\ todo # << >> /\ Head(todo) \in Unwanted
              /\ sub' = rest /\ UNCHANGED <<offered, panic>>
           \/ /\ todo # << >> /\ Head(todo) \notin Unwanted /\ sub[s].closed
              /\ Panics("replay", s)
           \/ /\ todo # << >> /\ Head(todo) \notin Unwanted /\ ~sub[s].closed
              /\ sub' = [rest EXCEPT ![s].ch = IF Len(@) < Cap THEN Append(@, Head(todo)) ELSE @]
              /\ offered' = [offered EXCEPT ![s] = @ \cup {Head(todo)}] /\ UNCHANGED panic
    /\ UNCHANGED <<ring, pub, reg, shut, since>>

-----------------------------------------------------------------------------
(***************************************************************************)
(* Consumers and the end of subscriptions.                                 *)
(***************************************************************************)

Receive(s) ==
    /\ Up /\ sub[s].pc = "live" /\ sub[s].ch # << >>
    /\ sub' = [sub EXCEPT ![s].ch = Tail(@)]
    /\ UNCHANGED <<ring, pub, reg, shut, offered, since, panic>>

\* Unsubscribe deletes the subscription under the write lock ...
Unsubscribe(s) ==
    /\ Up /\ s \in Polite /\ sub[s].pc = "live" /\ NoReader
    /\ reg' = reg \ {s}
    /\ sub' = [sub EXCEPT ![s].pc = "leaving"]
    /\ UNCHANGED <<ring, pub, shut, offered, since, panic>>

Closed(f, s) == [f EXCEPT ![s].pc = "ended", ![s].ch = << >>, ![s].closed = TRUE]

\* ... and closes it afterwards.
Unsubscribed(s) ==
    /\ Up /\ sub[s].pc = "leaving"
    /\ sub' = Closed(sub, s)
    /\ UNCHANGED <<ring, pub, reg, shut, offered, since, panic>>

\* A consumer that closes the subscription itself leaves it registered.
CloseOnly(s) ==
    /\ Up /\ s \notin Polite /\ sub[s].pc = "live"
    /\ sub' = Closed(sub, s)
    /\ UNCHANGED <<ring, pub, reg, shut, offered, since, panic>>

\* Close of the bus swaps the flag ...
Close ==
    /\ Up /\ shut = "open" /\ shut' = "closing"
    /\ UNCHANGED <<ring, pub, reg, sub, offered, since, panic>>

\* ... and closes what is registered, under the write lock.
CloseAll ==
    /\ Up /\ shut = "closing" /\ NoReader
    /\ shut' = "closed" /\ reg' = {}
    /\ sub' = [s \in Subs |-> IF s \in reg THEN [sub[s] EXCEPT !.closed = TRUE] ELSE sub[s]]
    /\ UNCHANGED <<ring, pub, offered, since, panic>>

-----------------------------------------------------------------------------
Next ==
    \/ \E p \in Publishers :
          \/ Check(p) \/ Store(p) \/ ReadLock(p) \/ Send(p) \/ Return(p)
          \/ \E s \in Subs : Visit(p, s)
    \/ \E s \in Subs :
          \/ Register(s) \/ ReadRing(s) \/ ReplayNext(s)
          \/ Receive(s) \/ Unsubscribe(s) \/ Unsubscribed(s) \/ CloseOnly(s)
    \/ Close \/ CloseAll

Spec == Init /\ [][Next]_vars

-----------------------------------------------------------------------------
(***************************************************************************)
(* Properties.                                                             *)
(***************************************************************************)

(***************************************************************************)
(* The ring gives back the newest events, oldest first, however often the  *)
(* write position has gone round.                                          *)
(***************************************************************************)
LastIsNewest ==
    \A n \in 0 .. Size + 1 :
        LET m == IF n < count THEN n ELSE count
        IN  Last(n) = [i \in 1 .. m |-> (seq - m) + i]

\* A call of Publish has still to offer e to s.
InFlight(e, s) ==
    \E p \in Publishers :
        pub[p].e = e /\ (pub[p].pc = "added" \/ s \in pub[p].left)

\* e was too old to be replayed when s read the ring.
TooOld(e, s) == e + Replay <= since[s] \/ e + Size <= since[s]

(***************************************************************************)
(* No event falls between the replay and the live events: one that the     *)
(* replay did not reach was offered to the subscription or is about to be, *)
(* because a subscription is registered before it reads the ring.          *)
(***************************************************************************)
NoGap ==
    \A s \in Subs : (sub[s].pc = "live" /\ ~sub[s].closed) =>
        \A e \in (1 .. seq) \ Unwanted :
            e \in offered[s] \/ TooOld(e, s) \/ InFlight(e, s)

(***************************************************************************)
(* Publish sends on no closed channel, unless the consumer closed its      *)
(* subscription itself, and a replay only when the bus was closed.         *)
(***************************************************************************)
SendsToOpen ==
    /\ panic.by = "publish" => panic.to \notin Polite
    /\ panic.by = "replay" => shut = "closed"
=============================================================================
