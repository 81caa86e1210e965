------------------------------ MODULE EventBus ------------------------------
(***************************************************************************)
(* internal/eventbus/bus.go: the in-memory publish/subscribe bus behind    *)
(* Manager.Events.  A subscription is a buffered channel.  Publish takes   *)
(* the set of subscriptions under the read lock and sends outside it, so   *)
(* that its sends interleave with Close, with subscription.Close and with  *)
(* other publishers.  A send on a closed channel panics and ends the host. *)
(***************************************************************************)
EXTENDS Naturals, Sequences, FiniteSets

CONSTANTS
  Publishers,     \* goroutines that call Publish
  Subscriptions,  \* subscription objects, each created at most once
  Events,         \* events, records with a type and a process id
  Filters,        \* filters that Subscribe is called with
  ChCap,          \* capacity of a subscription's channel, 256 in the Manager
  DropThreshold   \* SlowPolicy.DropThreshold, 10 by default, 0 for never

ASSUME BusAssumption == ChCap \in Nat \ {0} /\ DropThreshold \in Nat

VARIABLES
  subs,       \* Bus.subs
  busClosed,  \* Bus.closed
  filter,     \* subscription.filter
  ch,         \* contents of subscription.ch
  chClosed,   \* subscription.chClosed, or closed at birth
  dropCnt,    \* subscription.dropCnt
  pub,        \* what each publisher is doing
  panicked,   \* a send hit a closed channel
  created,    \* subscriptions made so far
  sent,       \* history: what each publisher has published
  due,        \* history: events each subscription was to be given
  lost,       \* history: events each subscription missed because it was full
  got,        \* history: events each subscriber has taken from its channel
  streak      \* history: drops in a row of each subscription, see Fresh

busVars == <<subs, busClosed, filter, ch, chClosed, dropCnt, pub, panicked, created,
             sent, due, lost, got, streak>>

Idle == [pc |-> "idle", todo |-> {}]

\* Drops since the last delivery, the longest such run so far, and whether
\* publishers have come between another's send and its bookkeeping.
Fresh == [run |-> 0, longest |-> 0, raced |-> FALSE]

AnyEvent == [types |-> {}, ids |-> {}]

New ==
  /\ subs = {}
  /\ busClosed = FALSE
  /\ filter = [s \in Subscriptions |-> AnyEvent]
  /\ ch = [s \in Subscriptions |-> <<>>]
  /\ chClosed = [s \in Subscriptions |-> FALSE]
  /\ dropCnt = [s \in Subscriptions |-> 0]
  /\ pub = [p \in Publishers |-> Idle]
  /\ panicked = FALSE
  /\ created = {}
  /\ sent = [p \in Publishers |-> <<>>]
  /\ due = [s \in Subscriptions |-> {}]
  /\ lost = [s \in Subscriptions |-> {}]
  /\ got = [s \in Subscriptions |-> <<>>]
  /\ streak = [s \in Subscriptions |-> Fresh]

\* Filter.Matches: an empty list of types or of processes stands for any.
Matches(f, e) ==
  /\ f.types = {} \/ e.type \in f.types
  /\ f.ids = {} \/ e.id \in f.ids

\* Publish up to RUnlock.  The subscriptions whose filter rejects the event
\* are skipped later in the code; the filter never changes.
Publish(p, e) ==
  LET todo == {s \in subs : Matches(filter[s], e)} IN
  /\ pub[p].pc = "idle"
  /\ sent' = [sent EXCEPT ![p] = Append(@, e)]
  /\ IF busClosed \/ todo = {}
       THEN UNCHANGED <<pub, due>>
       ELSE /\ pub' = [pub EXCEPT ![p] = [pc |-> "send", todo |-> todo, ev |-> e]]
            /\ due' = [s \in Subscriptions |-> due[s] \cup IF s \in todo THEN {e} ELSE {}]
  /\ UNCHANGED <<subs, busClosed, filter, ch, chClosed, dropCnt, panicked, created, lost, got, streak>>

At(p, s, pc) == [pc |-> pc, todo |-> pub[p].todo \ {s}, ev |-> pub[p].ev, sub |-> s]

\* The next turn of Publish's loop, or its end.
NextSub(p) == IF pub[p].todo = {} THEN Idle
              ELSE [pc |-> "send", todo |-> pub[p].todo, ev |-> pub[p].ev]

\* Publishers whose send to s is done and whose bookkeeping is not.
Between(s) == {q \in Publishers : pub[q].pc \in {"reset", "record"} /\ pub[q].sub = s}

Delivered(s) == [run |-> 0, longest |-> streak[s].longest, raced |-> streak[s].raced \/ Between(s) # {}]

Missed(s) == [run |-> streak[s].run + 1,
              longest |-> IF streak[s].run < streak[s].longest THEN streak[s].longest
                          ELSE streak[s].run + 1,
              raced |-> streak[s].raced \/ Between(s) # {}]

\* With nobody else in between, the counter and the streak agree again.
Settled(p, s) == [run |-> streak[s].run, longest |-> streak[s].longest,
                  raced |-> streak[s].raced /\ Between(s) # {p}]

\* select { case s.ch <- e: ... default: ... }
Send(p, s) ==
  /\ pub[p].pc = "send" /\ s \in pub[p].todo
  /\ \/ /\ chClosed[s]
        /\ panicked' = TRUE
        /\ UNCHANGED <<ch, pub, lost, streak>>
     \/ /\ ~chClosed[s] /\ Len(ch[s]) < ChCap
        /\ ch' = [ch EXCEPT ![s] = Append(@, pub[p].ev)]
        /\ pub' = [pub EXCEPT ![p] = At(p, s, "reset")]
        /\ streak' = [streak EXCEPT ![s] = Delivered(s)]
        /\ UNCHANGED <<panicked, lost>>
     \/ /\ ~chClosed[s] /\ Len(ch[s]) = ChCap
        /\ lost' = [lost EXCEPT ![s] = @ \cup {pub[p].ev}]
        /\ pub' = [pub EXCEPT ![p] = At(p, s, "record")]
        /\ streak' = [streak EXCEPT ![s] = Missed(s)]
        /\ UNCHANGED <<panicked, ch>>
  /\ UNCHANGED <<subs, busClosed, filter, chClosed, dropCnt, created, sent, due, got>>

\* Mutant: a delivery leaves the counter as it is.
BugKeepDrops(p) ==
  /\ pub[p].pc = "reset"
  /\ pub' = [pub EXCEPT ![p] = NextSub(p)]
  /\ UNCHANGED <<subs, busClosed, filter, ch, chClosed, dropCnt, panicked, created, sent, due, lost, got, streak>>

resetDrops(p) ==
  LET s == pub[p].sub IN
  /\ pub[p].pc = "reset"
  /\ dropCnt' = [dropCnt EXCEPT ![s] = 0]
  /\ pub' = [pub EXCEPT ![p] = NextSub(p)]
  /\ streak' = [streak EXCEPT ![s] = Settled(p, s)]
  /\ UNCHANGED <<subs, busClosed, filter, ch, chClosed, panicked, created, sent, due, lost, got>>

recordDrop(p) ==
  /\ pub[p].pc = "record"
  /\ dropCnt' = [dropCnt EXCEPT ![pub[p].sub] = @ + 1]
  /\ pub' = [pub EXCEPT ![p].pc = "check"]
  /\ UNCHANGED <<subs, busClosed, filter, ch, chClosed, panicked, created, sent, due, lost, got, streak>>

TooSlow(s) == DropThreshold > 0 /\ dropCnt[s] >= DropThreshold

CheckDrops(p) ==
  /\ pub[p].pc = "check"
  /\ pub' = [pub EXCEPT ![p] = IF TooSlow(@.sub) THEN [@ EXCEPT !.pc = "disconnect"] ELSE NextSub(p)]
  /\ UNCHANGED <<subs, busClosed, filter, ch, chClosed, dropCnt, panicked, created, sent, due, lost, got, streak>>

\* Bus.disconnect under the lock: only a registered subscription is closed.
disconnect(s) ==
  /\ subs' = subs \ {s}
  /\ chClosed' = IF s \in subs THEN [chClosed EXCEPT ![s] = TRUE] ELSE chClosed

DisconnectSlow(p) ==
  /\ pub[p].pc = "disconnect"
  /\ disconnect(pub[p].sub)
  /\ pub' = [pub EXCEPT ![p] = NextSub(p)]
  /\ UNCHANGED <<busClosed, filter, ch, dropCnt, panicked, created, sent, due, lost, got, streak>>

PublishStep(p) ==
  \/ \E s \in Subscriptions : Send(p, s)
  \/ resetDrops(p)
  \/ recordDrop(p)
  \/ CheckDrops(p)
  \/ DisconnectSlow(p)

Subscribe(s, f) ==
  /\ s \notin created
  /\ created' = created \cup {s}
  /\ filter' = [filter EXCEPT ![s] = f]
  /\ IF busClosed
       THEN chClosed' = [chClosed EXCEPT ![s] = TRUE] /\ UNCHANGED subs
       ELSE subs' = subs \cup {s} /\ UNCHANGED chClosed
  /\ UNCHANGED <<busClosed, ch, dropCnt, pub, panicked, sent, due, lost, got, streak>>

\* One turn of the subscriber's range over Events().
Receive(s) ==
  /\ ch[s] # <<>>
  /\ got' = [got EXCEPT ![s] = Append(@, Head(ch[s]))]
  /\ ch' = [ch EXCEPT ![s] = Tail(@)]
  /\ UNCHANGED <<subs, busClosed, filter, chClosed, dropCnt, pub, panicked, created, sent, due, lost, streak>>

\* subscription.Close
CloseSubscription(s) ==
  /\ s \in created
  /\ disconnect(s)
  /\ UNCHANGED <<busClosed, filter, ch, dropCnt, pub, panicked, created, sent, due, lost, got, streak>>

CloseBus ==
  /\ busClosed' = TRUE
  /\ chClosed' = [s \in Subscriptions |-> chClosed[s] \/ s \in subs]
  /\ subs' = {}
  /\ UNCHANGED <<filter, ch, dropCnt, pub, panicked, created, sent, due, lost, got, streak>>

EventsOf(q) == {q[i] : i \in DOMAIN q}

\* An event object that nobody has published yet.
Unpublished(e) == \A p \in Publishers : e \notin EventsOf(sent[p])

-----------------------------------------------------------------------------
\* The bus by itself: an event is published once, subscribers come, receive
\* and leave.
BusNext ==
  /\ ~panicked
  /\ \/ \E p \in Publishers :
          \/ \E e \in Events : Unpublished(e) /\ Publish(p, e)
          \/ PublishStep(p)
     \/ \E s \in Subscriptions :
          (\E f \in Filters : Subscribe(s, f)) \/ Receive(s) \/ CloseSubscription(s)
     \/ CloseBus

BusSpec == New /\ [][BusNext]_busVars

-----------------------------------------------------------------------------
\* What a subscriber has taken or can still take.
Stream(s) == got[s] \o ch[s]

\* Every channel that is closed has left the bus, and a closed bus has no
\* subscriptions: a second close of a channel, which panics, is impossible.
RegisteredIsOpen ==
  /\ \A s \in subs : ~chClosed[s]
  /\ busClosed => subs = {}

\* A subscriber sees the events of one publisher in the order of its Publish
\* calls, each at most once, though sends run outside the lock and other
\* publishers and closers interleave with them.  (Events of the model are
\* published at most once.)
InPublishOrder ==
  \A s \in Subscriptions, p \in Publishers :
    \A i, j \in DOMAIN Stream(s) :
      \A k, l \in DOMAIN sent[p] :
        (Stream(s)[i] = sent[p][k] /\ Stream(s)[j] = sent[p][l] /\ i < j) => k < l

\* Still on its way to s: Publish has s on its list.
Coming(s) == {pub[p].ev : p \in {q \in Publishers : pub[q].pc # "idle" /\ s \in pub[q].todo}}

\* Nothing vanishes: an event a subscription was to be given is in its
\* channel, was received, was dropped because the channel was full, or is
\* still being published.
NothingVanishes ==
  \A s \in Subscriptions :
    /\ due[s] = EventsOf(Stream(s)) \cup lost[s] \cup Coming(s)
    /\ EventsOf(Stream(s)) \cap lost[s] = {}

\* A subscriber that missed as many events as the policy allows.
Slow(s) == DropThreshold > 0 /\ Cardinality(lost[s]) >= DropThreshold

\* "DropThreshold is the number of consecutive dropped events after which the
\* subscription is forcibly closed" (bus.go:13-14): Publish closes a channel only
\* when its subscription missed as many events, and, unless publishers came
\* between each other's send and bookkeeping, missed them in a row.
SlowMissedEnough ==
  \A p \in Publishers :
    /\ pub[p].pc = "disconnect" => Cardinality(lost[pub[p].sub]) >= DropThreshold
    /\ pub[p].pc = "check" /\ TooSlow(pub[p].sub) =>
         streak[pub[p].sub].longest >= DropThreshold \/ streak[pub[p].sub].raced

\* What the bus owes a subscriber (Publish against Subscribe, both Closes and
\* disconnect): every event, in order, or an account of it as dropped, and its
\* channel until it has dropped too many.
DeliveredOrCounted == RegisteredIsOpen /\ InPublishOrder /\ NothingVanishes /\ SlowMissedEnough

\* "It is safe for concurrent use" (bus.go:19): no send finds its channel
\* closed.
NoSendOnClosed == ~panicked
=============================================================================
