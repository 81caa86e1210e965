----------------------------- MODULE MgmtProofs -----------------------------
(***************************************************************************)
(* The streams of the host: the event bus, the log pipeline and the        *)
(* management server on top of both, for every set of publishers,          *)
(* subscriptions, events, processes and clients and every capacity.        *)
(***************************************************************************)
EXTENDS MgmtServer, FiniteSetTheorems, TLAPS

-----------------------------------------------------------------------------
(* The event bus: its inductive invariant.                                 *)

PubSteps == {"idle", "send", "reset", "record", "check", "disconnect"}

\* What is needed of the types: the channels and the histories are sequences
\* or sets of events, and a publisher's list and subscription are real ones.
BusTypes ==
  /\ subs \subseteq created /\ created \subseteq Subscriptions
  /\ DOMAIN chClosed = Subscriptions
  /\ ch \in [Subscriptions -> Seq(Events)] /\ got \in [Subscriptions -> Seq(Events)]
  /\ sent \in [Publishers -> Seq(Events)]
  /\ DOMAIN due = Subscriptions /\ DOMAIN lost = Subscriptions
  /\ dropCnt \in [Subscriptions -> Nat]
  /\ \A s \in Subscriptions : IsFiniteSet(lost[s])

PubTypes ==
  /\ DOMAIN pub = Publishers
  /\ \A p \in Publishers :
       /\ pub[p].pc \in PubSteps /\ pub[p].todo \subseteq Subscriptions
       /\ pub[p].pc = "idle" => pub[p].todo = {}
       /\ pub[p].pc # "idle" => pub[p].ev \in Events
       /\ pub[p].pc \notin {"idle", "send"} =>
            pub[p].sub \in Subscriptions /\ DOMAIN pub[p] = {"pc", "todo", "ev", "sub"}

\* An event is published once.
SentOnce ==
  \A p, q \in Publishers : \A k \in DOMAIN sent[p], l \in DOMAIN sent[q] :
    sent[p][k] = sent[q][l] => p = q /\ k = l

\* The event a publisher is busy with is its latest.
BusyWithLatest ==
  \A p \in Publishers :
    pub[p].pc # "idle" => /\ Len(sent[p]) \in DOMAIN sent[p]
                          /\ pub[p].ev = sent[p][Len(sent[p])]

\* Only what was published is due, and what is still to be sent to a
\* subscription is neither in its stream nor counted as lost.
DueIsSent ==
  \A s \in Subscriptions :
    /\ \A e \in due[s] : \E p \in Publishers : e \in EventsOf(sent[p])
    /\ \A p \in Publishers :
         s \in pub[p].todo => pub[p].ev \notin EventsOf(Stream(s)) \cup lost[s]

\* Lost events that recordDrop has still to count.
Uncounted(s) == {pub[p].ev : p \in {q \in Publishers : pub[q].pc = "record" /\ pub[q].sub = s}}

\* The drop counter never runs ahead of the events that were dropped.
DropsCounted ==
  /\ \A s \in Subscriptions : dropCnt[s] <= Cardinality(lost[s] \ Uncounted(s))
  /\ \A p \in Publishers :
       /\ pub[p].pc = "record" => pub[p].ev \in lost[pub[p].sub]
       /\ pub[p].pc = "disconnect" => Slow(pub[p].sub)

\* Only a subscription that was made has a closed channel.
BornOpen == \A s \in Subscriptions : chClosed[s] => s \in created

BusInv ==
  /\ BusTypes /\ PubTypes /\ BornOpen /\ SentOnce /\ BusyWithLatest /\ DueIsSent /\ DropsCounted
  /\ RegisteredIsOpen /\ InPublishOrder /\ NothingVanishes

-----------------------------------------------------------------------------
(* Channels as sequences.                                                  *)

\* A send adds its event at the end of what the subscriber gets.
LEMMA StreamGrows ==
  ASSUME NEW S, NEW g \in Seq(S), NEW c \in Seq(S), NEW e \in S
  PROVE  /\ Append(c, e) \in Seq(S)
         /\ g \o Append(c, e) = Append(g \o c, e)
         /\ g \o c \in Seq(S)
  OBVIOUS

\* A receive moves an event from the channel to the subscriber.
LEMMA StreamMoves ==
  ASSUME NEW S, NEW g \in Seq(S), NEW c \in Seq(S), c # <<>>
  PROVE  /\ Head(c) \in S /\ Tail(c) \in Seq(S)
         /\ Append(g, Head(c)) \in Seq(S)
         /\ Append(g, Head(c)) \o Tail(c) = g \o c
  OBVIOUS

\* Appending an event adds it to the events of a sequence and moves none.
LEMMA AppendEvent ==
  ASSUME NEW S, NEW q \in Seq(S), NEW e \in S
  PROVE  /\ EventsOf(Append(q, e)) = EventsOf(q) \cup {e}
         /\ DOMAIN Append(q, e) = DOMAIN q \cup {Len(q) + 1}
         /\ \A i \in DOMAIN q : Append(q, e)[i] = q[i] /\ i < Len(q) + 1 /\ i \in Nat
         /\ Append(q, e)[Len(q) + 1] = e
         /\ Len(Append(q, e)) = Len(q) + 1
         /\ Len(q) \in Nat
  BY DEF EventsOf

-----------------------------------------------------------------------------
(* The event bus: every step keeps the invariant.                          *)

\* A new bus has no subscriptions and nothing under way.
LEMMA BusStart == New => BusInv
<1> SUFFICES ASSUME New PROVE BusInv
  OBVIOUS
<1>1. /\ \A p \in Publishers : pub[p] = Idle /\ sent[p] = <<>>
      /\ \A s \in Subscriptions : ch[s] = <<>> /\ got[s] = <<>> /\ lost[s] = {} /\ due[s] = {}
      /\ \A s \in Subscriptions : dropCnt[s] = 0
  BY Zenon DEF New
<1>2. \A p \in Publishers : pub[p].pc = "idle" /\ pub[p].todo = {}
  BY <1>1 DEF Idle
<1>3. <<>> \in Seq(Events) /\ DOMAIN <<>> = {} /\ <<>> \o <<>> = <<>>
  OBVIOUS
<1>4. \A s \in Subscriptions : Stream(s) = <<>> /\ EventsOf(Stream(s)) = {}
  BY Zenon, <1>1, <1>3 DEF Stream, EventsOf
<1>5. BusTypes
  <2>1. IsFiniteSet({})
    BY FS_EmptySet
  <2>2. /\ ch \in [Subscriptions -> Seq(Events)] /\ got \in [Subscriptions -> Seq(Events)]
        /\ sent \in [Publishers -> Seq(Events)]
        /\ dropCnt \in [Subscriptions -> Nat]
    BY <1>3 DEF New
  <2>3. /\ subs \subseteq created /\ created \subseteq Subscriptions
        /\ DOMAIN chClosed = Subscriptions
        /\ DOMAIN due = Subscriptions /\ DOMAIN lost = Subscriptions
    BY Zenon DEF New
  <2> QED
    BY Zenon, <1>1, <2>1, <2>2, <2>3 DEF BusTypes
<1>a. PubTypes
  BY Zenon, <1>2 DEF New, PubTypes, PubSteps
<1>6. SentOnce /\ BusyWithLatest
  BY Zenon, <1>1, <1>2, <1>3 DEF SentOnce, BusyWithLatest
<1>7. DueIsSent
  BY Zenon, <1>1, <1>2, <1>4 DEF DueIsSent
<1>8. DropsCounted
  <2>1. \A s \in Subscriptions : lost[s] \ Uncounted(s) = {}
    BY Zenon, <1>1
  <2>2. Cardinality({}) = 0
    BY FS_EmptySet
  <2>3. \A s \in Subscriptions : dropCnt[s] = 0 /\ Cardinality(lost[s] \ Uncounted(s)) = 0
    BY Zenon, <1>1, <2>1, <2>2
  <2>4. \A s \in Subscriptions : dropCnt[s] <= Cardinality(lost[s] \ Uncounted(s))
    BY <2>3
  <2> QED
    BY Zenon, <1>2, <2>4 DEF DropsCounted
<1>9. RegisteredIsOpen /\ BornOpen
  BY Zenon DEF New, RegisteredIsOpen, BornOpen
<1>10. InPublishOrder
  BY Zenon, <1>3, <1>4 DEF InPublishOrder
<1>11. NothingVanishes
  <2>1. \A s \in Subscriptions : Coming(s) = {}
    BY Zenon, <1>2 DEF Coming
  <2> QED
    BY Zenon, <1>1, <1>4, <2>1 DEF NothingVanishes
<1> QED
  BY Zenon, <1>5, <1>a, <1>6, <1>7, <1>8, <1>9, <1>10, <1>11 DEF BusInv

\* Who published what depends on the histories of the publishers.
LEMMA SentFrame ==
  ASSUME SentOnce, UNCHANGED sent
  PROVE  SentOnce'
  BY DEF SentOnce

\* The order of the streams depends on them and on what was published.
LEMMA OrderFrame ==
  ASSUME InPublishOrder, UNCHANGED sent, \A s \in Subscriptions : Stream(s)' = Stream(s)
  PROVE  InPublishOrder'
<1> SUFFICES ASSUME NEW s \in Subscriptions, NEW p \in Publishers
             PROVE (\A i, j \in DOMAIN Stream(s) : \A k, l \in DOMAIN sent[p] :
                     (Stream(s)[i] = sent[p][k] /\ Stream(s)[j] = sent[p][l] /\ i < j) => k < l)'
  BY Zenon DEF InPublishOrder
<1>1. Stream(s)' = Stream(s) /\ sent' = sent
  OBVIOUS
<1> QED
  BY Zenon, <1>1 DEF InPublishOrder

\* Subscribers that come, receive and leave change neither the streams nor what
\* publishers do, and with them most of the invariant.
LEMMA BusFrame ==
  ASSUME BusInv, UNCHANGED <<pub, sent, due, lost, dropCnt>>,
         \A s \in Subscriptions : Stream(s)' = Stream(s)
  PROVE  PubTypes' /\ SentOnce' /\ BusyWithLatest' /\ DueIsSent' /\ DropsCounted'
         /\ InPublishOrder' /\ NothingVanishes'
<1>0. PubTypes'
  BY Zenon DEF BusInv, PubTypes
<1>1. SentOnce' /\ BusyWithLatest'
  BY Zenon, SentFrame DEF BusInv, BusyWithLatest
<1>2. DueIsSent'
  BY Zenon DEF BusInv, DueIsSent
<1>3. DropsCounted'
  BY Zenon DEF BusInv, DropsCounted, Uncounted, Slow
<1>4. InPublishOrder'
  BY Zenon, OrderFrame DEF BusInv
<1>5. NothingVanishes'
  BY Zenon DEF BusInv, NothingVanishes, Coming
<1> QED
  BY Zenon, <1>0, <1>1, <1>2, <1>3, <1>4, <1>5

\* A publisher that moves on with the rest of its list changes nothing about
\* what is due, lost or on its way.
LEMMA BusAdvance ==
  ASSUME BusInv, UNCHANGED <<sent, due, lost, got, ch>>,
         NEW p \in Publishers, pub[p].pc # "idle",
         \A q \in Publishers : q # p => pub'[q] = pub[q],
         pub'[p].todo = pub[p].todo,
         \/ pub'[p].pc = "idle" /\ pub[p].todo = {}
         \/ pub'[p].pc # "idle" /\ pub'[p].ev = pub[p].ev
  PROVE  SentOnce' /\ BusyWithLatest' /\ DueIsSent' /\ InPublishOrder' /\ NothingVanishes'
<1>0. \A s \in Subscriptions : Stream(s)' = Stream(s)
  BY Zenon DEF Stream
<1>1. SentOnce'
  BY Zenon, SentFrame DEF BusInv
<1>2. BusyWithLatest'
  BY Zenon DEF BusInv, BusyWithLatest
<1>3. DueIsSent'
  BY Zenon, <1>0 DEF BusInv, DueIsSent
<1>4. InPublishOrder'
  BY Zenon, <1>0, OrderFrame DEF BusInv
<1>5. NothingVanishes'
  <2>1. \A s \in Subscriptions : Coming(s)' = Coming(s)
    BY Zenon DEF Coming
  <2> QED
    BY Zenon, <1>0, <2>1 DEF BusInv, NothingVanishes
<1> QED
  BY Zenon, <1>1, <1>2, <1>3, <1>4, <1>5

\* A subscriber comes, leaves or takes an event, or the bus is closed.
LEMMA SubscriberBus ==
  ASSUME BusInv,
         \/ \E s \in Subscriptions :
              (\E f \in Filters : Subscribe(s, f)) \/ Receive(s) \/ CloseSubscription(s)
         \/ CloseBus
  PROVE  BusInv'
<1>0. BusTypes /\ BornOpen /\ RegisteredIsOpen
  BY Zenon DEF BusInv
<1>1. ASSUME NEW s \in Subscriptions, NEW f, Subscribe(s, f)
      PROVE  BusInv'
  <2>1. UNCHANGED <<ch, got, pub, sent, due, lost, dropCnt, busClosed>>
    BY Zenon, <1>1 DEF Subscribe
  <2>2. /\ s \notin created /\ created' = created \cup {s}
        /\ \/ busClosed /\ subs' = subs /\ chClosed' = [chClosed EXCEPT ![s] = TRUE]
           \/ ~busClosed /\ subs' = subs \cup {s} /\ chClosed' = chClosed
    BY Zenon, <1>1 DEF Subscribe
  <2>3. BusTypes'
    BY Zenon, <1>0, <2>1, <2>2 DEF BusTypes
  <2>4. BornOpen'
    BY Zenon, <1>0, <2>2 DEF BusTypes, BornOpen
  <2>5. RegisteredIsOpen'
    BY Zenon, <1>0, <2>1, <2>2 DEF BusTypes, BornOpen, RegisteredIsOpen
  <2>6. \A t \in Subscriptions : Stream(t)' = Stream(t)
    BY Zenon, <2>1 DEF Stream
  <2> QED
    BY Zenon, <2>1, <2>3, <2>4, <2>5, <2>6, BusFrame DEF BusInv
<1>2. ASSUME NEW s \in Subscriptions, Receive(s)
      PROVE  BusInv'
  <2>1. UNCHANGED <<subs, busClosed, chClosed, created, pub, sent, due, lost, dropCnt>>
    BY Zenon, <1>2 DEF Receive
  <2>2. got[s] \in Seq(Events) /\ ch[s] \in Seq(Events) /\ ch[s] # <<>>
    BY Zenon, <1>0, <1>2 DEF BusTypes, Receive
  <2>3. /\ Tail(ch[s]) \in Seq(Events) /\ Append(got[s], Head(ch[s])) \in Seq(Events)
        /\ Append(got[s], Head(ch[s])) \o Tail(ch[s]) = got[s] \o ch[s]
    BY Zenon, <2>2, StreamMoves
  <2>4. /\ got' = [got EXCEPT ![s] = Append(got[s], Head(ch[s]))]
        /\ ch' = [ch EXCEPT ![s] = Tail(ch[s])]
    BY Zenon, <1>2 DEF Receive
  <2>5. got' \in [Subscriptions -> Seq(Events)] /\ ch' \in [Subscriptions -> Seq(Events)]
    BY Zenon, <1>0, <2>3, <2>4 DEF BusTypes
  <2>6. \A t \in Subscriptions : Stream(t)' = Stream(t)
    BY Zenon, <1>0, <2>3, <2>4 DEF Stream, BusTypes
  <2>7. BusTypes'
    BY Zenon, <1>0, <2>1, <2>5 DEF BusTypes
  <2>8. BornOpen' /\ RegisteredIsOpen'
    BY Zenon, <1>0, <2>1 DEF BornOpen, RegisteredIsOpen
  <2> QED
    BY Zenon, <2>1, <2>6, <2>7, <2>8, BusFrame DEF BusInv
<1>3. ASSUME NEW s \in Subscriptions, CloseSubscription(s)
      PROVE  BusInv'
  <2>1. UNCHANGED <<ch, got, pub, sent, due, lost, dropCnt, busClosed, created>>
    BY Zenon, <1>3 DEF CloseSubscription
  <2>2. /\ subs' = subs \ {s}
        /\ \/ s \in subs /\ chClosed' = [chClosed EXCEPT ![s] = TRUE]
           \/ chClosed' = chClosed
    BY Zenon, <1>3 DEF CloseSubscription, disconnect
  <2>3. BusTypes'
    BY Zenon, <1>0, <2>1, <2>2 DEF BusTypes
  <2>a. subs \subseteq created /\ created \subseteq Subscriptions /\ DOMAIN chClosed = Subscriptions
    BY Zenon, <1>0 DEF BusTypes
  <2>b. \A t \in Subscriptions : chClosed'[t] => chClosed[t] \/ (t = s /\ s \in subs)
    BY Zenon, <2>2, <2>a
  <2>4. BornOpen' /\ RegisteredIsOpen'
    BY Zenon, <1>0, <2>1, <2>2, <2>a, <2>b DEF BornOpen, RegisteredIsOpen
  <2>5. \A t \in Subscriptions : Stream(t)' = Stream(t)
    BY Zenon, <2>1 DEF Stream
  <2> QED
    BY Zenon, <2>1, <2>3, <2>4, <2>5, BusFrame DEF BusInv
<1>4. ASSUME CloseBus
      PROVE  BusInv'
  <2>1. UNCHANGED <<ch, got, pub, sent, due, lost, dropCnt, created>>
    BY Zenon, <1>4 DEF CloseBus
  <2>2. subs' = {} /\ chClosed' = [s \in Subscriptions |-> chClosed[s] \/ s \in subs]
    BY Zenon, <1>4 DEF CloseBus
  <2>3. BusTypes'
    BY Zenon, <1>0, <2>1, <2>2 DEF BusTypes
  <2>4. BornOpen' /\ RegisteredIsOpen'
    BY Zenon, <1>0, <2>1, <2>2 DEF BusTypes, BornOpen, RegisteredIsOpen
  <2>5. \A t \in Subscriptions : Stream(t)' = Stream(t)
    BY Zenon, <2>1 DEF Stream
  <2> QED
    BY Zenon, <2>1, <2>3, <2>4, <2>5, BusFrame DEF BusInv
<1> QED
  BY Zenon, <1>1, <1>2, <1>3, <1>4

\* After one subscription comes the next on the list, or the end of Publish.
LEMMA NextSubIs ==
  ASSUME NEW p
  PROVE  \/ /\ pub[p].todo = {} /\ NextSub(p).todo = {} /\ NextSub(p).pc = "idle"
         \/ /\ NextSub(p).todo = pub[p].todo /\ NextSub(p).pc = "send"
            /\ NextSub(p).ev = pub[p].ev
  BY DEF NextSub, Idle

\* The part of the invariant that speaks of one publisher.
LEMMA PubFrame ==
  ASSUME PubTypes, NEW p \in Publishers,
         \A q \in Publishers : q # p => pub'[q] = pub[q], DOMAIN pub' = Publishers,
         pub'[p].todo \subseteq Subscriptions,
         \/ pub'[p].pc = "idle" /\ pub'[p].todo = {}
         \/ pub'[p].pc = "send" /\ pub'[p].ev \in Events
         \/ /\ pub'[p].pc \in PubSteps \ {"idle", "send"} /\ pub'[p].ev \in Events
            /\ pub'[p].sub \in Subscriptions
            /\ DOMAIN pub'[p] = {"pc", "todo", "ev", "sub"}
  PROVE  PubTypes'
<1>1. pub'[p].pc \in PubSteps
  BY Zenon DEF PubSteps
<1>2. /\ pub'[p].pc = "idle" => pub'[p].todo = {}
      /\ pub'[p].pc # "idle" => pub'[p].ev \in Events
      /\ pub'[p].pc \notin {"idle", "send"} =>
            pub'[p].sub \in Subscriptions /\ DOMAIN pub'[p] = {"pc", "todo", "ev", "sub"}
  BY Zenon
<1> QED
  BY Zenon, <1>1, <1>2 DEF PubTypes

\* The drop counter is compared with a finite set.
LEMMA LostIsFinite ==
  ASSUME BusTypes, NEW s \in Subscriptions, NEW U
  PROVE  IsFiniteSet(lost[s] \ U) /\ Cardinality(lost[s] \ U) \in Nat
<1>1. IsFiniteSet(lost[s]) /\ lost[s] \ U \in SUBSET lost[s]
  BY Zenon DEF BusTypes
<1>2. IsFiniteSet(lost[s] \ U)
  BY Zenon, <1>1, FS_Subset
<1> QED
  BY Zenon, <1>2, FS_CardinalityType

\* Only a publisher that enters or leaves recordDrop changes what it has to count.
LEMMA UncountedFrame ==
  ASSUME NEW p \in Publishers, \A q \in Publishers : q # p => pub'[q] = pub[q],
         pub[p].pc # "record", pub'[p].pc # "record", NEW s
  PROVE  Uncounted(s)' = Uncounted(s)
<1>1. \A q \in Publishers : pub'[q].pc = "record" \/ pub[q].pc = "record" => pub'[q] = pub[q]
  BY Zenon
<1>2. \A x : x \in Uncounted(s)' => x \in Uncounted(s)
  BY Zenon, <1>1 DEF Uncounted
<1>3. \A x : x \in Uncounted(s) => x \in Uncounted(s)'
  BY Zenon, <1>1 DEF Uncounted
<1> QED
  BY Zenon, <1>2, <1>3

\* A successful send resets the drop counter.
LEMMA ResetBus ==
  ASSUME BusInv, NEW p \in Publishers, resetDrops(p)
  PROVE  BusInv'
<1>0. BusTypes /\ PubTypes /\ DropsCounted
  BY Zenon DEF BusInv
<1>1. UNCHANGED <<subs, busClosed, ch, chClosed, created, sent, due, lost, got>>
  BY Zenon DEF resetDrops
<1>2. pub[p].pc = "reset" /\ pub[p].sub \in Subscriptions /\ pub[p].todo \subseteq Subscriptions
      /\ pub[p].ev \in Events
  BY Zenon, <1>0 DEF resetDrops, PubTypes
<1>3. /\ \A q \in Publishers : q # p => pub'[q] = pub[q]
      /\ DOMAIN pub' = Publishers /\ pub'[p] = NextSub(p)
  BY Zenon, <1>0 DEF resetDrops, PubTypes
<1>4. \/ pub'[p].pc = "idle" /\ pub[p].todo = {} /\ pub'[p].todo = {}
      \/ pub'[p].pc = "send" /\ pub'[p].todo = pub[p].todo /\ pub'[p].ev = pub[p].ev
  BY Zenon, <1>3, NextSubIs
<1>5. PubTypes'
  BY Zenon, <1>0, <1>2, <1>3, <1>4, PubFrame
<1>6. /\ dropCnt' \in [Subscriptions -> Nat] /\ dropCnt'[pub[p].sub] = 0
      /\ \A s \in Subscriptions : s # pub[p].sub => dropCnt'[s] = dropCnt[s]
  BY <1>0, <1>2 DEF resetDrops, BusTypes
<1>7. BusTypes'
  BY Zenon, <1>0, <1>1, <1>6 DEF BusTypes
<1>8. DropsCounted'
  <2>1. \A s \in Subscriptions : Uncounted(s)' = Uncounted(s)
    BY Zenon, <1>2, <1>3, <1>4, UncountedFrame
  <2>2. ASSUME NEW s \in Subscriptions
        PROVE  (dropCnt[s] <= Cardinality(lost[s] \ Uncounted(s)))'
    <3>1. Cardinality(lost[s] \ Uncounted(s)) \in Nat
      BY Zenon, <1>0, LostIsFinite
    <3>2. dropCnt'[s] = 0 \/ dropCnt'[s] <= Cardinality(lost[s] \ Uncounted(s))
      BY Zenon, <1>0, <1>6 DEF DropsCounted
    <3>3. dropCnt'[s] <= Cardinality(lost[s] \ Uncounted(s))
      BY <3>1, <3>2
    <3> QED
      BY Zenon, <1>1, <2>1, <3>3
  <2> QED
    BY Zenon, <1>0, <1>1, <1>3, <1>4, <2>2 DEF DropsCounted, Slow
<1>9. BornOpen' /\ RegisteredIsOpen'
  BY Zenon, <1>1 DEF BusInv, BornOpen, RegisteredIsOpen
<1> QED
  BY Zenon, <1>1, <1>2, <1>3, <1>4, <1>5, <1>7, <1>8, <1>9, BusAdvance DEF BusInv

\* Two publishers are never busy with the same event.
LEMMA EventsDiffer ==
  ASSUME SentOnce, BusyWithLatest, NEW p \in Publishers, NEW q \in Publishers, p # q,
         pub[p].pc # "idle", pub[q].pc # "idle"
  PROVE  pub[p].ev # pub[q].ev
<1>1. /\ Len(sent[q]) \in DOMAIN sent[q] /\ pub[q].ev = sent[q][Len(sent[q])]
      /\ Len(sent[p]) \in DOMAIN sent[p] /\ pub[p].ev = sent[p][Len(sent[p])]
  BY Zenon DEF BusyWithLatest
<1>2. sent[q][Len(sent[q])] # sent[p][Len(sent[p])]
  BY Zenon, <1>1 DEF SentOnce
<1> QED
  BY Zenon, <1>1, <1>2

\* recordDrop counts an event that was lost and had not been counted yet.
LEMMA RecordBus ==
  ASSUME BusInv, NEW p \in Publishers, recordDrop(p)
  PROVE  BusInv'
<1> DEFINE t == pub[p].sub
<1>0. BusTypes /\ PubTypes /\ DropsCounted /\ SentOnce /\ BusyWithLatest
  BY Zenon DEF BusInv
<1>1. UNCHANGED <<subs, busClosed, ch, chClosed, created, sent, due, lost, got>>
  BY Zenon DEF recordDrop
<1>2. /\ pub[p].pc = "record" /\ t \in Subscriptions /\ pub[p].todo \subseteq Subscriptions
      /\ pub[p].ev \in Events /\ DOMAIN pub[p] = {"pc", "todo", "ev", "sub"}
      /\ pub[p].ev \in lost[t]
  BY Zenon, <1>0 DEF recordDrop, PubTypes, DropsCounted
<1>3. /\ \A q \in Publishers : q # p => pub'[q] = pub[q]
      /\ DOMAIN pub' = Publishers /\ pub'[p] = [pub[p] EXCEPT !.pc = "check"]
  BY Zenon, <1>0 DEF recordDrop, PubTypes
<1>4. /\ pub'[p].pc = "check" /\ pub'[p].todo = pub[p].todo /\ pub'[p].ev = pub[p].ev
      /\ pub'[p].sub = t /\ DOMAIN pub'[p] = {"pc", "todo", "ev", "sub"}
  BY <1>2, <1>3
<1>5. PubTypes'
  <2>1. pub'[p].pc \in PubSteps \ {"idle", "send"}
    BY <1>4 DEF PubSteps
  <2> QED
    BY Zenon, <1>0, <1>2, <1>3, <1>4, <2>1, PubFrame
<1>6. /\ dropCnt' \in [Subscriptions -> Nat] /\ dropCnt'[t] = dropCnt[t] + 1
      /\ dropCnt[t] \in Nat
      /\ \A s \in Subscriptions : s # t => dropCnt'[s] = dropCnt[s]
  BY <1>0, <1>2 DEF recordDrop, BusTypes
<1>7. BusTypes'
  BY Zenon, <1>0, <1>1, <1>6 DEF BusTypes
<1>8. DropsCounted'
  <2>1. ASSUME NEW s \in Subscriptions
        PROVE  Uncounted(s)' \subseteq Uncounted(s)
    <3> SUFFICES ASSUME NEW q \in Publishers, pub'[q].pc = "record", pub'[q].sub = s
                 PROVE  pub'[q].ev \in Uncounted(s)
      BY Zenon DEF Uncounted
    <3>1. q # p
      BY Zenon, <1>4
    <3> QED
      BY Zenon, <1>3, <3>1 DEF Uncounted
  <2>2. pub[p].ev \in Uncounted(t)
    BY Zenon, <1>2 DEF Uncounted
  <2>3. ASSUME NEW s \in Subscriptions
        PROVE  pub[p].ev \notin Uncounted(s)'
    <3>1. SUFFICES ASSUME NEW q \in Publishers, pub'[q].pc = "record", pub'[q].ev = pub[p].ev
                   PROVE  FALSE
      BY Zenon DEF Uncounted
    <3>2. q # p
      BY Zenon, <3>1, <1>4
    <3>3. pub[q].pc = "record" /\ pub[q].ev = pub[p].ev
      BY Zenon, <3>1, <3>2, <1>3
    <3> QED
      BY Zenon, <1>0, <1>2, <3>2, <3>3, EventsDiffer
  <2>4. ASSUME NEW s \in Subscriptions
        PROVE  (dropCnt[s] <= Cardinality(lost[s] \ Uncounted(s)))'
    <3> DEFINE old == lost[s] \ Uncounted(s)
               new == lost[s] \ Uncounted(s)'
    <3>1. /\ IsFiniteSet(old) /\ Cardinality(old) \in Nat
          /\ IsFiniteSet(new) /\ Cardinality(new) \in Nat
      BY Zenon, <1>0, LostIsFinite
    <3>2. dropCnt[s] <= Cardinality(old) /\ dropCnt[s] \in Nat
      BY <1>0 DEF DropsCounted, BusTypes
    <3>3. CASE s # t
      <4>1. old \in SUBSET new
        BY Zenon, <2>1
      <4>2. Cardinality(old) <= Cardinality(new)
        BY Zenon, <3>1, <4>1, FS_Subset
      <4>3. dropCnt'[s] <= Cardinality(new)
        BY <1>6, <3>1, <3>2, <3>3, <4>2
      <4> QED
        BY Zenon, <1>1, <4>3
    <3>4. CASE s = t
      <4>1. pub[p].ev \notin old /\ old \cup {pub[p].ev} \in SUBSET new
        BY Zenon, <1>2, <2>1, <2>2, <2>3, <3>4
      <4>2. Cardinality(old \cup {pub[p].ev}) = Cardinality(old) + 1
        BY <3>1, <4>1, FS_AddElement
      <4>3. Cardinality(old \cup {pub[p].ev}) <= Cardinality(new)
        BY Zenon, <3>1, <4>1, FS_Subset
      <4>4. dropCnt'[s] <= Cardinality(new)
        BY <1>6, <3>1, <3>2, <3>4, <4>2, <4>3
      <4> QED
        BY Zenon, <1>1, <4>4
    <3> QED
      BY Zenon, <3>3, <3>4
  <2> QED
    BY Zenon, <1>0, <1>1, <1>3, <1>4, <2>4 DEF DropsCounted, Slow
<1>9. BornOpen' /\ RegisteredIsOpen'
  BY Zenon, <1>1 DEF BusInv, BornOpen, RegisteredIsOpen
<1>10. SentOnce' /\ BusyWithLatest' /\ DueIsSent' /\ InPublishOrder' /\ NothingVanishes'
  <2>1. pub[p].pc # "idle" /\ pub'[p].pc # "idle" /\ UNCHANGED <<sent, due, lost, got, ch>>
    BY Zenon, <1>1, <1>2, <1>4
  <2> QED
    BY Zenon, <1>3, <1>4, <2>1, BusAdvance
<1> QED
  BY Zenon, <1>5, <1>7, <1>8, <1>9, <1>10 DEF BusInv

\* After the count a subscription that missed too many events is cut off.
LEMMA CheckBus ==
  ASSUME BusInv, NEW p \in Publishers, CheckDrops(p)
  PROVE  BusInv'
<1> DEFINE t == pub[p].sub
<1>0. BusTypes /\ PubTypes /\ DropsCounted
  BY Zenon DEF BusInv
<1>1. UNCHANGED <<subs, busClosed, ch, chClosed, dropCnt, created, sent, due, lost, got>>
  BY Zenon DEF CheckDrops
<1>2. /\ pub[p].pc = "check" /\ t \in Subscriptions /\ pub[p].todo \subseteq Subscriptions
      /\ pub[p].ev \in Events /\ DOMAIN pub[p] = {"pc", "todo", "ev", "sub"}
  BY Zenon, <1>0 DEF CheckDrops, PubTypes
<1>3. /\ \A q \in Publishers : q # p => pub'[q] = pub[q]
      /\ DOMAIN pub' = Publishers
      /\ \/ TooSlow(t) /\ pub'[p] = [pub[p] EXCEPT !.pc = "disconnect"]
         \/ pub'[p] = NextSub(p)
  BY Zenon, <1>0 DEF CheckDrops, PubTypes
<1>4. \/ /\ TooSlow(t) /\ pub'[p].pc = "disconnect" /\ pub'[p].todo = pub[p].todo
         /\ pub'[p].ev = pub[p].ev /\ pub'[p].sub = t
         /\ DOMAIN pub'[p] = {"pc", "todo", "ev", "sub"}
      \/ pub'[p].pc = "idle" /\ pub[p].todo = {} /\ pub'[p].todo = {}
      \/ pub'[p].pc = "send" /\ pub'[p].todo = pub[p].todo /\ pub'[p].ev = pub[p].ev
  <2>1. CASE TooSlow(t) /\ pub'[p] = [pub[p] EXCEPT !.pc = "disconnect"]
    BY <1>2, <2>1
  <2> QED
    BY Zenon, <1>3, <2>1, NextSubIs
<1>5. PubTypes'
  <2>1. "disconnect" \in PubSteps \ {"idle", "send"}
    BY DEF PubSteps
  <2> QED
    BY Zenon, <1>0, <1>2, <1>3, <1>4, <2>1, PubFrame
<1>7. BusTypes'
  BY Zenon, <1>0, <1>1 DEF BusTypes
<1>8. DropsCounted'
  <2>1. \A s \in Subscriptions : Uncounted(s)' = Uncounted(s)
    BY Zenon, <1>2, <1>3, <1>4, UncountedFrame
  <2>2. TooSlow(t) => Slow(t)
    <3>1. lost[t] \ {} = lost[t] /\ lost[t] \ Uncounted(t) \in SUBSET lost[t]
      BY Zenon
    <3>2. IsFiniteSet(lost[t]) /\ Cardinality(lost[t]) \in Nat
      BY Zenon, <1>0, <1>2, <3>1, LostIsFinite
    <3>3. Cardinality(lost[t] \ Uncounted(t)) <= Cardinality(lost[t])
      BY Zenon, <3>1, <3>2, FS_Subset
    <3>4. /\ Cardinality(lost[t] \ Uncounted(t)) \in Nat
          /\ dropCnt[t] <= Cardinality(lost[t] \ Uncounted(t))
      BY Zenon, <1>0, <1>2, LostIsFinite DEF DropsCounted
    <3>5. dropCnt[t] \in Nat
      BY <1>0, <1>2 DEF BusTypes
    <3> QED
      BY <3>2, <3>3, <3>4, <3>5, BusAssumption DEF TooSlow, Slow
  <2> QED
    BY Zenon, <1>0, <1>1, <1>3, <1>4, <2>1, <2>2 DEF DropsCounted, Slow
<1>9. BornOpen' /\ RegisteredIsOpen'
  BY Zenon, <1>1 DEF BusInv, BornOpen, RegisteredIsOpen
<1>10. SentOnce' /\ BusyWithLatest' /\ DueIsSent' /\ InPublishOrder' /\ NothingVanishes'
  <2>1. pub[p].pc # "idle" /\ UNCHANGED <<sent, due, lost, got, ch>>
    BY Zenon, <1>1, <1>2
  <2> QED
    BY Zenon, <1>3, <1>4, <2>1, BusAdvance
<1> QED
  BY Zenon, <1>5, <1>7, <1>8, <1>9, <1>10 DEF BusInv

\* Publish cuts off a slow subscription, unless it has left already.
LEMMA DisconnectBus ==
  ASSUME BusInv, NEW p \in Publishers, DisconnectSlow(p)
  PROVE  BusInv'
<1> DEFINE t == pub[p].sub
<1>0. BusTypes /\ PubTypes /\ DropsCounted /\ BornOpen /\ RegisteredIsOpen
  BY Zenon DEF BusInv
<1>1. UNCHANGED <<busClosed, ch, dropCnt, created, sent, due, lost, got>>
  BY Zenon DEF DisconnectSlow
<1>2. /\ pub[p].pc = "disconnect" /\ t \in Subscriptions /\ pub[p].todo \subseteq Subscriptions
      /\ pub[p].ev \in Events
  BY Zenon, <1>0 DEF DisconnectSlow, PubTypes
<1>3. /\ \A q \in Publishers : q # p => pub'[q] = pub[q]
      /\ DOMAIN pub' = Publishers /\ pub'[p] = NextSub(p)
  BY Zenon, <1>0 DEF DisconnectSlow, PubTypes
<1>4. \/ pub'[p].pc = "idle" /\ pub[p].todo = {} /\ pub'[p].todo = {}
      \/ pub'[p].pc = "send" /\ pub'[p].todo = pub[p].todo /\ pub'[p].ev = pub[p].ev
  BY Zenon, <1>3, NextSubIs
<1>5. PubTypes'
  BY Zenon, <1>0, <1>2, <1>3, <1>4, PubFrame
<1>6. /\ subs' = subs \ {t}
      /\ \/ t \in subs /\ chClosed' = [chClosed EXCEPT ![t] = TRUE]
         \/ chClosed' = chClosed
  BY Zenon DEF DisconnectSlow, disconnect
<1>7. BusTypes'
  BY Zenon, <1>0, <1>1, <1>6 DEF BusTypes
<1>8. DropsCounted'
  <2>1. \A s \in Subscriptions : Uncounted(s)' = Uncounted(s)
    BY Zenon, <1>2, <1>3, <1>4, UncountedFrame
  <2> QED
    BY Zenon, <1>0, <1>1, <1>3, <1>4, <2>1 DEF DropsCounted, Slow
<1>9. BornOpen' /\ RegisteredIsOpen'
  <2>1. subs \subseteq created /\ created \subseteq Subscriptions /\ DOMAIN chClosed = Subscriptions
    BY Zenon, <1>0 DEF BusTypes
  <2>2. \A s \in Subscriptions : chClosed'[s] => chClosed[s] \/ (s = t /\ t \in subs)
    BY Zenon, <1>6, <2>1
  <2> QED
    BY Zenon, <1>0, <1>1, <1>6, <2>1, <2>2 DEF BornOpen, RegisteredIsOpen
<1>10. SentOnce' /\ BusyWithLatest' /\ DueIsSent' /\ InPublishOrder' /\ NothingVanishes'
  <2>1. pub[p].pc # "idle" /\ UNCHANGED <<sent, due, lost, got, ch>>
    BY Zenon, <1>1, <1>2
  <2> QED
    BY Zenon, <1>3, <1>4, <2>1, BusAdvance
<1> QED
  BY Zenon, <1>5, <1>7, <1>8, <1>9, <1>10 DEF BusInv

\* Publish takes a new event and the list of those it is due to; nobody has
\* seen the event yet.
LEMMA PublishBus ==
  ASSUME BusInv, NEW p \in Publishers, NEW e \in Events, Unpublished(e), Publish(p, e)
  PROVE  BusInv'
<1>0. BusTypes /\ PubTypes /\ SentOnce /\ BusyWithLatest /\ DueIsSent /\ NothingVanishes
  BY Zenon DEF BusInv
<1>1. UNCHANGED <<subs, busClosed, ch, chClosed, dropCnt, created, lost, got>>
  BY Zenon DEF Publish
<1>2. pub[p].pc = "idle" /\ pub[p].todo = {}
  BY Zenon, <1>0 DEF PubTypes, Publish
<1>3. PICK T \in SUBSET subs :
        /\ \A q \in Publishers : q # p => pub'[q] = pub[q]
        /\ DOMAIN pub' = Publishers /\ DOMAIN due' = Subscriptions
        /\ pub'[p].todo = T
        /\ (pub'[p].pc = "idle" /\ T = {}) \/ (pub'[p].pc = "send" /\ pub'[p].ev = e)
        /\ \A s \in Subscriptions : due'[s] = due[s] \cup IF s \in T THEN {e} ELSE {}
  <2> DEFINE todo == {s \in subs : Matches(filter[s], e)}
  <2>1. CASE UNCHANGED <<pub, due>>
    <3>1. {} \in SUBSET subs /\ \A s : s \notin {}
      BY Zenon
    <3>2. \A s \in Subscriptions : due'[s] = due[s] \cup IF s \in {} THEN {e} ELSE {}
      BY Zenon, <2>1
    <3>3. DOMAIN pub' = Publishers /\ DOMAIN due' = Subscriptions
      BY Zenon, <1>0, <2>1 DEF PubTypes, BusTypes
    <3>4. pub'[p].todo = {} /\ pub'[p].pc = "idle" /\ \A q \in Publishers : q # p => pub'[q] = pub[q]
      BY Zenon, <1>2, <2>1
    <3> WITNESS {} \in SUBSET subs
    <3> QED
      BY Zenon, <3>2, <3>3, <3>4
  <2>2. CASE /\ pub' = [pub EXCEPT ![p] = [pc |-> "send", todo |-> todo, ev |-> e]]
             /\ due' = [s \in Subscriptions |-> due[s] \cup IF s \in todo THEN {e} ELSE {}]
    <3> HIDE DEF todo
    <3>1. /\ \A q \in Publishers : q # p => pub'[q] = pub[q]
          /\ DOMAIN pub' = Publishers
          /\ pub'[p].pc = "send" /\ pub'[p].todo = todo /\ pub'[p].ev = e
      BY <1>0, <2>2 DEF PubTypes
    <3>2. DOMAIN due' = Subscriptions
      BY Zenon, <2>2
    <3>3. \A s \in Subscriptions : due'[s] = due[s] \cup IF s \in todo THEN {e} ELSE {}
      BY Zenon, <2>2
    <3>4. todo \in SUBSET subs
      BY Zenon DEF todo
    <3> QED
      BY Zenon, <3>1, <3>2, <3>3, <3>4
  <2>3. \/ UNCHANGED <<pub, due>>
        \/ /\ pub' = [pub EXCEPT ![p] = [pc |-> "send", todo |-> todo, ev |-> e]]
           /\ due' = [s \in Subscriptions |-> due[s] \cup IF s \in todo THEN {e} ELSE {}]
    BY Zenon DEF Publish
  <2> QED
    BY Zenon, <2>1, <2>2, <2>3
<1>4. sent[p] \in Seq(Events) /\ T \subseteq Subscriptions
  BY Zenon, <1>0 DEF BusTypes
<1>5. /\ sent' \in [Publishers -> Seq(Events)]
      /\ sent'[p] = Append(sent[p], e)
      /\ \A q \in Publishers : q # p => sent'[q] = sent[q]
  BY <1>0 DEF Publish, BusTypes
<1>6. /\ EventsOf(sent'[p]) = EventsOf(sent[p]) \cup {e}
      /\ DOMAIN sent'[p] = DOMAIN sent[p] \cup {Len(sent[p]) + 1}
      /\ \A i \in DOMAIN sent[p] : sent'[p][i] = sent[p][i]
      /\ sent'[p][Len(sent[p]) + 1] = e /\ Len(sent'[p]) = Len(sent[p]) + 1
  BY <1>4, <1>5, AppendEvent
<1>7. \A q \in Publishers : \A k \in DOMAIN sent'[q] :
        \/ k \in DOMAIN sent[q] /\ sent'[q][k] = sent[q][k]
        \/ q = p /\ k = Len(sent[p]) + 1 /\ sent'[q][k] = e
  BY Zenon, <1>5, <1>6
<1>8. \A q \in Publishers : \A k \in DOMAIN sent[q] : sent[q][k] # e
  BY Zenon DEF Unpublished, EventsOf
<1>9. \A s \in Subscriptions : e \notin due[s]
  BY Zenon, <1>0 DEF DueIsSent, Unpublished
<1>10. \A s \in Subscriptions : e \notin EventsOf(Stream(s)) \cup lost[s]
  BY Zenon, <1>0, <1>9 DEF NothingVanishes
<1>11. \A s \in Subscriptions : Stream(s)' = Stream(s) /\ EventsOf(Stream(s))' = EventsOf(Stream(s))
  BY Zenon, <1>1 DEF Stream, EventsOf
<1>12. BusTypes'
  BY Zenon, <1>0, <1>1, <1>3, <1>5 DEF BusTypes
<1>13. PubTypes'
  BY Zenon, <1>0, <1>3, <1>4, PubFrame
<1>14. SentOnce'
  <2> SUFFICES ASSUME NEW q \in Publishers, NEW r \in Publishers,
                      NEW k \in DOMAIN sent'[q], NEW l \in DOMAIN sent'[r],
                      sent'[q][k] = sent'[r][l]
               PROVE  q = r /\ k = l
    BY Zenon DEF SentOnce
  <2>1. CASE k \in DOMAIN sent[q] /\ sent'[q][k] = sent[q][k]
    <3>1. l \in DOMAIN sent[r] /\ sent'[r][l] = sent[r][l]
      BY Zenon, <1>7, <1>8, <2>1
    <3>2. sent[q][k] = sent[r][l]
      BY Zenon, <2>1, <3>1
    <3> QED
      BY <1>0, <2>1, <3>1, <3>2 DEF SentOnce
  <2>2. CASE q = p /\ k = Len(sent[p]) + 1 /\ sent'[q][k] = e
    BY Zenon, <1>7, <1>8, <2>2
  <2> QED
    BY Zenon, <1>7, <2>1, <2>2
<1>15. BusyWithLatest'
  <2>1. Len(sent'[p]) \in DOMAIN sent'[p] /\ sent'[p][Len(sent'[p])] = e
    BY Zenon, <1>6
  <2>2. pub'[p].pc # "idle" => pub'[p].ev = e
    BY Zenon, <1>3
  <2> QED
    BY Zenon, <1>0, <1>3, <1>5, <2>1, <2>2 DEF BusyWithLatest
<1>16. DueIsSent'
  <2>1. \A q \in Publishers : EventsOf(sent[q]) \subseteq EventsOf(sent'[q])
    BY Zenon, <1>5, <1>6
  <2>2. \A s \in Subscriptions : \A x \in due'[s] : \E q \in Publishers : x \in EventsOf(sent'[q])
    <3> SUFFICES ASSUME NEW s \in Subscriptions, NEW x \in due'[s]
                 PROVE  \E q \in Publishers : x \in EventsOf(sent'[q])
      BY Zenon
    <3>1. x \in due[s] \/ x = e
      BY ZenonT(30), <1>3
    <3> QED
      BY Zenon, <1>0, <1>6, <2>1, <3>1 DEF DueIsSent
  <2>3. ASSUME NEW s \in Subscriptions, NEW q \in Publishers, s \in pub'[q].todo
        PROVE  pub'[q].ev \notin EventsOf(Stream(s)) \cup lost[s]
    <3>1. CASE q = p
      BY Zenon, <1>3, <1>10, <2>3, <3>1
    <3>2. CASE q # p
      BY Zenon, <1>0, <1>3, <2>3, <3>2 DEF DueIsSent
    <3> QED
      BY Zenon, <3>1, <3>2
  <2> QED
    BY Zenon, <1>1, <1>11, <2>2, <2>3 DEF DueIsSent, EventsOf
<1>17. DropsCounted'
  <2>1. \A s \in Subscriptions : Uncounted(s)' = Uncounted(s)
    BY Zenon, <1>2, <1>3, UncountedFrame
  <2> QED
    BY Zenon, <1>1, <1>3, <2>1 DEF BusInv, DropsCounted, Slow
<1>18. BornOpen' /\ RegisteredIsOpen'
  BY Zenon, <1>1 DEF BusInv, BornOpen, RegisteredIsOpen
<1>19. InPublishOrder'
  <2> SUFFICES ASSUME NEW s \in Subscriptions, NEW q \in Publishers,
                      NEW i \in DOMAIN Stream(s), NEW j \in DOMAIN Stream(s),
                      NEW k \in DOMAIN sent'[q], NEW l \in DOMAIN sent'[q],
                      Stream(s)[i] = sent'[q][k], Stream(s)[j] = sent'[q][l], i < j
               PROVE  k < l
    BY Zenon, <1>11 DEF InPublishOrder
  <2>1. Stream(s)[i] # e /\ Stream(s)[j] # e
    BY Zenon, <1>10 DEF EventsOf
  <2>2. k \in DOMAIN sent[q] /\ l \in DOMAIN sent[q]
        /\ Stream(s)[i] = sent[q][k] /\ Stream(s)[j] = sent[q][l]
    BY Zenon, <1>7, <2>1
  <2> QED
    BY Zenon, <2>2 DEF BusInv, InPublishOrder
<1>20. NothingVanishes'
  <2>1. ASSUME NEW s \in Subscriptions
        PROVE  Coming(s)' = Coming(s) \cup IF s \in T THEN {e} ELSE {}
    <3>1. ASSUME NEW q \in Publishers, pub'[q].pc # "idle", s \in pub'[q].todo
          PROVE  pub'[q].ev \in Coming(s) \cup IF s \in T THEN {e} ELSE {}
      <4>1. CASE q = p
        BY Zenon, <1>3, <3>1, <4>1
      <4>2. CASE q # p
        BY Zenon, <1>3, <3>1, <4>2 DEF Coming
      <4> QED
        BY Zenon, <4>1, <4>2
    <3>2. ASSUME NEW q \in Publishers, pub[q].pc # "idle", s \in pub[q].todo
          PROVE  pub[q].ev \in Coming(s)'
      <4>1. q # p /\ pub'[q] = pub[q]
        BY Zenon, <1>2, <1>3, <3>2
      <4> QED
        BY Zenon, <3>2, <4>1 DEF Coming
    <3>4. \A x \in Coming(s)' : x \in Coming(s) \cup IF s \in T THEN {e} ELSE {}
      BY Zenon, <3>1 DEF Coming
    <3>5. \A x \in Coming(s) : x \in Coming(s)'
      BY Zenon, <3>2 DEF Coming
    <3>3. s \in T => e \in Coming(s)'
      BY Zenon, <1>3 DEF Coming
    <3> QED
      BY Zenon, <3>3, <3>4, <3>5
  <2> QED
    BY Zenon, <1>0, <1>1, <1>3, <1>11, <2>1 DEF NothingVanishes
<1> QED
  BY Zenon, <1>12, <1>13, <1>14, <1>15, <1>16, <1>17, <1>18, <1>19, <1>20 DEF BusInv

\* A send, whether it succeeds or not, takes its subscription off the list.
LEMMA ComingSent ==
  ASSUME NEW p \in Publishers, \A q \in Publishers : q # p => pub'[q] = pub[q],
         pub[p].pc # "idle", pub'[p].pc # "idle", pub'[p].ev = pub[p].ev,
         NEW s \in pub[p].todo, pub'[p].todo = pub[p].todo \ {s}
  PROVE  /\ Coming(s) = Coming(s)' \cup {pub[p].ev}
         /\ \A t : t # s => Coming(t)' = Coming(t)
<1>1. ASSUME NEW t, NEW q \in Publishers, pub'[q].pc # "idle", t \in pub'[q].todo
      PROVE  pub'[q].ev \in Coming(t)
  <2>1. pub[q].pc # "idle" /\ t \in pub[q].todo /\ pub'[q].ev = pub[q].ev
    BY Zenon, <1>1
  <2> QED
    BY Zenon, <2>1 DEF Coming
<1>2. ASSUME NEW t, NEW q \in Publishers, pub[q].pc # "idle", t \in pub[q].todo, t # s \/ q # p
      PROVE  pub[q].ev \in Coming(t)'
  <2>1. pub'[q].pc # "idle" /\ t \in pub'[q].todo /\ pub'[q].ev = pub[q].ev
    BY Zenon, <1>2
  <2> QED
    BY Zenon, <2>1 DEF Coming
<1>3. \A t : \A x \in Coming(t)' : x \in Coming(t)
  BY Zenon, <1>1 DEF Coming
<1>4. pub[p].ev \in Coming(s)
  BY Zenon DEF Coming
<1>5. \A x \in Coming(s) : x = pub[p].ev \/ x \in Coming(s)'
  BY Zenon, <1>2 DEF Coming
<1>6. \A t : t # s => \A x \in Coming(t) : x \in Coming(t)'
  BY Zenon, <1>2 DEF Coming
<1>7. Coming(s) = Coming(s)' \cup {pub[p].ev}
  BY Zenon, <1>3, <1>4, <1>5
<1>8. ASSUME NEW t, t # s
      PROVE  Coming(t)' = Coming(t)
  <2>1. (\A x \in Coming(t)' : x \in Coming(t)) /\ (\A x \in Coming(t) : x \in Coming(t)')
    BY Zenon, <1>3, <1>6, <1>8
  <2> QED
    BY Zenon, <2>1
<1> QED
  BY Zenon, <1>7, <1>8

\* A publisher offers its event to the next subscription, whose channel takes
\* it, is full, or is closed.
LEMMA SendBus ==
  ASSUME BusInv, NEW p \in Publishers, NEW s \in Subscriptions, Send(p, s)
  PROVE  BusInv'
<1> DEFINE e == pub[p].ev
<1>0. /\ BusTypes /\ PubTypes /\ SentOnce /\ BusyWithLatest /\ DueIsSent /\ DropsCounted
      /\ InPublishOrder /\ NothingVanishes
  BY Zenon DEF BusInv
<1>1. UNCHANGED <<subs, busClosed, chClosed, dropCnt, created, sent, due, got>>
  BY Zenon DEF Send
<1>2. /\ pub[p].pc = "send" /\ s \in pub[p].todo /\ pub[p].todo \subseteq Subscriptions
      /\ e \in Events
  BY Zenon, <1>0 DEF Send, PubTypes
<1>3. e \notin EventsOf(Stream(s)) \cup lost[s]
  BY Zenon, <1>0, <1>2 DEF DueIsSent
<1>4. ASSUME NEW q \in Publishers, q # p, s \in pub[q].todo
      PROVE  pub[q].ev # e
  <2>1. pub[q].pc # "idle"
    BY Zenon, <1>0, <1>4 DEF PubTypes
  <2> QED
    BY Zenon, <1>0, <1>2, <1>4, <2>1, EventsDiffer
<1>5. BornOpen' /\ RegisteredIsOpen' /\ SentOnce'
  BY Zenon, <1>1, SentFrame DEF BusInv, BornOpen, RegisteredIsOpen
<1>6. ASSUME NEW pc \in {"reset", "record"}, pub' = [pub EXCEPT ![p] = At(p, s, pc)]
      PROVE  /\ \A q \in Publishers : q # p => pub'[q] = pub[q]
             /\ pub'[p].pc = pc /\ pub'[p].ev = e /\ pub'[p].todo = pub[p].todo \ {s}
             /\ pub'[p].sub = s
             /\ PubTypes' /\ BusyWithLatest'
             /\ Coming(s) = Coming(s)' \cup {e}
             /\ \A t \in Subscriptions : t # s => Coming(t)' = Coming(t)
  <2>1. /\ \A q \in Publishers : q # p => pub'[q] = pub[q]
        /\ DOMAIN pub' = Publishers /\ pub'[p] = At(p, s, pc)
    BY Zenon, <1>0, <1>6 DEF PubTypes
  <2>2. /\ pub'[p].pc = pc /\ pub'[p].ev = e /\ pub'[p].todo = pub[p].todo \ {s}
        /\ pub'[p].sub = s /\ DOMAIN pub'[p] = {"pc", "todo", "ev", "sub"}
    BY <2>1 DEF At
  <2>3. pc \in PubSteps \ {"idle", "send"} /\ pc # "idle"
    BY <1>6 DEF PubSteps
  <2>4. PubTypes'
    BY Zenon, <1>0, <1>2, <2>1, <2>2, <2>3, PubFrame
  <2>5. BusyWithLatest'
    BY Zenon, <1>0, <1>1, <1>2, <2>1, <2>2 DEF BusyWithLatest
  <2>6. /\ Coming(s) = Coming(s)' \cup {e}
        /\ \A t \in Subscriptions : t # s => Coming(t)' = Coming(t)
    <3>1. pub[p].pc # "idle" /\ pub'[p].pc # "idle"
      BY Zenon, <1>2, <2>2, <2>3
    <3>2. /\ Coming(s) = Coming(s)' \cup {pub[p].ev}
          /\ \A t : t # s => Coming(t)' = Coming(t)
      BY Zenon, <1>2, <2>1, <2>2, <3>1, ComingSent
    <3> QED
      BY Zenon, <3>2
  <2> QED
    BY Zenon, <2>1, <2>2, <2>4, <2>5, <2>6
<1>7. CASE UNCHANGED <<ch, pub, lost>>
  <2>1. BusTypes'
    BY Zenon, <1>0, <1>1, <1>7 DEF BusTypes
  <2>2. \A t \in Subscriptions : Stream(t)' = Stream(t)
    BY Zenon, <1>1, <1>7 DEF Stream
  <2>3. UNCHANGED <<pub, sent, due, lost, dropCnt>>
    BY Zenon, <1>1, <1>7
  <2> QED
    BY Zenon, <1>5, <2>1, <2>2, <2>3, BusFrame DEF BusInv
<1>8. CASE /\ ch' = [ch EXCEPT ![s] = Append(@, pub[p].ev)]
           /\ pub' = [pub EXCEPT ![p] = At(p, s, "reset")] /\ UNCHANGED lost
  <2>1. /\ \A q \in Publishers : q # p => pub'[q] = pub[q]
        /\ pub'[p].pc = "reset" /\ pub'[p].ev = e /\ pub'[p].todo = pub[p].todo \ {s}
        /\ PubTypes' /\ BusyWithLatest'
        /\ Coming(s) = Coming(s)' \cup {e}
        /\ \A t \in Subscriptions : t # s => Coming(t)' = Coming(t)
    BY Zenon, <1>6, <1>8
  <2>2. got[s] \in Seq(Events) /\ ch[s] \in Seq(Events)
    BY Zenon, <1>0 DEF BusTypes
  <2>3. /\ Append(ch[s], e) \in Seq(Events) /\ got[s] \o ch[s] \in Seq(Events)
        /\ got[s] \o Append(ch[s], e) = Append(got[s] \o ch[s], e)
    <3> DEFINE g == got[s]
               c == ch[s]
    <3> HIDE DEF e, g, c
    <3>1. e \in Events /\ g \in Seq(Events) /\ c \in Seq(Events)
      BY Zenon, <1>2, <2>2 DEF g, c
    <3>2. /\ Append(c, e) \in Seq(Events) /\ g \o c \in Seq(Events)
          /\ g \o Append(c, e) = Append(g \o c, e)
      BY <3>1, StreamGrows
    <3> QED
      BY Zenon, <3>2 DEF g, c
  <2>4. BusTypes'
    <3>1. ch' \in [Subscriptions -> Seq(Events)]
      BY Zenon, <1>0, <1>8, <2>3 DEF BusTypes
    <3> QED
      BY Zenon, <1>0, <1>1, <1>8, <3>1 DEF BusTypes
  <2>5. /\ Stream(s)' = Append(Stream(s), e) /\ Stream(s) \in Seq(Events)
        /\ \A t \in Subscriptions : t # s => Stream(t)' = Stream(t)
    BY Zenon, <1>0, <1>1, <1>8, <2>3 DEF Stream, BusTypes
  <2>6. /\ EventsOf(Stream(s)') = EventsOf(Stream(s)) \cup {e}
        /\ DOMAIN Stream(s)' = DOMAIN Stream(s) \cup {Len(Stream(s)) + 1}
        /\ \A i \in DOMAIN Stream(s) : /\ Stream(s)'[i] = Stream(s)[i]
                                       /\ i < Len(Stream(s)) + 1 /\ i \in Nat
        /\ Stream(s)'[Len(Stream(s)) + 1] = e /\ Len(Stream(s)) \in Nat
    BY <1>2, <2>5, AppendEvent
  <2>7. /\ EventsOf(Stream(s))' = EventsOf(Stream(s)) \cup {e}
        /\ \A t \in Subscriptions : t # s => EventsOf(Stream(t))' = EventsOf(Stream(t))
    <3>1. EventsOf(Stream(s))' = EventsOf(Stream(s)')
      BY DEF EventsOf
    <3>2. \A t \in Subscriptions : t # s => EventsOf(Stream(t))' = EventsOf(Stream(t))
      BY Zenon, <2>5 DEF EventsOf
    <3> QED
      BY Zenon, <2>6, <3>1, <3>2
  <2>8. DueIsSent'
    <3>1. ASSUME NEW t \in Subscriptions, NEW q \in Publishers, t \in pub'[q].todo
          PROVE  pub'[q].ev \notin EventsOf(Stream(t))' \cup lost[t]
      <4>1. t \in pub[q].todo /\ pub'[q].ev = pub[q].ev /\ (t = s => q # p)
        BY Zenon, <2>1, <3>1
      <4>2. pub[q].ev \notin EventsOf(Stream(t)) \cup lost[t]
        BY Zenon, <1>0, <4>1 DEF DueIsSent
      <4>3. CASE t = s
        BY Zenon, <1>4, <2>7, <4>1, <4>2, <4>3
      <4>4. CASE t # s
        BY Zenon, <2>7, <4>1, <4>2, <4>4
      <4> QED
        BY Zenon, <4>3, <4>4
    <3> QED
      BY Zenon, <1>0, <1>1, <1>8, <3>1 DEF DueIsSent
  <2>9. DropsCounted'
    <3>1. \A t \in Subscriptions : Uncounted(t)' = Uncounted(t)
      BY Zenon, <1>2, <2>1, UncountedFrame
    <3> QED
      BY Zenon, <1>0, <1>1, <1>8, <2>1, <3>1 DEF DropsCounted, Slow
  <2>10. InPublishOrder'
    <3> SUFFICES ASSUME NEW t \in Subscriptions, NEW q \in Publishers,
                        NEW i \in DOMAIN Stream(t)', NEW j \in DOMAIN Stream(t)',
                        NEW k \in DOMAIN sent[q], NEW l \in DOMAIN sent[q],
                        Stream(t)'[i] = sent[q][k], Stream(t)'[j] = sent[q][l], i < j
                 PROVE  k < l
      BY Zenon, <1>1 DEF InPublishOrder
    <3>1. CASE t # s
      BY Zenon, <1>0, <2>5, <3>1 DEF InPublishOrder
    <3>2. CASE t = s /\ j # Len(Stream(s)) + 1
      <4>1. j \in DOMAIN Stream(s) /\ Stream(s)[j] = sent[q][l]
        BY Zenon, <2>6, <3>2
      <4>2. i # Len(Stream(s)) + 1
        BY <2>6, <4>1
      <4>3. i \in DOMAIN Stream(s) /\ Stream(s)[i] = sent[q][k]
        BY Zenon, <2>6, <3>2, <4>2
      <4> QED
        BY Zenon, <1>0, <4>1, <4>3 DEF InPublishOrder
    <3>3. CASE t = s /\ j = Len(Stream(s)) + 1
      <4>1. sent[q][l] = e
        BY Zenon, <2>6, <3>3
      <4>2. Len(sent[p]) \in DOMAIN sent[p] /\ e = sent[p][Len(sent[p])]
        BY Zenon, <1>0, <1>2 DEF BusyWithLatest
      <4>3. q = p /\ l = Len(sent[p])
        BY <1>0, <4>1, <4>2 DEF SentOnce
      <4>4. i # j
        BY <2>6, <3>3
      <4>5. i \in DOMAIN Stream(s) /\ Stream(s)[i] = sent[q][k]
        BY Zenon, <2>6, <3>3, <4>4
      <4>6. k # l
        BY Zenon, <1>3, <4>1, <4>5 DEF EventsOf
      <4>7. sent[p] \in Seq(Events)
        BY Zenon, <1>0 DEF BusTypes
      <4> QED
        BY <4>3, <4>6, <4>7
    <3> QED
      BY Zenon, <3>1, <3>2, <3>3
  <2>11. NothingVanishes'
    <3>1. ASSUME NEW t \in Subscriptions
          PROVE  /\ due[t] = EventsOf(Stream(t))' \cup lost[t] \cup Coming(t)'
                 /\ EventsOf(Stream(t))' \cap lost[t] = {}
      <4>1. /\ due[t] = EventsOf(Stream(t)) \cup lost[t] \cup Coming(t)
            /\ EventsOf(Stream(t)) \cap lost[t] = {}
        BY Zenon, <1>0 DEF NothingVanishes
      <4>2. CASE t = s
        BY Zenon, <1>3, <2>1, <2>7, <4>1, <4>2
      <4>3. CASE t # s
        BY Zenon, <2>1, <2>7, <4>1, <4>3
      <4> QED
        BY Zenon, <4>2, <4>3
    <3> QED
      BY Zenon, <1>1, <1>8, <3>1 DEF NothingVanishes
  <2> QED
    BY Zenon, <1>5, <2>1, <2>4, <2>8, <2>9, <2>10, <2>11 DEF BusInv
<1>9. CASE /\ lost' = [lost EXCEPT ![s] = @ \cup {pub[p].ev}]
           /\ pub' = [pub EXCEPT ![p] = At(p, s, "record")] /\ UNCHANGED ch
  <2>1. /\ \A q \in Publishers : q # p => pub'[q] = pub[q]
        /\ pub'[p].pc = "record" /\ pub'[p].ev = e /\ pub'[p].todo = pub[p].todo \ {s}
        /\ pub'[p].sub = s
        /\ PubTypes' /\ BusyWithLatest'
        /\ Coming(s) = Coming(s)' \cup {e}
        /\ \A t \in Subscriptions : t # s => Coming(t)' = Coming(t)
    BY Zenon, <1>6, <1>9
  <2>2. /\ DOMAIN lost' = Subscriptions /\ lost'[s] = lost[s] \cup {e}
        /\ \A t \in Subscriptions : t # s => lost'[t] = lost[t]
    BY Zenon, <1>0, <1>9 DEF BusTypes
  <2>3. \A t \in Subscriptions : IsFiniteSet(lost'[t]) /\ lost[t] \in SUBSET lost'[t]
    <3>1. IsFiniteSet(lost[s] \cup {e}) /\ \A t \in Subscriptions : IsFiniteSet(lost[t])
      BY Zenon, <1>0, FS_AddElement DEF BusTypes
    <3> QED
      BY Zenon, <2>2, <3>1
  <2>4. BusTypes'
    BY Zenon, <1>0, <1>1, <1>9, <2>2, <2>3 DEF BusTypes
  <2>5. \A t \in Subscriptions : Stream(t)' = Stream(t) /\ EventsOf(Stream(t))' = EventsOf(Stream(t))
    BY Zenon, <1>1, <1>9 DEF Stream, EventsOf
  <2>6. InPublishOrder'
    BY Zenon, <1>0, <1>1, <2>5, OrderFrame
  <2>7. DueIsSent'
    <3>1. ASSUME NEW t \in Subscriptions, NEW q \in Publishers, t \in pub'[q].todo
          PROVE  pub'[q].ev \notin EventsOf(Stream(t)) \cup lost'[t]
      <4>1. t \in pub[q].todo /\ pub'[q].ev = pub[q].ev /\ (t = s => q # p)
        BY Zenon, <2>1, <3>1
      <4>2. pub[q].ev \notin EventsOf(Stream(t)) \cup lost[t]
        BY Zenon, <1>0, <4>1 DEF DueIsSent
      <4>3. CASE t = s
        BY Zenon, <1>4, <2>2, <4>1, <4>2, <4>3
      <4>4. CASE t # s
        BY Zenon, <2>2, <4>1, <4>2, <4>4
      <4> QED
        BY Zenon, <4>3, <4>4
    <3> QED
      BY Zenon, <1>0, <1>1, <2>5, <3>1 DEF DueIsSent
  <2>8. DropsCounted'
    <3>1. ASSUME NEW t \in Subscriptions
          PROVE  lost[t] \ Uncounted(t) \in SUBSET (lost'[t] \ Uncounted(t)')
      <4> SUFFICES ASSUME NEW x \in lost[t], x \notin Uncounted(t), x \in Uncounted(t)'
                   PROVE  FALSE
        BY Zenon, <2>3
      <4>1. PICK q \in Publishers : pub'[q].pc = "record" /\ pub'[q].sub = t /\ x = pub'[q].ev
        BY Zenon DEF Uncounted
      <4>2. CASE q = p
        BY Zenon, <1>3, <2>1, <4>1, <4>2
      <4>3. CASE q # p
        BY Zenon, <2>1, <4>1, <4>3 DEF Uncounted
      <4> QED
        BY Zenon, <4>2, <4>3
    <3>2. ASSUME NEW t \in Subscriptions
          PROVE  (dropCnt[t] <= Cardinality(lost[t] \ Uncounted(t)))'
      <4>1. lost'[t] \ Uncounted(t)' \in SUBSET lost'[t]
        BY Zenon
      <4>2. IsFiniteSet(lost'[t] \ Uncounted(t)')
        BY Zenon, <2>3, <4>1, FS_Subset
      <4>3. /\ Cardinality(lost[t] \ Uncounted(t)) <= Cardinality(lost'[t] \ Uncounted(t)')
            /\ Cardinality(lost'[t] \ Uncounted(t)') \in Nat
        BY Zenon, <3>1, <4>2, FS_Subset, FS_CardinalityType
      <4>4. Cardinality(lost[t] \ Uncounted(t)) \in Nat
        BY Zenon, <1>0, LostIsFinite
      <4>5. dropCnt[t] <= Cardinality(lost[t] \ Uncounted(t)) /\ dropCnt[t] \in Nat
        BY <1>0 DEF DropsCounted, BusTypes
      <4>6. dropCnt[t] <= Cardinality(lost'[t] \ Uncounted(t)')
        BY <4>3, <4>4, <4>5
      <4> QED
        BY Zenon, <1>1, <4>6
    <3>3. ASSUME NEW t \in Subscriptions, Slow(t)
          PROVE  Slow(t)'
      <4>1. /\ Cardinality(lost[t]) <= Cardinality(lost'[t])
            /\ Cardinality(lost[t]) \in Nat /\ Cardinality(lost'[t]) \in Nat
        BY Zenon, <1>0, <2>3, FS_Subset, FS_CardinalityType DEF BusTypes
      <4> QED
        BY <3>3, <4>1, BusAssumption DEF Slow
    <3>4. ASSUME NEW q \in Publishers, pub'[q].pc = "record"
          PROVE  pub'[q].ev \in lost'[pub'[q].sub]
      <4>1. CASE q = p
        BY Zenon, <2>1, <2>2, <4>1
      <4>2. CASE q # p
        <5>1. pub'[q] = pub[q] /\ pub[q].pc = "record"
          BY Zenon, <2>1, <3>4, <4>2
        <5>2. pub[q].ev \in lost[pub[q].sub] /\ pub[q].sub \in Subscriptions
          BY Zenon, <1>0, <5>1 DEF DropsCounted, PubTypes
        <5> QED
          BY Zenon, <2>3, <5>1, <5>2
      <4> QED
        BY Zenon, <4>1, <4>2
    <3>5. ASSUME NEW q \in Publishers, pub'[q].pc = "disconnect"
          PROVE  Slow(pub[q].sub)' 
      <4>1. q # p /\ pub'[q] = pub[q]
        BY Zenon, <2>1, <3>5
      <4>2. Slow(pub[q].sub) /\ pub[q].sub \in Subscriptions
        BY Zenon, <1>0, <3>5, <4>1 DEF DropsCounted, PubTypes
      <4>3. PICK t \in Subscriptions : t = pub[q].sub /\ t = pub'[q].sub
        BY Zenon, <4>1, <4>2
      <4> QED
        BY Zenon, <3>3, <4>2, <4>3 DEF Slow
    <3> QED
      BY Zenon, <3>2, <3>4, <3>5 DEF DropsCounted
  <2>9. NothingVanishes'
    <3>1. ASSUME NEW t \in Subscriptions
          PROVE  /\ due[t] = EventsOf(Stream(t)) \cup lost'[t] \cup Coming(t)'
                 /\ EventsOf(Stream(t)) \cap lost'[t] = {}
      <4>1. /\ due[t] = EventsOf(Stream(t)) \cup lost[t] \cup Coming(t)
            /\ EventsOf(Stream(t)) \cap lost[t] = {}
        BY Zenon, <1>0 DEF NothingVanishes
      <4>2. CASE t = s
        BY ZenonT(30), <1>3, <2>1, <2>2, <4>1, <4>2
      <4>3. CASE t # s
        BY Zenon, <2>1, <2>2, <4>1, <4>3
      <4> QED
        BY Zenon, <4>2, <4>3
    <3> QED
      BY Zenon, <1>1, <2>5, <3>1 DEF NothingVanishes
  <2> QED
    BY Zenon, <1>5, <2>1, <2>4, <2>6, <2>7, <2>8, <2>9 DEF BusInv
<1> QED
  BY Zenon, <1>7, <1>8, <1>9 DEF Send

\* Every step of the bus keeps its invariant.
LEMMA BusStep == BusInv /\ [BusNext]_busVars => BusInv'
<1> SUFFICES ASSUME BusInv, [BusNext]_busVars PROVE BusInv'
  OBVIOUS
<1>1. ASSUME NEW p \in Publishers, PublishStep(p) PROVE BusInv'
  BY Zenon, <1>1, SendBus, ResetBus, RecordBus, CheckBus, DisconnectBus DEF PublishStep
<1>2. ASSUME NEW p \in Publishers, NEW e \in Events, Unpublished(e), Publish(p, e) PROVE BusInv'
  BY Zenon, <1>2, PublishBus
<1>3. CASE UNCHANGED busVars
  <2>1. UNCHANGED <<subs, busClosed, filter, ch, chClosed, dropCnt, pub, created, sent, due, lost, got>>
    BY Zenon, <1>3 DEF busVars
  <2>2. BusTypes' /\ BornOpen' /\ RegisteredIsOpen'
    BY Zenon, <2>1 DEF BusInv, BusTypes, BornOpen, RegisteredIsOpen
  <2>3. \A s \in Subscriptions : Stream(s)' = Stream(s)
    BY Zenon, <2>1 DEF Stream
  <2> QED
    BY Zenon, <2>1, <2>2, <2>3, BusFrame DEF BusInv
<1> QED
  BY Zenon, <1>1, <1>2, <1>3, SubscriberBus DEF BusNext

-----------------------------------------------------------------------------
(* The event bus: the drops that are counted came in a row.                *)

\* Unless publishers came between a send and its bookkeeping, the counter is
\* covered by a run of drops: the latest one once the bookkeeping is done.
StreakAt(s) ==
  /\ streak[s].run \in Nat /\ streak[s].longest \in Nat /\ streak[s].run <= streak[s].longest
  /\ ~streak[s].raced =>
       /\ dropCnt[s] <= streak[s].longest
       /\ \A p, q \in Between(s) : p = q
       /\ \A p \in Between(s) : pub[p].pc = "record" => dropCnt[s] + 1 <= streak[s].run
       /\ Between(s) = {} => dropCnt[s] <= streak[s].run

StreakOK == DOMAIN streak = Subscriptions /\ \A s \in Subscriptions : StreakAt(s)

\* A subscription that no send and no bookkeeping touches.
LEMMA StreakFrame ==
  ASSUME NEW t \in Subscriptions, StreakAt(t), streak'[t] = streak[t], dropCnt'[t] = dropCnt[t],
         \A q \in Publishers : (q \in Between(t))' <=> q \in Between(t),
         \A q \in Publishers : q \in Between(t) => pub'[q].pc = pub[q].pc
  PROVE  StreakAt(t)'
<1>1. Between(t)' = Between(t)
  BY Zenon DEF Between
<1>2. \A q \in Between(t) : pub'[q].pc = pub[q].pc
  BY Zenon DEF Between
<1> QED
  BY Zenon, <1>1, <1>2 DEF StreakAt

\* The step of one publisher, from the loop over s or to it, leaves the
\* bookkeeping of the others alone.
LEMMA BetweenOthers ==
  ASSUME NEW p \in Publishers, NEW s \in Subscriptions, NEW t \in Subscriptions, t # s,
         \A q \in Publishers : q # p => pub'[q] = pub[q],
         pub[p].pc \in {"reset", "record"} => pub[p].sub = s,
         pub'[p].pc \in {"reset", "record"} => pub'[p].sub = s
  PROVE  /\ \A q \in Publishers : (q \in Between(t))' <=> q \in Between(t)
         /\ \A q \in Publishers : q \in Between(t) => pub'[q].pc = pub[q].pc
<1>1. ASSUME NEW q \in Publishers
      PROVE  ((q \in Between(t))' <=> q \in Between(t)) /\ (q \in Between(t) => pub'[q].pc = pub[q].pc)
  <2>1. CASE q = p
    BY Zenon, <2>1 DEF Between
  <2>2. CASE q # p
    BY Zenon, <2>2 DEF Between
  <2> QED
    BY Zenon, <2>1, <2>2
<1> QED
  BY Zenon, <1>1

\* Send: a delivery ends the run, a drop makes it longer.
LEMMA SendStreak ==
  ASSUME BusInv, StreakOK, NEW p \in Publishers, NEW s \in Subscriptions, Send(p, s)
  PROVE  StreakOK'
<1>0. /\ DOMAIN pub = Publishers /\ dropCnt'= dropCnt /\ dropCnt[s] \in Nat
      /\ DOMAIN streak = Subscriptions /\ StreakAt(s)
      /\ pub[p].pc = "send"
  BY Zenon DEF BusInv, BusTypes, PubTypes, StreakOK, Send
<1>1. CASE UNCHANGED <<pub, streak>>
  <2>1. ASSUME NEW t \in Subscriptions PROVE StreakAt(t)'
    <3>1. StreakAt(t) /\ Between(t)' = Between(t)
      BY Zenon, <1>1 DEF StreakOK, Between
    <3> QED
      BY Zenon, <1>0, <1>1, <3>1 DEF StreakAt
  <2> QED
    BY Zenon, <1>0, <1>1, <2>1 DEF StreakOK
<1>2. ASSUME NEW pc \in {"reset", "record"}, NEW r,
             pub' = [pub EXCEPT ![p] = At(p, s, pc)], streak' = [streak EXCEPT ![s] = r],
             r.run \in Nat, r.longest \in Nat, r.run <= r.longest,
             ~r.raced => /\ Between(s) = {} /\ dropCnt[s] <= r.longest
                         /\ pc = "record" => dropCnt[s] + 1 <= r.run
      PROVE  StreakOK'
  <2>1. /\ pub'[p] = At(p, s, pc) /\ \A q \in Publishers : q # p => pub'[q] = pub[q]
        /\ streak'[s] = r /\ \A t \in Subscriptions : t # s => streak'[t] = streak[t]
        /\ DOMAIN streak' = Subscriptions
    BY Zenon, <1>0, <1>2
  <2>2. pub'[p].pc = pc /\ pub'[p].sub = s
    BY <2>1 DEF At
  <2>3. ASSUME NEW t \in Subscriptions, t # s PROVE StreakAt(t)'
    <3>1. StreakAt(t) /\ streak'[t] = streak[t] /\ dropCnt'[t] = dropCnt[t]
      BY Zenon, <1>0, <2>1, <2>3 DEF StreakOK
    <3>2. pub[p].pc \notin {"reset", "record"}
      BY <1>0
    <3> QED
      BY Zenon, <2>1, <2>2, <2>3, <3>1, <3>2, BetweenOthers, StreakFrame
  <2>4. ASSUME ~r.raced
        PROVE  Between(s)' = {p}
    <3>1. Between(s) = {}
      BY Zenon, <1>2, <2>4
    <3>2. ASSUME NEW q \in Publishers PROVE (q \in Between(s))' <=> q = p
      <4>1. CASE q = p
        BY Zenon, <1>2, <2>2, <4>1 DEF Between
      <4>2. CASE q # p
        BY Zenon, <2>1, <3>1, <4>2 DEF Between
      <4> QED
        BY Zenon, <4>1, <4>2
    <3> QED
      BY Zenon, <3>2 DEF Between
  <2>5. StreakAt(s)'
    BY Zenon, <1>0, <1>2, <2>1, <2>2, <2>4 DEF StreakAt
  <2> QED
    BY Zenon, <2>1, <2>3, <2>5 DEF StreakOK
<1>3. CASE pub' = [pub EXCEPT ![p] = At(p, s, "reset")] /\ streak' = [streak EXCEPT ![s] = Delivered(s)]
  <2> DEFINE r == Delivered(s)
  <2>1. /\ r.run = 0 /\ r.longest = streak[s].longest
        /\ r.raced = (streak[s].raced \/ Between(s) # {})
    BY DEF Delivered
  <2>2. r.run \in Nat /\ r.longest \in Nat /\ r.run <= r.longest
    BY <1>0, <2>1 DEF StreakAt
  <2>3. ~r.raced => Between(s) = {} /\ dropCnt[s] <= r.longest
    BY Zenon, <1>0, <2>1 DEF StreakAt
  <2>4. "reset" # "record"
    OBVIOUS
  <2> HIDE DEF r
  <2> QED
    BY Zenon, <1>2, <1>3, <2>2, <2>3, <2>4 DEF r
<1>4. CASE pub' = [pub EXCEPT ![p] = At(p, s, "record")] /\ streak' = [streak EXCEPT ![s] = Missed(s)]
  <2> DEFINE r == Missed(s)
  <2>1. /\ r.run = streak[s].run + 1
        /\ r.longest = IF streak[s].run < streak[s].longest THEN streak[s].longest
                       ELSE streak[s].run + 1
        /\ r.raced = (streak[s].raced \/ Between(s) # {})
    BY DEF Missed
  <2>2. r.run \in Nat /\ r.longest \in Nat /\ r.run <= r.longest
    BY <1>0, <2>1 DEF StreakAt
  <2>3. ASSUME ~r.raced
        PROVE  Between(s) = {} /\ dropCnt[s] <= r.longest /\ dropCnt[s] + 1 <= r.run
    <3>1. Between(s) = {} /\ dropCnt[s] <= streak[s].run
      BY Zenon, <1>0, <2>1, <2>3 DEF StreakAt
    <3>2. streak[s].run \in Nat
      BY Zenon, <1>0 DEF StreakAt
    <3>3. dropCnt[s] <= r.longest /\ dropCnt[s] + 1 <= r.run
      BY <1>0, <2>1, <2>2, <3>1, <3>2
    <3> QED
      BY Zenon, <3>1, <3>3
  <2> HIDE DEF r
  <2> QED
    BY Zenon, <1>2, <1>4, <2>2, <2>3 DEF r
<1> QED
  BY Zenon, <1>1, <1>3, <1>4 DEF Send

\* Bookkeeping: resetDrops and recordDrop bring counter and run together.
LEMMA BookStreak ==
  ASSUME BusInv, StreakOK, NEW p \in Publishers, resetDrops(p) \/ recordDrop(p)
  PROVE  StreakOK'
<1>0. PICK s \in Subscriptions : s = pub[p].sub
  BY Zenon DEF BusInv, PubTypes, resetDrops, recordDrop
<1>1. /\ DOMAIN pub = Publishers /\ dropCnt \in [Subscriptions -> Nat]
      /\ DOMAIN streak = Subscriptions /\ StreakAt(s)
      /\ pub[p].pc \in {"reset", "record"}
  BY Zenon DEF BusInv, BusTypes, PubTypes, StreakOK, resetDrops, recordDrop
<1>2. /\ \A q \in Publishers : q # p => pub'[q] = pub[q]
      /\ pub'[p].pc \notin {"reset", "record"}
  <2>1. CASE resetDrops(p)
    <3>1. pub' = [pub EXCEPT ![p] = NextSub(p)]
      BY Zenon, <2>1 DEF resetDrops
    <3>2. NextSub(p).pc \notin {"reset", "record"}
      BY DEF NextSub, Idle
    <3> QED
      BY Zenon, <1>1, <3>1, <3>2
  <2>2. CASE recordDrop(p)
    <3>1. pub' = [pub EXCEPT ![p].pc = "check"]
      BY Zenon, <2>2 DEF recordDrop
    <3>2. DOMAIN pub[p] = {"pc", "todo", "ev", "sub"}
      BY Zenon, <1>1 DEF BusInv, PubTypes
    <3>3. pub'[p].pc = "check"
      BY <1>1, <3>1, <3>2
    <3>4. \A q \in Publishers : q # p => pub'[q] = pub[q]
      BY Zenon, <1>1, <3>1
    <3> QED
      BY <3>3, <3>4
  <2> QED
    BY Zenon, <2>1, <2>2
<1>3. /\ DOMAIN streak' = Subscriptions
      /\ \A t \in Subscriptions : t # s => streak'[t] = streak[t] /\ dropCnt'[t] = dropCnt[t]
  BY Zenon, <1>0, <1>1 DEF resetDrops, recordDrop
<1>4. ASSUME NEW t \in Subscriptions, t # s PROVE StreakAt(t)'
  <2>1. StreakAt(t) /\ streak'[t] = streak[t] /\ dropCnt'[t] = dropCnt[t]
    BY Zenon, <1>3, <1>4 DEF StreakOK
  <2>2. /\ \A q \in Publishers : (q \in Between(t))' <=> q \in Between(t)
        /\ \A q \in Publishers : q \in Between(t) => pub'[q].pc = pub[q].pc
    BY Zenon, <1>0, <1>2, <1>4, BetweenOthers
  <2> QED
    BY Zenon, <2>1, <2>2, StreakFrame
<1>5. p \in Between(s)
  BY Zenon, <1>0, <1>1 DEF Between
<1>6. Between(s) = {p} => (Between(s))' = {}
  <2> SUFFICES ASSUME Between(s) = {p}, NEW q \in Publishers, (q \in Between(s))'
               PROVE  FALSE
    BY Zenon DEF Between
  <2>1. q # p
    BY Zenon, <1>2 DEF Between
  <2> QED
    BY Zenon, <1>2, <2>1 DEF Between
<1>7. ~streak[s].raced => Between(s) = {p}
  BY Zenon, <1>1, <1>5 DEF StreakAt
<1>8. CASE resetDrops(p)
  <2>1. streak'[s] = Settled(p, s) /\ dropCnt'[s] = 0
    BY Zenon, <1>0, <1>1, <1>8 DEF resetDrops
  <2>2. /\ streak'[s].run = streak[s].run /\ streak'[s].longest = streak[s].longest
        /\ streak'[s].raced = (streak[s].raced /\ Between(s) # {p})
    BY <2>1 DEF Settled
  <2>3. \A n \in Nat : 0 <= n
    OBVIOUS
  <2>4. ~streak'[s].raced => (Between(s))' = {}
    BY Zenon, <1>6, <1>7, <2>2
  <2>5. StreakAt(s)'
    BY Zenon, <1>1, <2>1, <2>2, <2>3, <2>4 DEF StreakAt
  <2> QED
    BY Zenon, <1>3, <1>4, <2>5 DEF StreakOK
<1>9. CASE recordDrop(p)
  <2>1. streak' = streak /\ dropCnt'[s] = dropCnt[s] + 1
    BY Zenon, <1>0, <1>1, <1>9 DEF recordDrop
  <2>2. ~streak[s].raced => (Between(s))' = {} /\ dropCnt[s] + 1 <= streak[s].run
    BY Zenon, <1>1, <1>5, <1>6, <1>7, <1>9 DEF StreakAt, recordDrop
  <2>3. /\ streak[s].run \in Nat /\ streak[s].longest \in Nat /\ streak[s].run <= streak[s].longest
        /\ dropCnt[s] \in Nat
    BY Zenon, <1>1 DEF StreakAt
  <2>4. dropCnt[s] + 1 <= streak[s].run => dropCnt[s] + 1 <= streak[s].longest
    BY <2>3
  <2>5. StreakAt(s)'
    BY Zenon, <2>1, <2>2, <2>3, <2>4 DEF StreakAt
  <2> QED
    BY Zenon, <1>3, <1>4, <2>5 DEF StreakOK
<1> QED
  BY Zenon, <1>8, <1>9

\* Every step of the bus keeps the account of drops in a row.
LEMMA StreakStep == BusInv /\ StreakOK /\ [BusNext]_busVars => StreakOK'
<1> SUFFICES ASSUME BusInv, StreakOK, [BusNext]_busVars PROVE StreakOK'
  OBVIOUS
<1>1. ASSUME UNCHANGED <<streak, dropCnt>>,
             \A p \in Publishers :
               \/ pub'[p] = pub[p]
               \/ /\ pub[p].pc \notin {"reset", "record"}
                  /\ pub'[p].pc \notin {"reset", "record"}
      PROVE  StreakOK'
  <2>1. ASSUME NEW t \in Subscriptions PROVE StreakAt(t)'
    <3>1. StreakAt(t) /\ streak'[t] = streak[t] /\ dropCnt'[t] = dropCnt[t]
      BY Zenon, <1>1 DEF StreakOK
    <3>2. /\ \A q \in Publishers : (q \in Between(t))' <=> q \in Between(t)
          /\ \A q \in Publishers : q \in Between(t) => pub'[q].pc = pub[q].pc
      BY Zenon, <1>1 DEF Between
    <3> QED
      BY Zenon, <3>1, <3>2, StreakFrame
  <2> QED
    BY Zenon, <1>1, <2>1 DEF StreakOK
<1>2. DOMAIN pub = Publishers
  BY Zenon DEF BusInv, PubTypes
<1>3. ASSUME NEW p \in Publishers, NEW r, pub' = [pub EXCEPT ![p] = r],
             pub[p].pc \notin {"reset", "record"}, r.pc \notin {"reset", "record"},
             UNCHANGED <<streak, dropCnt>>
      PROVE  StreakOK'
  BY Zenon, <1>1, <1>2, <1>3
<1>4. ASSUME NEW p \in Publishers, NEW e \in Events, Publish(p, e)
      PROVE  StreakOK'
  <2>1. UNCHANGED <<streak, dropCnt>> /\ pub[p].pc = "idle"
    BY Zenon, <1>4 DEF Publish
  <2>2. PICK T : \/ UNCHANGED pub
                 \/ pub' = [pub EXCEPT ![p] = [pc |-> "send", todo |-> T, ev |-> e]]
    BY Zenon, <1>4 DEF Publish
  <2>3. CASE UNCHANGED pub
    BY Zenon, <1>1, <2>1, <2>3
  <2>4. CASE pub' = [pub EXCEPT ![p] = [pc |-> "send", todo |-> T, ev |-> e]]
    <3>1. [pc |-> "send", todo |-> T, ev |-> e].pc \notin {"reset", "record"}
          /\ pub[p].pc \notin {"reset", "record"}
      BY <2>1
    <3> QED
      BY Zenon, <1>3, <2>1, <2>4, <3>1
  <2> QED
    BY Zenon, <2>2, <2>3, <2>4
<1>5. ASSUME NEW p \in Publishers, CheckDrops(p) \/ DisconnectSlow(p)
      PROVE  StreakOK'
  <2>1. UNCHANGED <<streak, dropCnt>> /\ pub[p].pc \in {"check", "disconnect"}
    BY Zenon, <1>5 DEF CheckDrops, DisconnectSlow
  <2>2. DOMAIN pub[p] = {"pc", "todo", "ev", "sub"}
    BY Zenon, <2>1 DEF BusInv, PubTypes
  <2>3. PICK r : pub' = [pub EXCEPT ![p] = r] /\ (r = [pub[p] EXCEPT !.pc = "disconnect"] \/ r = NextSub(p))
    BY Zenon, <1>5 DEF CheckDrops, DisconnectSlow
  <2>4. r.pc \notin {"reset", "record"}
    BY <2>2, <2>3 DEF NextSub, Idle
  <2>5. pub[p].pc \notin {"reset", "record"}
    BY <2>1
  <2> QED
    BY Zenon, <1>3, <2>1, <2>3, <2>4, <2>5
<1>6. ASSUME NEW p \in Publishers, PublishStep(p) PROVE StreakOK'
  BY Zenon, <1>5, <1>6, SendStreak, BookStreak DEF PublishStep
<1>7. ASSUME NEW s \in Subscriptions,
             (\E f \in Filters : Subscribe(s, f)) \/ Receive(s) \/ CloseSubscription(s)
      PROVE  StreakOK'
  BY Zenon, <1>1, <1>7 DEF Subscribe, Receive, CloseSubscription
<1>8. CASE CloseBus
  BY Zenon, <1>1, <1>8 DEF CloseBus
<1>9. CASE UNCHANGED busVars
  BY Zenon, <1>1, <1>9 DEF busVars
<1> QED
  BY Zenon, <1>4, <1>6, <1>7, <1>8, <1>9 DEF BusNext

\* What the bus owes its subscribers follows from the two invariants.
LEMMA BusKeepsPromise == BusInv /\ StreakOK => DeliveredOrCounted
<1> SUFFICES ASSUME BusInv, StreakOK PROVE SlowMissedEnough
  BY Zenon DEF BusInv, DeliveredOrCounted
<1>1. ASSUME NEW p \in Publishers, pub[p].pc = "disconnect"
      PROVE  Cardinality(lost[pub[p].sub]) >= DropThreshold
  BY Zenon, <1>1 DEF BusInv, DropsCounted, Slow
<1>2. ASSUME NEW p \in Publishers, pub[p].pc = "check", TooSlow(pub[p].sub), ~streak[pub[p].sub].raced
      PROVE  streak[pub[p].sub].longest >= DropThreshold
  <2>1. PICK s \in Subscriptions : s = pub[p].sub
    BY Zenon, <1>2 DEF BusInv, PubTypes
  <2>2. /\ streak[s].longest \in Nat /\ dropCnt[s] <= streak[s].longest /\ dropCnt[s] \in Nat
        /\ dropCnt[s] >= DropThreshold
    BY Zenon, <1>2, <2>1 DEF StreakOK, StreakAt, BusInv, BusTypes, TooSlow
  <2>3. streak[s].longest >= DropThreshold
    BY <2>2, BusAssumption
  <2> QED
    BY Zenon, <2>1, <2>3
<1> QED
  BY Zenon, <1>1, <1>2 DEF SlowMissedEnough

\* Bus.Publish against Subscribe, disconnect and both Closes: every event a
\* subscription was due is in its channel, received, on its way or counted as
\* dropped, in the publisher's order; a registered channel is open; and only a
\* subscription that missed DropThreshold events is cut off, events in a row
\* unless publishers came between each other's send and bookkeeping.
THEOREM BusDelivers == BusSpec => []DeliveredOrCounted
<1>1. New => StreakOK
  <2> SUFFICES ASSUME New PROVE StreakOK
    OBVIOUS
  <2>1. /\ DOMAIN streak = Subscriptions
        /\ \A s \in Subscriptions : streak[s] = Fresh /\ dropCnt[s] = 0
        /\ \A p \in Publishers : pub[p] = Idle
    BY Zenon DEF New
  <2>2. Idle.pc \notin {"reset", "record"} /\ Fresh.run = 0 /\ Fresh.longest = 0 /\ 0 \in Nat /\ 0 <= 0
    BY DEF Idle, Fresh
  <2>3. \A s \in Subscriptions : Between(s) = {}
    BY Zenon, <2>1, <2>2 DEF Between
  <2> QED
    BY Zenon, <2>1, <2>2, <2>3 DEF StreakOK, StreakAt
<1>2. BusInv /\ StreakOK /\ [BusNext]_busVars => BusInv' /\ StreakOK'
  BY BusStep, StreakStep
<1> QED
  BY BusStart, <1>1, <1>2, BusKeepsPromise, PTL DEF BusSpec

-----------------------------------------------------------------------------
(* The management server: its inductive invariant.                         *)

Active == {c \in Clients : handler[c] \notin {"none", "done"}}

CloseCalls == [first : {"idle", "waiting", "nil", "ctxerr"}, later : {"idle", "nil"}]

\* Server.wg counts the accept loop and the handlers that have not returned; a
\* connection that was not accepted has no handler, and one in hand keeps the
\* accept loop from its end.  A later Close comes after a first.
CountInv ==
  /\ DOMAIN handler = Clients /\ DOMAIN conn = Clients /\ DOMAIN client = Clients
  /\ IsFiniteSet(Active)
  /\ \/ accepting = TRUE /\ wg = Cardinality(Active) + 1
     \/ accepting = FALSE /\ wg = Cardinality(Active)
  /\ \A c \in Clients : /\ conn[c] \in {"none", "queued", "inhand"} => handler[c] = "none"
                        /\ conn[c] = "inhand" => accepting
  /\ closer \in CloseCalls /\ (closer.later = "nil" => closer.first # "idle")

\* What Shutdown has waited for.
Joined ==
  /\ \A p \in Processes : readLoop[p] # "held"
  /\ \A p \in Publishers : pub[p].pc = "idle"

\* emitLogChunk runs in a read loop.
EmitsInLoop == \A p \in Processes : emit[p].pc # "idle" => readLoop[p] \in {"held", "taken"}

\* The channels of a stream are closed by Shutdown, once nobody it can wait for
\* is left to send, for a client that has gone, or for a subscriber that was
\* too slow.
CloseInv ==
  /\ DOMAIN wClosed = Clients
  /\ readLoop \in [Processes -> {"held", "taken", "ended"}]
  /\ ~Watching => Joined
  /\ EmitsInLoop
  /\ busClosed => shutdown = "done"
  /\ \A c \in Clients :
       /\ chClosed[c] => shutdown = "done" \/ client[c] = "gone" \/ Slow(c)
       /\ wClosed[c] => shutdown \in {"watchers", "done"} \/ client[c] = "gone"
       /\ handler[c] = "unsubscribe" => client[c] = "gone" \/ chClosed[c]
       /\ handler[c] = "unregister" => client[c] = "gone" \/ wClosed[c]

Chunks == [n : Nat, stream : StdStreams]

LogTypes ==
  /\ watchers \subseteq registered /\ registered \subseteq Clients
  /\ emitted \in [Processes -> Nat]
  /\ DOMAIN emit = Processes /\ DOMAIN watched = Clients
  /\ wDue \in [Clients -> SUBSET Chunks] /\ DOMAIN wLost = Clients
  /\ wch \in [Clients -> Seq(Chunks)] /\ live \in [Clients -> Seq(Chunks)]
  /\ snapshot \in [Clients -> Seq(Chunks)]
  /\ ring \in [Processes -> [StdStreams -> Seq(Chunks)]]
  /\ DOMAIN request = Clients

\* emitLogChunk is busy with the latest chunk of its process, and sends it to
\* watchers of that process that are due it.
EmitOK(p) ==
  /\ \A t \in StdStreams : \A a \in Numbers(ring[p][t]) : a <= emitted[p]
  /\ \/ emit[p].pc = "idle" /\ emit[p].todo = {}
     \/ /\ emit[p].pc = "collected" /\ emit[p].todo = {}
        /\ emit[p].chunk \in Chunks /\ emit[p].chunk.n = emitted[p]
        /\ DOMAIN emit[p] = {"pc", "todo", "chunk"}
     \/ /\ emit[p].pc = "send" /\ emit[p].todo \subseteq registered
        /\ emit[p].chunk \in Chunks /\ emit[p].chunk.n = emitted[p]
        /\ DOMAIN emit[p] = {"pc", "todo", "chunk"}
        /\ \A w \in emit[p].todo : watched[w] = p /\ emit[p].chunk \in wDue[w]

\* A handler registers once, for the process it was asked to follow.
HandlerOK(c) ==
  /\ handler[c] \in {"follow", "writesnap", "watch", "tail", "unregister"} =>
       request[c].process \in Processes /\ request[c].stream \in StdStreams
  /\ c \in registered => /\ handler[c] \in {"tail", "unregister", "return", "done"}
                         /\ watched[c] = request[c].process
                         /\ watched[c] \in Processes
  /\ c \notin registered => /\ handler[c] \notin {"tail", "unregister"}
                            /\ wDue[c] = {} /\ wch[c] = <<>> /\ live[c] = <<>>

\* The last chunk of p that was fanned out.
FannedOut(p) == IF emit[p].pc = "collected" THEN emitted[p] - 1 ELSE emitted[p]

\* No chunk of the snapshot is newer than the process's latest, or than any
\* that the watcher was due.
SnapshotOK(c) ==
  /\ handler[c] \in {"writesnap", "watch"} \/ c \in registered =>
       \A a \in Numbers(snapshot[c]) : a <= emitted[request[c].process]
  /\ c \in registered => \A a \in Numbers(snapshot[c]), k \in wDue[c] : a <= k.n

\* The chunks a watcher was due are those fanned out since its registration,
\* without a gap.
DueOK(c) ==
  /\ c \in registered => \A k \in wDue[c] : k.n <= FannedOut(watched[c])
  /\ c \in watchers =>
       \A k \in wDue[c] : \A n \in k.n .. FannedOut(watched[c]) : \E j \in wDue[c] : j.n = n
  /\ \A a, b \in wDue[c] : \A n \in a.n .. b.n : \E k \in wDue[c] : k.n = n
  /\ \A a, b \in wDue[c] : a.n = b.n => a = b

\* What was sent and what waits is due, in order, and older than what is still
\* to be sent.
QueueOK(c) ==
  /\ \A i \in DOMAIN live[c] : live[c][i] \in wDue[c]
  /\ \A i \in DOMAIN wch[c] : wch[c][i] \in wDue[c]
  /\ Increasing(live[c]) /\ Increasing(wch[c])
  /\ \A a \in Numbers(live[c]), b \in Numbers(wch[c]) : a < b
  /\ \A p \in Processes : c \in emit[p].todo =>
       \A a \in Numbers(live[c]) \cup Numbers(wch[c]) : a < emitted[p]

\* Every chunk that was due is accounted for while the handler follows.
AccountOK(c) ==
  handler[c] = "tail" =>
    \A k \in wDue[c] :
      \/ k.stream # request[c].stream
      \/ k.n \in Numbers(live[c]) \cup Numbers(wch[c])
      \/ k \in wLost[c] \cup OnItsWay(c)

ClientOK(c) == HandlerOK(c) /\ SnapshotOK(c) /\ DueOK(c) /\ QueueOK(c) /\ AccountOK(c)

FollowInv ==
  /\ LogTypes
  /\ \A p \in Processes : EmitOK(p)
  /\ \A c \in Clients : ClientOK(c)

MgmtInv == BusInv /\ CountInv /\ CloseInv /\ FollowInv /\ CloseNilMeansQuiet /\ ShutdownNeverPanics

-----------------------------------------------------------------------------
(* The management server uses the bus as the bus specifies.                *)

\* A step of the composition is a step of the bus or leaves it alone.
LEMMA BusIsUsed == [MgmtNext]_mgmtVars => [BusNext]_busVars
<1> SUFFICES ASSUME MgmtNext PROVE BusNext \/ UNCHANGED busVars
  BY Zenon DEF mgmtVars
<1>0. Clients = Subscriptions /\ ~panicked
  BY Zenon, ClientAssumption DEF MgmtNext, Panicked
<1>1. ASSUME NEW c \in Clients, StreamStep(c)
      PROVE  BusNext \/ UNCHANGED busVars
  <2>1. \/ (\E f \in Filters : Subscribe(c, f)) \/ Receive(c) \/ CloseSubscription(c)
        \/ UNCHANGED busVars
    BY Zenon, <1>1 DEF StreamStep, SubscribeEvents, ForwardEvent, Unsubscribe, RegisterWatcher,
       ForwardChunk, Unregister
  <2> QED
    BY Zenon, <1>0, <2>1 DEF BusNext
<1>2. CASE ShutdownClosesWatchers \/ ShutdownClosesBus
  BY Zenon, <1>0, <1>2 DEF ShutdownClosesWatchers, ShutdownClosesBus, BusNext
<1>3. ASSUME NEW p \in Publishers, PublishNew(p) \/ PublishStep(p)
      PROVE  BusNext
  BY Zenon, <1>0, <1>3 DEF PublishNew, BusNext
<1> QED
  BY Zenon, <1>1, <1>2, <1>3 DEF MgmtNext

\* Behind the management server the bus is still a bus.
THEOREM ServerUsesBus == MgmtSpec => BusSpec
<1>1. MgmtInit => New
  BY Zenon DEF MgmtInit
<1>2. [MgmtNext]_mgmtVars => [BusNext]_busVars
  BY BusIsUsed
<1> QED
  BY <1>1, <1>2, PTL DEF MgmtSpec, BusSpec

-----------------------------------------------------------------------------
(* Close of the management server.                                         *)

\* A handler that goes on is still counted.
LEMMA CountFrame ==
  ASSUME CountInv, CloseNilMeansQuiet, UNCHANGED <<accepting, wg, conn, closer>>,
         DOMAIN client' = Clients, DOMAIN handler' = Clients,
         \/ handler' = handler
         \/ \E c \in Clients :
              /\ \A d \in Clients : d # c => handler'[d] = handler[d]
              /\ handler[c] \notin {"none", "done"} /\ handler'[c] \notin {"none", "done"}
  PROVE  CountInv' /\ CloseNilMeansQuiet'
<1>1. \A c \in Clients : handler'[c] \in {"none", "done"} <=> handler[c] \in {"none", "done"}
  BY Zenon
<1>2. Active' = Active
  BY Zenon, <1>1 DEF Active
<1>3. \A c \in Clients : handler[c] = "none" => handler'[c] = "none"
  BY Zenon
<1>4. CountInv'
  BY Zenon, <1>2, <1>3 DEF CountInv
<1>5. CloseNilMeansQuiet'
  BY Zenon, <1>1 DEF CloseNilMeansQuiet, Quiet
<1> QED
  BY Zenon, <1>4, <1>5

\* The start of a handler, its return and the end of the accept loop change the
\* count by one.
LEMMA CountChanges ==
  ASSUME CountInv, CloseNilMeansQuiet,
         \/ \E c \in Clients : StartHandler(c) \/ HandlerReturns(c)
         \/ AcceptLoopEnds
  PROVE  CountInv' /\ CloseNilMeansQuiet'
<1>0. Cardinality(Active) \in Nat /\ IsFiniteSet(Active)
  BY Zenon, FS_CardinalityType DEF CountInv
<1>1. ASSUME NEW c \in Clients, StartHandler(c)
      PROVE  CountInv' /\ CloseNilMeansQuiet'
  <2>1. /\ accepting = TRUE /\ conn[c] = "inhand" /\ wg' = wg + 1 /\ handler[c] = "none"
        /\ UNCHANGED <<accepting, closer, client>>
    BY Zenon, <1>1 DEF StartHandler, CountInv
  <2>2. /\ DOMAIN handler' = Clients /\ DOMAIN conn' = Clients
        /\ handler'[c] = "read" /\ conn'[c] = "accepted"
        /\ \A d \in Clients : d # c => handler'[d] = handler[d] /\ conn'[d] = conn[d]
    BY Zenon, <1>1 DEF StartHandler, CountInv
  <2>3. c \notin Active /\ Active' = Active \cup {c}
    BY Zenon, <2>1, <2>2 DEF Active
  <2>4. IsFiniteSet(Active') /\ Cardinality(Active') = Cardinality(Active) + 1
    BY <1>0, <2>3, FS_AddElement
  <2>5. wg = Cardinality(Active) + 1
    BY Zenon, <2>1 DEF CountInv
  <2>6. wg' = Cardinality(Active') + 1
    BY Zenon, <2>1, <2>4, <2>5
  <2>7. CountInv'
    BY Zenon, <2>1, <2>2, <2>4, <2>6 DEF CountInv
  <2>8. CloseNilMeansQuiet'
    BY Zenon, <2>1 DEF CloseNilMeansQuiet, Quiet
  <2> QED
    BY Zenon, <2>7, <2>8
<1>2. ASSUME NEW c \in Clients, HandlerReturns(c)
      PROVE  CountInv' /\ CloseNilMeansQuiet'
  <2>1. /\ wg' = wg - 1 /\ handler[c] = "return" /\ UNCHANGED <<accepting, closer, client>>
    BY Zenon, <1>2 DEF HandlerReturns
  <2>2. /\ DOMAIN handler' = Clients /\ DOMAIN conn' = Clients
        /\ handler'[c] = "done" /\ conn'[c] = "closed"
        /\ \A d \in Clients : d # c => handler'[d] = handler[d] /\ conn'[d] = conn[d]
    BY Zenon, <1>2 DEF HandlerReturns, CountInv
  <2>3. c \in Active /\ Active' = Active \ {c}
    BY Zenon, <2>1, <2>2 DEF Active
  <2>4. IsFiniteSet(Active') /\ Cardinality(Active') = Cardinality(Active) - 1
    BY <1>0, <2>3, FS_RemoveElement
  <2>5. \/ accepting = TRUE /\ wg = Cardinality(Active) + 1
        \/ accepting = FALSE /\ wg = Cardinality(Active)
    BY Zenon DEF CountInv
  <2>6. \/ accepting = TRUE /\ wg' = Cardinality(Active') + 1
        \/ accepting = FALSE /\ wg' = Cardinality(Active')
    BY <1>0, <2>1, <2>4, <2>5
  <2>7. CountInv'
    BY Zenon, <2>1, <2>2, <2>4, <2>6 DEF CountInv
  <2>8. CloseNilMeansQuiet'
    BY Zenon, <2>1, <2>2 DEF CloseNilMeansQuiet, Quiet
  <2> QED
    BY Zenon, <2>7, <2>8
<1>3. ASSUME AcceptLoopEnds
      PROVE  CountInv' /\ CloseNilMeansQuiet'
  <2>1. /\ accepting = TRUE /\ accepting' = FALSE /\ wg' = wg - 1
        /\ UNCHANGED <<closer, conn, client, handler>>
        /\ \A c \in Clients : conn[c] # "inhand"
    BY Zenon, <1>3 DEF AcceptLoopEnds, CountInv
  <2>2. Active' = Active
    BY Zenon, <2>1 DEF Active
  <2>3. wg = Cardinality(Active) + 1
    BY Zenon, <2>1 DEF CountInv
  <2>4. wg' = Cardinality(Active)
    BY <1>0, <2>1, <2>3
  <2>5. CountInv'
    BY Zenon, <2>1, <2>2, <2>4 DEF CountInv
  <2>6. CloseNilMeansQuiet'
    BY Zenon, <2>1 DEF CloseNilMeansQuiet, Quiet
  <2> QED
    BY Zenon, <2>5, <2>6
<1> QED
  BY Zenon, <1>1, <1>2, <1>3

\* Server.Close waits for the accept loop and for every handler.
LEMMA CountStep ==
  ASSUME CountInv, CloseNilMeansQuiet, MgmtNext
  PROVE  CountInv' /\ CloseNilMeansQuiet'
<1>1. CASE \/ \E c \in Clients : StartHandler(c) \/ HandlerReturns(c)
           \/ AcceptLoopEnds
  BY Zenon, <1>1, CountChanges
<1>2. ASSUME NEW c \in Clients, Dial(c) \/ Accept(c)
      PROVE  CountInv' /\ CloseNilMeansQuiet'
  <2>1. UNCHANGED <<accepting, wg, closer, handler, client>> /\ conn[c] \in {"none", "queued", "inhand"}
    BY Zenon, <1>2 DEF Dial, Accept
  <2>2. /\ DOMAIN conn' = Clients /\ \A d \in Clients : d # c => conn'[d] = conn[d]
        /\ conn'[c] = "inhand" => accepting
    BY Zenon, <1>2 DEF Dial, Accept, CountInv
  <2>3. handler[c] = "none"
    BY Zenon, <2>1 DEF CountInv
  <2>4. Active' = Active
    BY Zenon, <2>1 DEF Active
  <2>5. \A d \in Clients : /\ conn'[d] \in {"none", "queued", "inhand"} => handler'[d] = "none"
                          /\ conn'[d] = "inhand" => accepting'
    BY Zenon, <2>1, <2>2, <2>3 DEF CountInv
  <2>6. CountInv'
    BY Zenon, <2>1, <2>2, <2>4, <2>5 DEF CountInv
  <2> QED
    BY Zenon, <2>1, <2>6 DEF CloseNilMeansQuiet, Quiet
<1>3. ASSUME NEW c \in Clients,
             \/ \E r \in FollowRequests \cup OtherRequests : SendRequest(c, r)
             \/ ClientLeaves(c) \/ ClientReadsEnd(c) \/ ClientStalls(c)
             \/ ReadFails(c) \/ Answer(c) \/ EventsEnd(c) \/ TakeSnapshot(c)
             \/ WriteSnapshot(c) \/ TailEnds(c) \/ StreamStep(c)
      PROVE  CountInv' /\ CloseNilMeansQuiet'
  <2>0. DOMAIN handler = Clients /\ DOMAIN client = Clients
    BY Zenon DEF CountInv
  <2>1. UNCHANGED <<accepting, wg, conn, closer>>
    BY Zenon, <1>3 DEF SendRequest, ClientLeaves, ClientReadsEnd, ClientStalls, ReadFails, Answer,
       EventsEnd, TakeSnapshot, WriteSnapshot, TailEnds, StreamStep, SubscribeEvents, ForwardEvent,
       Unsubscribe, RegisterWatcher, ForwardChunk, Unregister
  <2>2. DOMAIN client' = Clients
    BY Zenon, <1>3, <2>0 DEF SendRequest, ClientLeaves, ClientReadsEnd, ClientStalls, ReadFails, Answer,
       EventsEnd, TakeSnapshot, WriteSnapshot, TailEnds, StreamStep, SubscribeEvents, ForwardEvent,
       Unsubscribe, RegisterWatcher, ForwardChunk, Unregister
  <2>3. ASSUME NEW r \in FollowRequests \cup OtherRequests, SendRequest(c, r)
        PROVE  CountInv' /\ CloseNilMeansQuiet'
    <3>1. r.kind \notin {"none", "done"}
      BY DEF FollowRequests, OtherRequests
    <3>2. /\ DOMAIN handler' = Clients /\ handler[c] \notin {"none", "done"}
          /\ \A d \in Clients : d # c => handler'[d] = handler[d]
          /\ handler'[c] \notin {"none", "done"}
      BY Zenon, <2>0, <2>3, <3>1 DEF SendRequest
    <3> QED
      BY Zenon, <2>1, <2>2, <3>2, CountFrame
  <2>4. CASE ClientLeaves(c) \/ ClientReadsEnd(c) \/ ClientStalls(c)
    <3>1. handler' = handler
      BY Zenon, <2>4 DEF ClientLeaves, ClientReadsEnd, ClientStalls
    <3> QED
      BY Zenon, <2>0, <2>1, <2>2, <3>1, CountFrame
  <2>5. CASE \/ ReadFails(c) \/ Answer(c) \/ EventsEnd(c) \/ TakeSnapshot(c)
             \/ WriteSnapshot(c) \/ TailEnds(c)
    <3>1. /\ DOMAIN handler' = Clients /\ handler[c] \notin {"none", "done"}
          /\ \A d \in Clients : d # c => handler'[d] = handler[d]
      BY Zenon, <2>0, <2>5 DEF ReadFails, Answer, EventsEnd, TakeSnapshot, WriteSnapshot, TailEnds
    <3>2. handler'[c] \in {"return", "read", "unsubscribe", "writesnap", "watch", "unregister"}
      BY Zenon, <2>0, <2>5 DEF ReadFails, Answer, EventsEnd, TakeSnapshot, WriteSnapshot, TailEnds
    <3>3. handler'[c] \notin {"none", "done"}
      BY Zenon, <3>2
    <3> QED
      BY Zenon, <2>1, <2>2, <3>1, <3>3, CountFrame
  <2>6. CASE StreamStep(c)
    <3>1. /\ DOMAIN handler' = Clients /\ handler[c] \notin {"none", "done"}
          /\ \A d \in Clients : d # c => handler'[d] = handler[d]
      BY Zenon, <2>0, <2>6 DEF StreamStep, SubscribeEvents, ForwardEvent, Unsubscribe, RegisterWatcher,
         ForwardChunk, Unregister
    <3>2. handler'[c] \in {"range", "unsubscribe", "return", "tail", "unregister"}
      BY Zenon, <2>0, <2>6 DEF StreamStep, SubscribeEvents, ForwardEvent, Unsubscribe, RegisterWatcher,
         ForwardChunk, Unregister
    <3>3. handler'[c] \notin {"none", "done"}
      BY Zenon, <3>2
    <3> QED
      BY Zenon, <2>1, <2>2, <3>1, <3>3, CountFrame
  <2> QED
    BY Zenon, <1>3, <2>3, <2>4, <2>5, <2>6
<1>4. CASE CloseListener \/ CloseTimesOut \/ CloseAgain
  <2>1. /\ UNCHANGED <<accepting, wg, conn, client, handler>>
        /\ \/ closer' = [closer EXCEPT !.first = "waiting"]
           \/ closer' = [closer EXCEPT !.first = "ctxerr"]
           \/ closer.first # "idle" /\ closer' = [closer EXCEPT !.later = "nil"]
    BY Zenon, <1>4 DEF CloseListener, CloseTimesOut, CloseAgain
  <2>2. Active' = Active /\ Quiet' = Quiet
    BY Zenon, <2>1 DEF Active, Quiet
  <2>3. closer \in CloseCalls
    BY Zenon DEF CountInv
  <2>4. /\ closer' \in CloseCalls /\ closer'.first # "idle"
        /\ closer'.first = "nil" => closer.first = "nil"
    BY <2>1, <2>3 DEF CloseCalls
  <2>5. closer'.first \in {"waiting", "ctxerr", "nil"}
    BY <2>4 DEF CloseCalls
  <2>6. CountInv'
    BY Zenon, <2>1, <2>2, <2>4 DEF CountInv
  <2> QED
    BY Zenon, <2>2, <2>4, <2>5, <2>6 DEF CloseNilMeansQuiet
<1>5. CASE CloseReturnsNil
  <2>1. /\ UNCHANGED <<accepting, wg, conn, client, handler>> /\ wg = 0
        /\ closer' = [closer EXCEPT !.first = "nil"]
    BY Zenon, <1>5 DEF CloseReturnsNil
  <2>2. Active' = Active
    BY Zenon, <2>1 DEF Active
  <2>3. Cardinality(Active) \in Nat /\ IsFiniteSet(Active)
    BY Zenon, FS_CardinalityType DEF CountInv
  <2>4. \/ accepting = TRUE /\ wg = Cardinality(Active) + 1
        \/ accepting = FALSE /\ wg = Cardinality(Active)
    BY Zenon DEF CountInv
  <2>5. accepting = FALSE /\ Cardinality(Active) = 0
    BY <2>1, <2>3, <2>4
  <2>6. Active = {}
    BY Zenon, <2>3, <2>5, FS_EmptySet
  <2>7. Quiet'
    BY Zenon, <2>1, <2>5, <2>6 DEF Active, Quiet
  <2>8. closer \in CloseCalls
    BY Zenon DEF CountInv
  <2>9. closer' \in CloseCalls /\ closer'.first # "idle"
    BY <2>1, <2>8 DEF CloseCalls
  <2> QED
    BY Zenon, <2>1, <2>2, <2>7, <2>9 DEF CountInv, CloseNilMeansQuiet
<1>6. CASE UNCHANGED <<accepting, wg, closer, conn, client, handler>>
  <2>1. Active' = Active
    BY Zenon, <1>6 DEF Active
  <2> QED
    BY Zenon, <1>6, <2>1 DEF CountInv, CloseNilMeansQuiet, Quiet
<1>7. CASE ShutdownBegins \/ ShutdownJoins \/ ShutdownClosesWatchers \/ ShutdownClosesBus
  <2>1. UNCHANGED <<accepting, wg, closer, conn, client, handler>>
    BY Zenon, <1>7 DEF ShutdownBegins, ShutdownJoins, ShutdownClosesWatchers, ShutdownClosesBus
  <2> QED
    BY Zenon, <1>6, <2>1
<1>8. CASE UNCHANGED srvVars
  BY Zenon, <1>6, <1>8 DEF srvVars
<1>9. CASE \E c \in Clients : SrvStep(c)
  BY Zenon, <1>1, <1>2, <1>3, <1>9 DEF SrvStep
<1> QED
  BY Zenon, <1>1, <1>3, <1>4, <1>5, <1>7, <1>8, <1>9 DEF MgmtNext

\* In every behaviour Server.wg counts exactly the goroutines that have not
\* returned, and a nil from the Server.Close that closed the listener means that
\* there is none, also when a connection was being accepted as it began; a later
\* call's nil means so unless the first one is waiting or has given up.
THEOREM CloseIsQuiet == MgmtSpec => []CloseNilMeansQuiet
<1> DEFINE Inv == CountInv /\ CloseNilMeansQuiet
<1>1. MgmtInit => Inv
  <2> SUFFICES ASSUME MgmtInit PROVE Inv
    OBVIOUS
  <2>1. Active = {}
    BY Zenon DEF MgmtInit, Active
  <2>2. IsFiniteSet(Active) /\ Cardinality(Active) = 0
    BY Zenon, <2>1, FS_EmptySet
  <2>3. wg = Cardinality(Active) + 1
    BY <2>2 DEF MgmtInit
  <2>4. closer \in CloseCalls /\ closer.first = "idle" /\ closer.later = "idle"
    BY DEF MgmtInit, CloseCalls
  <2>5. CountInv
    BY Zenon, <2>2, <2>3, <2>4 DEF MgmtInit, CountInv
  <2>6. CloseNilMeansQuiet
    BY Zenon, <2>4 DEF CloseNilMeansQuiet
  <2> QED
    BY Zenon, <2>5, <2>6
<1>2. Inv /\ [MgmtNext]_mgmtVars => Inv'
  <2>1. CASE UNCHANGED mgmtVars
    <3>1. Active' = Active
      BY Zenon, <2>1 DEF mgmtVars, srvVars, Active
    <3> QED
      BY Zenon, <2>1, <3>1 DEF mgmtVars, srvVars, CountInv, CloseNilMeansQuiet, Quiet
  <2> QED
    BY Zenon, <2>1, CountStep
<1>3. Inv => CloseNilMeansQuiet
  OBVIOUS
<1> QED
  BY <1>1, <1>2, <1>3, PTL DEF MgmtSpec

-----------------------------------------------------------------------------
(* Shutdown against the senders.                                           *)

\* What is dropped stays counted, so that a slow subscriber stays slow.
LEMMA SlowStays ==
  ASSUME BusInv, [BusNext]_busVars, NEW c \in Subscriptions, Slow(c)
  PROVE  Slow(c)'
<1>1. BusInv'
  BY Zenon, BusStep
<1>2. lost[c] \subseteq lost'[c]
  <2>1. CASE UNCHANGED lost
    BY Zenon, <2>1
  <2>2. ASSUME NEW p \in Publishers, NEW s \in Subscriptions, Send(p, s)
        PROVE  lost[c] \subseteq lost'[c]
    <3>1. UNCHANGED lost \/ lost' = [lost EXCEPT ![s] = @ \cup {pub[p].ev}]
      BY Zenon, <2>2 DEF Send
    <3> QED
      BY Zenon, <3>1 DEF BusInv, BusTypes
  <2>3. CASE UNCHANGED busVars
    BY Zenon, <2>1, <2>3 DEF busVars
  <2>4. CASE BusNext
    BY Zenon, <2>1, <2>2, <2>4 DEF BusNext, Publish, PublishStep, resetDrops, recordDrop, CheckDrops,
       DisconnectSlow, Subscribe, Receive, CloseSubscription, CloseBus
  <2> QED
    BY Zenon, <2>3, <2>4
<1>3. IsFiniteSet(lost'[c])
  BY Zenon, <1>1 DEF BusInv, BusTypes
<1>4. Cardinality(lost[c]) <= Cardinality(lost'[c])
  BY Zenon, <1>2, <1>3, FS_Subset
<1>5. IsFiniteSet(lost[c])
  BY Zenon DEF BusInv, BusTypes
<1>6. Cardinality(lost[c]) \in Nat /\ Cardinality(lost'[c]) \in Nat
  BY Zenon, <1>3, <1>5, FS_CardinalityType
<1> QED
  BY <1>4, <1>6, BusAssumption DEF Slow

\* A client that has gone does not come back.
LEMMA GoneStays ==
  ASSUME DOMAIN client = Clients, MgmtNext, NEW c \in Clients, client[c] = "gone"
  PROVE  client'[c] = "gone"
<1>1. ASSUME NEW d \in Clients, SrvStep(d)
      PROVE  client'[c] = "gone"
  BY Zenon, <1>1 DEF SrvStep, Dial, SendRequest, ClientLeaves, ClientReadsEnd, ClientStalls, Accept,
     StartHandler, HandlerReturns, ReadFails, Answer, EventsEnd, TakeSnapshot, WriteSnapshot, TailEnds
<1>2. ASSUME NEW d \in Clients, StreamStep(d)
      PROVE  client'[c] = "gone"
  BY Zenon, <1>2 DEF StreamStep, SubscribeEvents, ForwardEvent, Unsubscribe, RegisterWatcher,
     ForwardChunk, Unregister
<1>3. CASE UNCHANGED srvVars
  BY Zenon, <1>3 DEF srvVars
<1> QED
  BY Zenon, <1>1, <1>2, <1>3 DEF MgmtNext, AcceptLoopEnds, CloseListener, CloseAgain, CloseReturnsNil, CloseTimesOut,
     ShutdownBegins, ShutdownJoins, ShutdownClosesWatchers, ShutdownClosesBus

\* Only Shutdown moves Shutdown on.
LEMMA ShutdownMoves ==
  ASSUME MgmtNext
  PROVE  \/ shutdown' = shutdown
         \/ /\ ShutdownBegins \/ ShutdownJoins
            /\ UNCHANGED <<busVars, logVars>>
         \/ ShutdownClosesWatchers \/ ShutdownClosesBus
<1>1. ASSUME NEW c \in Clients, SrvStep(c) \/ StreamStep(c)
      PROVE  shutdown' = shutdown
  BY Zenon, <1>1 DEF SrvStep, Dial, SendRequest, ClientLeaves, ClientReadsEnd, ClientStalls, Accept,
     StartHandler, HandlerReturns, ReadFails, Answer, EventsEnd, TakeSnapshot, WriteSnapshot, TailEnds, StreamStep,
     SubscribeEvents, ForwardEvent, Unsubscribe, RegisterWatcher, ForwardChunk, Unregister
<1>2. CASE UNCHANGED srvVars
  BY Zenon, <1>2 DEF srvVars
<1> QED
  BY Zenon, <1>1, <1>2 DEF MgmtNext, AcceptLoopEnds, CloseListener, CloseAgain, CloseReturnsNil, CloseTimesOut

\* A subscription's channel is closed by the handler that leaves its stream, by
\* a publisher that found it too slow, or with the bus.
LEMMA EventChannelCloses ==
  ASSUME BusInv, MgmtNext, NEW c \in Clients
  PROVE  /\ chClosed[c] => chClosed'[c]
         /\ chClosed'[c] => \/ chClosed[c]
                            \/ busClosed
                            \/ ShutdownClosesBus
                            \/ handler[c] = "unsubscribe"
                            \/ \E p \in Publishers : pub[p].pc = "disconnect" /\ pub[p].sub = c
<1>0. c \in Subscriptions /\ DOMAIN chClosed = Subscriptions
  BY Zenon, ClientAssumption DEF BusInv, BusTypes
<1>1. CASE UNCHANGED chClosed
  BY Zenon, <1>1
<1>2. ASSUME NEW d \in Clients, SubscribeEvents(d) \/ Unsubscribe(d)
      PROVE  /\ chClosed[c] => chClosed'[c]
             /\ chClosed'[c] => chClosed[c] \/ busClosed \/ handler[c] = "unsubscribe"
  <2>1. CASE UNCHANGED chClosed
    BY Zenon, <2>1
  <2>2. CASE /\ chClosed' = [chClosed EXCEPT ![d] = TRUE]
             /\ busClosed \/ handler[d] = "unsubscribe"
    BY Zenon, <1>0, <2>2
  <2> QED
    BY Zenon, <1>2, <2>1, <2>2 DEF SubscribeEvents, Unsubscribe, Subscribe, CloseSubscription, disconnect
<1>3. CASE ShutdownClosesBus
  <2>1. UNCHANGED busVars \/ CloseBus
    BY Zenon, <1>3 DEF ShutdownClosesBus
  <2> QED
    BY Zenon, <1>0, <1>3, <2>1 DEF busVars, CloseBus
<1>4. ASSUME NEW p \in Publishers, DisconnectSlow(p)
      PROVE  /\ chClosed[c] => chClosed'[c]
             /\ chClosed'[c] => chClosed[c] \/ (pub[p].pc = "disconnect" /\ pub[p].sub = c)
  <2>1. /\ pub[p].pc = "disconnect"
        /\ UNCHANGED chClosed \/ chClosed' = [chClosed EXCEPT ![pub[p].sub] = TRUE]
    BY Zenon, <1>4 DEF DisconnectSlow, disconnect
  <2> QED
    BY Zenon, <1>0, <2>1
<1>5. ASSUME NEW p \in Publishers, PublishNew(p) \/ PublishStep(p)
      PROVE  UNCHANGED chClosed \/ DisconnectSlow(p)
  BY Zenon, <1>5 DEF PublishNew, Publish, PublishStep, Send, resetDrops, recordDrop, CheckDrops
<1>6. ASSUME NEW d \in Clients, StreamStep(d)
      PROVE  UNCHANGED chClosed \/ SubscribeEvents(d) \/ Unsubscribe(d)
  BY Zenon, <1>6 DEF StreamStep, ForwardEvent, RegisterWatcher, ForwardChunk, Unregister, Receive, busVars
<1>7. CASE UNCHANGED busVars \/ ShutdownClosesWatchers
  BY Zenon, <1>1, <1>7 DEF busVars, ShutdownClosesWatchers
<1> QED
  BY Zenon, <1>1, <1>2, <1>3, <1>4, <1>5, <1>6, <1>7 DEF MgmtNext

\* Closing and starting handles changes nothing but the read loop.
LEMMA HandleFrame ==
  ASSUME NEW p \in Processes, HandleStep(p)
  PROVE  UNCHANGED <<ring, emitted, emit, watchers, watched, wch, wClosed, logPanicked, registered,
                     wDue, wLost>>
  BY Zenon DEF HandleStep, JoinReadLoop, TakeController, StartReadLoop

\* A watcher's channel is closed by the handler that leaves its stream or by
\* Shutdown.
LEMMA LogChannelCloses ==
  ASSUME DOMAIN wClosed = Clients, MgmtNext, NEW c \in Clients
  PROVE  /\ DOMAIN wClosed' = Clients
         /\ wClosed[c] => wClosed'[c]
         /\ wClosed'[c] => wClosed[c] \/ ShutdownClosesWatchers \/ handler[c] = "unregister"
<1>1. CASE UNCHANGED wClosed
  BY Zenon, <1>1
<1>2. ASSUME NEW d \in Clients, Unregister(d)
      PROVE  /\ DOMAIN wClosed' = Clients
             /\ wClosed[c] => wClosed'[c]
             /\ wClosed'[c] => wClosed[c] \/ handler[c] = "unregister"
  <2>1. /\ handler[d] = "unregister"
        /\ UNCHANGED wClosed \/ wClosed' = [wClosed EXCEPT ![d] = TRUE]
    BY Zenon, <1>2 DEF Unregister, unregister
  <2> QED
    BY Zenon, <2>1
<1>3. CASE ShutdownClosesWatchers
  BY Zenon, <1>3, ClientAssumption DEF ShutdownClosesWatchers, closeLogWatchers
<1>4. ASSUME NEW d \in Clients, StreamStep(d)
      PROVE  UNCHANGED wClosed \/ Unregister(d)
  BY Zenon, <1>4 DEF StreamStep, SubscribeEvents, ForwardEvent, Unsubscribe, RegisterWatcher, ForwardChunk,
     WatchLogs, TakeChunk, logVars
<1>5. ASSUME NEW p \in Processes, EmitStep(p) \/ HandleStep(p)
      PROVE  UNCHANGED wClosed
  BY Zenon, <1>5, HandleFrame DEF EmitStep, CollectChunk, TakeWatchers, SendChunk
<1>6. CASE UNCHANGED logVars \/ ShutdownClosesBus
  BY Zenon, <1>1, <1>6 DEF logVars, ShutdownClosesBus
<1> QED
  BY Zenon, <1>1, <1>2, <1>3, <1>4, <1>5, <1>6 DEF MgmtNext

\* A handler leaves its stream when its client has gone or its channel is closed.
LEMMA StreamIsLeft ==
  ASSUME CountInv, MgmtNext, NEW c \in Clients
  PROVE  /\ handler'[c] = "unsubscribe" =>
              handler[c] = "unsubscribe" \/ client[c] = "gone" \/ chClosed[c]
         /\ handler'[c] = "unregister" =>
              handler[c] = "unregister" \/ client[c] = "gone" \/ wClosed[c]
<1>0. DOMAIN handler = Clients
  BY Zenon DEF CountInv
<1> DEFINE Left == /\ handler'[c] = "unsubscribe" =>
                        handler[c] = "unsubscribe" \/ client[c] = "gone" \/ chClosed[c]
                   /\ handler'[c] = "unregister" =>
                        handler[c] = "unregister" \/ client[c] = "gone" \/ wClosed[c]
<1>1. CASE UNCHANGED handler
  BY Zenon, <1>1
<1>2. ASSUME NEW d \in Clients, d # c, SrvStep(d) \/ StreamStep(d)
      PROVE  handler'[c] = handler[c]
  BY Zenon, <1>0, <1>2 DEF SrvStep, Dial, SendRequest, ClientLeaves, ClientReadsEnd, ClientStalls, Accept,
     StartHandler, HandlerReturns, ReadFails, Answer, EventsEnd, TakeSnapshot, WriteSnapshot, TailEnds, StreamStep,
     SubscribeEvents, ForwardEvent, Unsubscribe, RegisterWatcher, ForwardChunk, Unregister
<1>3. ASSUME NEW r \in FollowRequests \cup OtherRequests, SendRequest(c, r)
      PROVE  Left
  <2>1. r.kind \notin {"unsubscribe", "unregister"}
    BY DEF FollowRequests, OtherRequests
  <2> QED
    BY Zenon, <1>0, <1>3, <2>1 DEF SendRequest
<1>4. CASE \/ Dial(c) \/ ClientLeaves(c) \/ ClientReadsEnd(c) \/ ClientStalls(c) \/ Accept(c)
           \/ StartHandler(c) \/ HandlerReturns(c) \/ ReadFails(c) \/ Answer(c) \/ TakeSnapshot(c) \/ WriteSnapshot(c)
  BY Zenon, <1>0, <1>4 DEF Dial, ClientLeaves, ClientReadsEnd, ClientStalls, Accept,
     StartHandler, HandlerReturns, ReadFails, Answer, TakeSnapshot, WriteSnapshot
<1>5. CASE EventsEnd(c) \/ TailEnds(c)
  BY Zenon, <1>0, <1>5 DEF EventsEnd, TailEnds
<1>6. CASE StreamStep(c)
  BY Zenon, <1>0, <1>6 DEF StreamStep, SubscribeEvents, ForwardEvent, Unsubscribe, RegisterWatcher,
     ForwardChunk, Unregister, Connected
<1>7. CASE SrvStep(c)
  BY Zenon, <1>3, <1>4, <1>5, <1>7 DEF SrvStep
<1>8. ASSUME NEW d \in Clients, SrvStep(d) \/ StreamStep(d)
      PROVE  Left
  BY Zenon, <1>2, <1>6, <1>7, <1>8
<1>9. CASE UNCHANGED srvVars
  BY Zenon, <1>1, <1>9 DEF srvVars
<1> QED
  BY Zenon, <1>1, <1>8, <1>9 DEF MgmtNext, AcceptLoopEnds, CloseListener, CloseAgain, CloseReturnsNil, CloseTimesOut,
     ShutdownBegins, ShutdownJoins, ShutdownClosesWatchers, ShutdownClosesBus

\* After the join no publisher is busy, and a read loop that runs is one that
\* Shutdown could not wait for.
LEMMA NobodySends ==
  ASSUME CloseInv, DOMAIN emit = Processes, MgmtNext
  PROVE  /\ (~Watching => Joined)' /\ EmitsInLoop'
         /\ readLoop' \in [Processes -> {"held", "taken", "ended"}]
<1> DEFINE Loops == readLoop \in [Processes -> {"held", "taken", "ended"}]
<1>0. (~Watching => Joined) /\ EmitsInLoop /\ Loops
  BY Zenon DEF CloseInv
<1>1. CASE UNCHANGED <<readLoop, pub, emit>>
  <2>1. ~Watching' => ~Watching \/ ShutdownJoins
    <3>1. ~Watching' => ~Watching \/ shutdown' # shutdown
      BY Zenon DEF Watching
    <3>2. ShutdownBegins => Watching'
      BY Zenon DEF ShutdownBegins, Watching
    <3>3. ShutdownClosesWatchers \/ ShutdownClosesBus => ~Watching
      BY Zenon DEF ShutdownClosesWatchers, ShutdownClosesBus, Watching
    <3> QED
      BY Zenon, <3>1, <3>2, <3>3, ShutdownMoves
  <2>2. ShutdownJoins => Joined
    BY Zenon DEF ShutdownJoins, Quiesced, Joined
  <2>3. Joined' = Joined /\ EmitsInLoop' = EmitsInLoop
    BY Zenon, <1>1 DEF Joined, EmitsInLoop
  <2> QED
    BY Zenon, <1>0, <1>1, <2>1, <2>2, <2>3
<1>2. ASSUME NEW p \in Publishers, PublishNew(p) \/ PublishStep(p), UNCHANGED <<srvVars, logVars>>
      PROVE  (~Watching => Joined)' /\ EmitsInLoop' /\ Loops'
  <2>1. UNCHANGED <<shutdown, readLoop, emit>>
    BY Zenon, <1>2 DEF srvVars, logVars
  <2>2. Watching
    <3>1. CASE PublishNew(p)
      BY Zenon, <3>1 DEF PublishNew
    <3>2. CASE PublishStep(p)
      <4>1. pub[p].pc # "idle"
        BY Zenon, <3>2 DEF PublishStep, Send, resetDrops, recordDrop, CheckDrops, DisconnectSlow
      <4> QED
        BY Zenon, <1>0, <4>1 DEF Joined
    <3> QED
      BY Zenon, <1>2, <3>1, <3>2
  <2> QED
    BY Zenon, <1>0, <2>1, <2>2 DEF Watching, EmitsInLoop
<1>3. ASSUME NEW p \in Processes, EmitStep(p), UNCHANGED <<srvVars, busVars>>
      PROVE  (~Watching => Joined)' /\ EmitsInLoop' /\ Loops'
  <2>1. UNCHANGED <<shutdown, pub, readLoop>>
    BY Zenon, <1>3 DEF srvVars, busVars, EmitStep, CollectChunk, TakeWatchers, SendChunk
  <2>2. \A q \in Processes : q # p => emit'[q] = emit[q]
    BY Zenon, <1>3 DEF EmitStep, CollectChunk, TakeWatchers, SendChunk
  <2>3. readLoop[p] # "ended"
    BY Zenon, <1>0, <1>3 DEF EmitStep, CollectChunk, TakeWatchers, SendChunk, EmitsInLoop
  <2>4. readLoop[p] \in {"held", "taken"}
    BY Zenon, <1>0, <2>3
  <2>5. EmitsInLoop'
    BY Zenon, <1>0, <2>1, <2>2, <2>4 DEF EmitsInLoop
  <2> QED
    BY Zenon, <1>0, <2>1, <2>5 DEF Watching, Joined
<1>4. ASSUME NEW p \in Processes, HandleStep(p), UNCHANGED <<srvVars, busVars>>
      PROVE  (~Watching => Joined)' /\ EmitsInLoop' /\ Loops'
  <2>1. UNCHANGED <<shutdown, pub, emit>>
    BY Zenon, <1>4, HandleFrame DEF srvVars, busVars
  <2>2. PICK how \in {"held", "taken", "ended"} :
          /\ readLoop' = [readLoop EXCEPT ![p] = how]
          /\ how = "held" => shutdown = "idle"
          /\ how = "ended" => emit[p].pc = "idle"
    BY Zenon, <1>4 DEF HandleStep, JoinReadLoop, TakeController, StartReadLoop
  <2>3. Loops' /\ readLoop'[p] = how /\ \A q \in Processes : q # p => readLoop'[q] = readLoop[q]
    BY Zenon, <1>0, <2>2
  <2>4. EmitsInLoop'
    BY Zenon, <1>0, <2>1, <2>2, <2>3 DEF EmitsInLoop
  <2>5. ~Watching' => ~Watching /\ how # "held"
    BY Zenon, <2>1, <2>2 DEF Watching
  <2> QED
    BY Zenon, <1>0, <2>1, <2>3, <2>4, <2>5 DEF Joined
<1>5. ASSUME NEW c \in Clients, StreamStep(c)
      PROVE  UNCHANGED <<readLoop, pub, emit>>
  BY Zenon, <1>5 DEF StreamStep, SubscribeEvents, ForwardEvent, Unsubscribe, RegisterWatcher,
     ForwardChunk, Unregister, Subscribe, Receive, CloseSubscription, WatchLogs, TakeChunk, unregister,
     busVars, logVars
<1>6. CASE ShutdownClosesWatchers \/ ShutdownClosesBus
  <2>1. UNCHANGED <<readLoop, pub, emit>>
    BY Zenon, <1>6 DEF ShutdownClosesWatchers, ShutdownClosesBus, closeLogWatchers, CloseBus, busVars, logVars
  <2> QED
    BY Zenon, <1>1, <2>1
<1>7. CASE UNCHANGED <<busVars, logVars>>
  BY Zenon, <1>1, <1>7 DEF busVars, logVars
<1> QED
  BY Zenon, <1>1, <1>2, <1>3, <1>4, <1>5, <1>6, <1>7 DEF MgmtNext

\* Shutdown closes the channels only when their senders have ended; before that
\* a channel is closed for a client that has gone or a slow subscriber.
LEMMA CloseStep ==
  ASSUME BusInv, CountInv, CloseInv, DOMAIN emit = Processes, MgmtNext
  PROVE  CloseInv'
<1>1. \A c \in Clients : Slow(c) => Slow(c)'
  BY Zenon, SlowStays, BusIsUsed, ClientAssumption
<1>2. \A c \in Clients : client[c] = "gone" => client'[c] = "gone"
  BY Zenon, GoneStays DEF CountInv
<1>3. /\ shutdown = "done" => shutdown' = "done"
      /\ shutdown \in {"watchers", "done"} => shutdown' \in {"watchers", "done"}
  BY Zenon, ShutdownMoves DEF ShutdownBegins, ShutdownJoins, ShutdownClosesWatchers, ShutdownClosesBus
<1>4. DOMAIN wClosed = Clients
  BY Zenon DEF CloseInv
<1>5. DOMAIN wClosed' = Clients
  <2>1. CASE \E c \in Clients : TRUE
    BY Zenon, <1>4, <2>1, LogChannelCloses
  <2>2. CASE ~\E c \in Clients : TRUE
    <3>1. \A p \in Processes, w \in Watchers : ~SendChunk(p, w)
      BY Zenon, <2>2, ClientAssumption
    <3> QED
      BY Zenon, <1>4, <2>2, <3>1, ClientAssumption, HandleFrame DEF MgmtNext, ShutdownClosesWatchers,
         ShutdownClosesBus, closeLogWatchers, logVars, EmitStep, CollectChunk, TakeWatchers
  <2> QED
    BY Zenon, <2>1, <2>2
<1>6. (busClosed => shutdown = "done")'
  <2>1. busClosed' => busClosed \/ ShutdownClosesBus
    BY Zenon DEF MgmtNext, StreamStep, SubscribeEvents, ForwardEvent, Unsubscribe, RegisterWatcher,
       ForwardChunk, Unregister, Subscribe, Receive, CloseSubscription, ShutdownClosesWatchers, PublishNew,
       Publish, PublishStep, Send, resetDrops, recordDrop, CheckDrops, DisconnectSlow, busVars
  <2>2. ShutdownClosesBus => shutdown' = "done"
    BY Zenon DEF ShutdownClosesBus
  <2> QED
    BY Zenon, <1>3, <2>1, <2>2 DEF CloseInv
<1>7. ASSUME NEW c \in Clients
      PROVE  (chClosed[c] => shutdown = "done" \/ client[c] = "gone" \/ Slow(c))'
  <2>1. chClosed[c] \/ busClosed \/ handler[c] = "unsubscribe" =>
          shutdown = "done" \/ client[c] = "gone" \/ Slow(c)
    BY Zenon DEF CloseInv
  <2>2. \A p \in Publishers : pub[p].pc = "disconnect" /\ pub[p].sub = c => Slow(c)
    BY Zenon DEF BusInv, DropsCounted
  <2>3. ShutdownClosesBus => shutdown' = "done"
    BY Zenon DEF ShutdownClosesBus
  <2>4. chClosed'[c] => shutdown = "done" \/ client[c] = "gone" \/ Slow(c) \/ ShutdownClosesBus
    BY Zenon, <2>1, <2>2, EventChannelCloses
  <2> QED
    BY Zenon, <1>1, <1>2, <1>3, <2>3, <2>4
<1>8. ASSUME NEW c \in Clients
      PROVE  (wClosed[c] => shutdown \in {"watchers", "done"} \/ client[c] = "gone")'
  <2>1. wClosed[c] \/ handler[c] = "unregister" =>
          shutdown \in {"watchers", "done"} \/ client[c] = "gone"
    BY Zenon DEF CloseInv
  <2>2. ShutdownClosesWatchers => shutdown' \in {"watchers", "done"}
    BY Zenon DEF ShutdownClosesWatchers
  <2>3. wClosed'[c] => wClosed[c] \/ ShutdownClosesWatchers \/ handler[c] = "unregister"
    BY Zenon, <1>4, LogChannelCloses
  <2> QED
    BY Zenon, <1>2, <1>3, <2>1, <2>2, <2>3
<1>9. ASSUME NEW c \in Clients
      PROVE  /\ (handler[c] = "unsubscribe" => client[c] = "gone" \/ chClosed[c])'
             /\ (handler[c] = "unregister" => client[c] = "gone" \/ wClosed[c])'
  <2>1. chClosed[c] => chClosed'[c]
    BY Zenon, EventChannelCloses
  <2>2. wClosed[c] => wClosed'[c]
    BY Zenon, <1>4, LogChannelCloses
  <2>3. /\ handler'[c] = "unsubscribe" => client[c] = "gone" \/ chClosed[c]
        /\ handler'[c] = "unregister" => client[c] = "gone" \/ wClosed[c]
    BY Zenon, StreamIsLeft DEF CloseInv
  <2> QED
    BY Zenon, <1>2, <2>1, <2>2, <2>3
<1>10. /\ (~Watching => Joined)' /\ EmitsInLoop'
       /\ readLoop' \in [Processes -> {"held", "taken", "ended"}]
  BY Zenon, NobodySends
<1> QED
  BY Zenon, <1>5, <1>6, <1>7, <1>8, <1>9, <1>10 DEF CloseInv

\* A send on a closed channel comes before the join, or from a read loop that
\* Shutdown did not join.
LEMMA PanicStep ==
  ASSUME BusInv, CountInv, CloseInv, MgmtNext
  PROVE  ShutdownNeverPanics'
<1>1. ASSUME NEW p \in Publishers, NEW s \in Subscriptions, Send(p, s), chClosed[s],
             UNCHANGED <<srvVars, logVars>>
      PROVE  (Watching /\ \E c \in Clients : client[c] = "gone" \/ Slow(c))'
  <2>1. Watching /\ shutdown' = shutdown
    BY Zenon, <1>1 DEF Send, CloseInv, Joined, srvVars
  <2>2. s \in Clients /\ shutdown # "done"
    BY Zenon, <2>1, ClientAssumption DEF Watching
  <2>3. client[s] = "gone" \/ Slow(s)
    BY Zenon, <1>1, <2>2 DEF CloseInv
  <2>4. client'[s] = "gone" \/ Slow(s)'
    BY Zenon, <2>2, <2>3, GoneStays, SlowStays, BusIsUsed DEF CountInv
  <2> QED
    BY Zenon, <2>1, <2>2, <2>4 DEF Watching
<1>2. ASSUME NEW p \in Processes, NEW w \in Watchers, SendChunk(p, w), wClosed[w],
             UNCHANGED <<srvVars, busVars>>
      PROVE  \/ (Watching /\ \E c \in Clients : client[c] = "gone")'
             \/ (~Watching /\ \E q \in Processes : readLoop[q] = "taken" /\ emit[q].pc = "send")'
  <2>1. /\ readLoop[p] \in {"held", "taken"} /\ UNCHANGED <<shutdown, readLoop, emit>>
        /\ emit[p].pc = "send"
    BY Zenon, <1>2 DEF SendChunk, CloseInv, EmitsInLoop, srvVars
  <2>2. w \in Clients
    BY Zenon, ClientAssumption
  <2>3. CASE Watching
    <3>1. shutdown \notin {"watchers", "done"}
      BY Zenon, <2>3 DEF Watching
    <3>2. client[w] = "gone"
      BY Zenon, <1>2, <2>2, <3>1 DEF CloseInv
    <3>3. client'[w] = "gone"
      BY Zenon, <2>2, <3>2, GoneStays DEF CountInv
    <3> QED
      BY Zenon, <2>1, <2>2, <2>3, <3>3 DEF Watching
  <2>4. CASE ~Watching
    <3>1. readLoop[p] = "taken"
      BY Zenon, <2>1, <2>4 DEF CloseInv, Joined
    <3> QED
      BY Zenon, <2>1, <2>4, <3>1 DEF Watching
  <2> QED
    BY Zenon, <2>3, <2>4
<1>3. ~panicked /\ ~logPanicked
  BY Zenon DEF MgmtNext, Panicked
<1>4. panicked' => \E p \in Publishers, s \in Subscriptions :
                     Send(p, s) /\ chClosed[s] /\ UNCHANGED <<srvVars, logVars>>
  BY ZenonT(30), <1>3 DEF MgmtNext, StreamStep, SubscribeEvents, ForwardEvent, Unsubscribe, RegisterWatcher,
     ForwardChunk, Unregister, Subscribe, Receive, CloseSubscription, ShutdownClosesWatchers,
     ShutdownClosesBus, CloseBus, PublishNew,
     Publish, PublishStep, Send, resetDrops, recordDrop, CheckDrops, DisconnectSlow, busVars
<1>5. logPanicked' => \E p \in Processes, w \in Watchers :
                        SendChunk(p, w) /\ wClosed[w] /\ UNCHANGED <<srvVars, busVars>>
  BY ZenonT(30), <1>3, HandleFrame DEF MgmtNext, StreamStep, SubscribeEvents, ForwardEvent, Unsubscribe,
     RegisterWatcher, ForwardChunk, Unregister, WatchLogs, TakeChunk, unregister, ShutdownClosesWatchers, ShutdownClosesBus,
     closeLogWatchers, EmitStep, CollectChunk, TakeWatchers, SendChunk, logVars
<1> QED
  BY Zenon, <1>1, <1>2, <1>4, <1>5 DEF ShutdownNeverPanics

-----------------------------------------------------------------------------
(* Followers of logs.                                                      *)

\* A step that is none of c's.
SameClient(c) ==
  /\ handler'[c] = handler[c] /\ request'[c] = request[c] /\ snapshot'[c] = snapshot[c]
  /\ live'[c] = live[c] /\ wch'[c] = wch[c] /\ wDue'[c] = wDue[c] /\ wLost'[c] = wLost[c]
  /\ watched'[c] = watched[c] /\ (c \in registered' <=> c \in registered)
  /\ c \in watchers' => c \in watchers

\* Such a step leaves a client's stream as it was.
LEMMA ClientFrame ==
  ASSUME NEW c \in Clients, ClientOK(c), SameClient(c), UNCHANGED <<emitted, emit>>
  PROVE  ClientOK(c)'
<1>1. OnItsWay(c)' = OnItsWay(c)
  BY Zenon DEF OnItsWay
<1>2. \A p : FannedOut(p)' = FannedOut(p)
  BY Zenon DEF FannedOut
<1>3. HandlerOK(c)'
  BY Zenon DEF ClientOK, HandlerOK, SameClient
<1>4. SnapshotOK(c)'
  BY Zenon DEF ClientOK, SnapshotOK, SameClient
<1>5. DueOK(c)'
  <2>1. FannedOut(watched[c])' = FannedOut(watched[c])
    BY Zenon DEF FannedOut, SameClient
  <2> QED
    BY <2>1 DEF ClientOK, DueOK, SameClient
<1>6. QueueOK(c)'
  BY Zenon DEF ClientOK, QueueOK, SameClient
<1>7. AccountOK(c)'
  BY Zenon, <1>1 DEF ClientOK, AccountOK, SameClient
<1> QED
  BY Zenon, <1>3, <1>4, <1>5, <1>6, <1>7 DEF ClientOK

\* emitLogChunk of a process is not disturbed by registrations, nor by chunks
\* of other processes.
LEMMA EmitFrame ==
  ASSUME NEW p \in Processes, EmitOK(p), LogTypes,
         ring'[p] = ring[p], emitted'[p] = emitted[p], emit'[p] = emit[p],
         registered \subseteq registered',
         \A w \in registered : watched'[w] = watched[w] /\ wDue[w] \subseteq wDue'[w]
  PROVE  EmitOK(p)'
<1>1. \A t \in StdStreams : \A a \in Numbers(ring'[p][t]) : a <= emitted'[p]
  BY Zenon DEF EmitOK
<1>2. CASE emit[p].pc # "send"
  BY Zenon, <1>1, <1>2 DEF EmitOK
<1>3. CASE emit[p].pc = "send"
  <2>1. /\ emit[p].todo \subseteq registered
        /\ emit[p].chunk \in Chunks /\ emit[p].chunk.n = emitted[p]
        /\ DOMAIN emit[p] = {"pc", "todo", "chunk"}
        /\ \A w \in emit[p].todo : watched[w] = p /\ emit[p].chunk \in wDue[w]
    BY Zenon, <1>3 DEF EmitOK
  <2>2. emit'[p].todo \subseteq registered'
    BY Zenon, <2>1
  <2>3. \A w \in emit'[p].todo : watched'[w] = p /\ emit'[p].chunk \in wDue'[w]
    BY Zenon, <2>1
  <2> QED
    BY Zenon, <1>1, <1>3, <2>1, <2>2, <2>3 DEF EmitOK
<1> QED
  BY Zenon, <1>2, <1>3

\* A handler that is, or turns to, something else than following, and a client
\* that follows but has not registered yet.
LEMMA HandlerMoves ==
  ASSUME FollowInv, UNCHANGED <<ring, emitted, emit, watched, registered, wDue, wLost, wch, live>>,
         watchers' \subseteq watchers,
         snapshot' \in [Clients -> Seq(Chunks)], DOMAIN request' = Clients, DOMAIN handler' = Clients,
         NEW c \in Clients,
         \A d \in Clients : d # c => /\ handler'[d] = handler[d] /\ request'[d] = request[d]
                                     /\ snapshot'[d] = snapshot[d],
         \/ /\ request'[c] = request[c] /\ snapshot'[c] = snapshot[c]
            /\ handler'[c] \notin {"follow", "writesnap", "watch", "tail"}
            /\ handler'[c] = "unregister" => handler[c] = "tail"
            /\ c \in registered => handler'[c] \in {"unregister", "return", "done"}
         \/ /\ c \notin registered
            /\ handler'[c] \notin {"tail", "unregister"}
            /\ handler'[c] \in {"follow", "writesnap", "watch"} =>
                 request'[c].process \in Processes /\ request'[c].stream \in StdStreams
            /\ handler'[c] \in {"writesnap", "watch"} =>
                 \A a \in Numbers(snapshot'[c]) : a <= emitted[request'[c].process]
  PROVE  FollowInv'
<1>1. LogTypes'
  BY Zenon DEF FollowInv, LogTypes
<1>2. ASSUME NEW p \in Processes
      PROVE  EmitOK(p)'
  BY Zenon, EmitFrame DEF FollowInv
<1>3. ASSUME NEW d \in Clients, d # c
      PROVE  ClientOK(d)'
  <2>1. SameClient(d)
    BY Zenon, <1>3 DEF SameClient
  <2> QED
    BY Zenon, <2>1, ClientFrame DEF FollowInv
<1>4. ClientOK(c)'
  <2>0. ClientOK(c)
    BY Zenon DEF FollowInv
  <2>1. HandlerOK(c)'
    BY Zenon, <2>0 DEF ClientOK, HandlerOK
  <2>2. SnapshotOK(c)'
    BY Zenon, <2>0 DEF ClientOK, SnapshotOK
  <2>3. DueOK(c)'
    <3>1. FannedOut(watched[c])' = FannedOut(watched[c])
      BY Zenon DEF FannedOut
    <3> QED
      BY <2>0, <3>1 DEF ClientOK, DueOK
  <2>4. QueueOK(c)'
    BY Zenon, <2>0 DEF ClientOK, QueueOK
  <2>5. AccountOK(c)'
    BY Zenon DEF AccountOK
  <2> QED
    BY Zenon, <2>1, <2>2, <2>3, <2>4, <2>5 DEF ClientOK
<1> QED
  BY Zenon, <1>1, <1>2, <1>3, <1>4 DEF FollowInv

\* The steps of a handler that leave the log pipeline alone.
LEMMA HandlerFollows ==
  ASSUME CountInv, FollowInv, UNCHANGED logVars, NEW c \in Clients,
         SrvStep(c) \/ SubscribeEvents(c) \/ ForwardEvent(c) \/ Unsubscribe(c)
  PROVE  FollowInv'
<1>0. /\ DOMAIN handler = Clients /\ DOMAIN request = Clients /\ snapshot \in [Clients -> Seq(Chunks)]
      /\ HandlerOK(c) /\ SnapshotOK(c)
      /\ UNCHANGED <<ring, emitted, emit, watched, registered, wDue, wLost, wch>> /\ watchers' \subseteq watchers
  BY Zenon DEF CountInv, FollowInv, LogTypes, logVars, ClientOK
<1>1. UNCHANGED live
  BY Zenon DEF SrvStep, Dial, SendRequest, ClientLeaves, ClientReadsEnd, ClientStalls, Accept,
     StartHandler, HandlerReturns, ReadFails, Answer, EventsEnd, TakeSnapshot, WriteSnapshot, TailEnds,
     SubscribeEvents, ForwardEvent, Unsubscribe
<1>2. ASSUME NEW r \in FollowRequests \cup OtherRequests, SendRequest(c, r)
      PROVE  FollowInv'
  <2>1. /\ r.kind \notin {"tail", "unregister", "writesnap", "watch"}
        /\ r.kind = "follow" => r.process \in Processes /\ r.stream \in StdStreams
    BY DEF FollowRequests, OtherRequests
  <2>2. /\ DOMAIN handler' = Clients /\ DOMAIN request' = Clients /\ snapshot' = snapshot
        /\ handler[c] = "read" /\ handler'[c] = r.kind /\ request'[c] = r
        /\ \A d \in Clients : d # c => handler'[d] = handler[d] /\ request'[d] = request[d]
    BY Zenon, <1>0, <1>2 DEF SendRequest
  <2>3. c \notin registered
    BY Zenon, <1>0, <2>2 DEF HandlerOK
  <2> QED
    BY Zenon, <1>0, <1>1, <2>1, <2>2, <2>3, HandlerMoves
<1>3. CASE Dial(c) \/ ClientLeaves(c) \/ ClientReadsEnd(c) \/ ClientStalls(c)
  <2>1. UNCHANGED <<handler, request, snapshot>>
    BY Zenon, <1>3 DEF Dial, ClientLeaves, ClientReadsEnd, ClientStalls
  <2>2. \A d \in Clients : ClientOK(d)'
    BY Zenon, <1>0, <1>1, <2>1, ClientFrame DEF SameClient, FollowInv
  <2>3. \A p \in Processes : EmitOK(p)'
    BY Zenon, <1>0, EmitFrame DEF FollowInv
  <2>4. LogTypes'
    BY Zenon, <1>0, <1>1, <2>1 DEF FollowInv, LogTypes
  <2> QED
    BY Zenon, <2>2, <2>3, <2>4 DEF FollowInv
<1>4. CASE \/ Accept(c) \/ StartHandler(c) \/ HandlerReturns(c) \/ ReadFails(c) \/ Answer(c)
           \/ EventsEnd(c) \/ TailEnds(c) \/ SubscribeEvents(c) \/ ForwardEvent(c) \/ Unsubscribe(c)
  <2>1. /\ UNCHANGED <<request, snapshot>> /\ DOMAIN handler' = Clients
        /\ \A d \in Clients : d # c => handler'[d] = handler[d]
    BY Zenon, <1>0, <1>4 DEF Accept, StartHandler, HandlerReturns, ReadFails, Answer, EventsEnd, TailEnds,
       SubscribeEvents, ForwardEvent, Unsubscribe
  <2>2. c \in registered => handler[c] \in {"tail", "unregister", "return", "done"}
    BY Zenon, <1>0 DEF HandlerOK
  <2>3. Accept(c) \/ StartHandler(c) => handler[c] = "none"
    BY Zenon DEF Accept, StartHandler, CountInv
  <2>4. /\ handler'[c] \notin {"follow", "writesnap", "watch", "tail"}
        /\ handler'[c] = "unregister" => handler[c] = "tail"
        /\ c \in registered => handler'[c] \in {"unregister", "return", "done"}
    BY Zenon, <1>0, <1>4, <2>2, <2>3 DEF Accept, StartHandler, HandlerReturns, ReadFails, Answer,
       EventsEnd, TailEnds, SubscribeEvents, ForwardEvent, Unsubscribe
  <2> QED
    BY Zenon, <1>0, <1>1, <2>1, <2>4, HandlerMoves
<1>5. CASE TakeSnapshot(c)
  <2>1. /\ UNCHANGED request /\ DOMAIN handler' = Clients /\ handler[c] = "follow" /\ handler'[c] = "writesnap"
        /\ \A d \in Clients : d # c => handler'[d] = handler[d] /\ snapshot'[d] = snapshot[d]
        /\ snapshot' = [snapshot EXCEPT ![c] = ring[request[c].process][request[c].stream]]
    BY Zenon, <1>0, <1>5 DEF TakeSnapshot
  <2>2. c \notin registered /\ request[c].process \in Processes /\ request[c].stream \in StdStreams
    BY Zenon, <1>0, <2>1 DEF HandlerOK
  <2>3. ring[request[c].process][request[c].stream] \in Seq(Chunks)
    BY <2>2 DEF FollowInv, LogTypes
  <2>4. snapshot' \in [Clients -> Seq(Chunks)]
    BY Zenon, <1>0, <2>1, <2>3
  <2>5. \A a \in Numbers(snapshot'[c]) : a <= emitted[request[c].process]
    BY ZenonT(30), <1>0, <2>1, <2>2 DEF FollowInv, EmitOK
  <2> QED
    BY Zenon, <1>0, <1>1, <2>1, <2>2, <2>4, <2>5, HandlerMoves
<1>6. CASE WriteSnapshot(c)
  <2>1. /\ UNCHANGED <<request, snapshot>> /\ DOMAIN handler' = Clients /\ handler[c] = "writesnap"
        /\ handler'[c] \in {"watch", "return"}
        /\ \A d \in Clients : d # c => handler'[d] = handler[d]
    BY Zenon, <1>0, <1>6 DEF WriteSnapshot
  <2>2. c \notin registered /\ request[c].process \in Processes /\ request[c].stream \in StdStreams
    BY Zenon, <1>0, <2>1 DEF HandlerOK
  <2>3. \A a \in Numbers(snapshot[c]) : a <= emitted[request[c].process]
    BY Zenon, <1>0, <2>1 DEF SnapshotOK
  <2> QED
    BY Zenon, <1>0, <1>1, <2>1, <2>2, <2>3, HandlerMoves
<1> QED
  BY Zenon, <1>2, <1>3, <1>4, <1>5, <1>6 DEF SrvStep

\* The registration of a follower (WatchLogs).
LEMMA RegisterFollows ==
  ASSUME CountInv, FollowInv, NEW c \in Clients, RegisterWatcher(c)
  PROVE  FollowInv'
<1>0. /\ DOMAIN handler = Clients /\ DOMAIN watched = Clients /\ ClientOK(c) /\ LogTypes
      /\ watchers \subseteq registered /\ registered \subseteq Clients
  BY Zenon DEF CountInv, FollowInv, LogTypes
<1>1. /\ handler[c] = "watch" /\ handler'[c] = "tail" /\ DOMAIN handler' = Clients
      /\ watched'[c] = request[c].process /\ DOMAIN watched' = Clients
      /\ \A d \in Clients : d # c => handler'[d] = handler[d] /\ watched'[d] = watched[d]
      /\ c \notin registered /\ registered' = registered \cup {c} /\ watchers' = watchers \cup {c}
      /\ UNCHANGED <<request, snapshot, live, ring, emitted, emit, wch, wDue, wLost>>
  BY Zenon, <1>0 DEF RegisterWatcher, WatchLogs
<1>2. LogTypes'
  BY Zenon, <1>0, <1>1 DEF LogTypes
<1>3. ASSUME NEW p \in Processes
      PROVE  EmitOK(p)'
  <2>1. \A w \in registered : watched'[w] = watched[w] /\ wDue[w] \subseteq wDue'[w]
    BY Zenon, <1>0, <1>1
  <2> QED
    BY Zenon, <1>0, <1>1, <2>1, EmitFrame DEF FollowInv
<1>4. ASSUME NEW d \in Clients, d # c
      PROVE  ClientOK(d)'
  <2>1. SameClient(d)
    BY Zenon, <1>1, <1>4 DEF SameClient
  <2> QED
    BY Zenon, <1>1, <2>1, ClientFrame DEF FollowInv
<1>5. ClientOK(c)'
  <2>1. /\ wDue[c] = {} /\ wch[c] = <<>> /\ live[c] = <<>>
        /\ request[c].process \in Processes /\ request[c].stream \in StdStreams
    BY Zenon, <1>0, <1>1 DEF ClientOK, HandlerOK
  <2>2. HandlerOK(c)'
    BY Zenon, <1>1, <2>1 DEF HandlerOK
  <2>3. SnapshotOK(c)'
    BY Zenon, <1>0, <1>1, <2>1 DEF ClientOK, SnapshotOK
  <2>4. DueOK(c)'
    BY Zenon, <1>1, <2>1 DEF DueOK
  <2>5. QueueOK(c)'
    BY Zenon, <1>0, <1>1 DEF ClientOK, QueueOK
  <2>6. AccountOK(c)'
    BY Zenon, <1>1, <2>1 DEF AccountOK
  <2> QED
    BY Zenon, <2>2, <2>3, <2>4, <2>5, <2>6 DEF ClientOK
<1> QED
  BY Zenon, <1>2, <1>3, <1>4, <1>5 DEF FollowInv

\* A follower that leaves, and Shutdown: no watcher is given anything more.
LEMMA UnregisterFollows ==
  ASSUME CountInv, FollowInv,
         (\E c \in Clients : Unregister(c)) \/ ShutdownClosesWatchers
  PROVE  FollowInv'
<1>0. DOMAIN handler = Clients /\ LogTypes
  BY Zenon DEF CountInv, FollowInv
<1>1. ASSUME NEW c \in Clients, Unregister(c)
      PROVE  FollowInv'
  <2>1. /\ handler[c] = "unregister" /\ handler'[c] = "return" /\ DOMAIN handler' = Clients
        /\ \A d \in Clients : d # c => handler'[d] = handler[d]
        /\ watchers' \subseteq watchers
        /\ UNCHANGED <<request, snapshot, live, ring, emitted, emit, wch, wDue, wLost, watched, registered>>
    BY Zenon, <1>0, <1>1 DEF Unregister, unregister
  <2>2. DOMAIN request = Clients /\ snapshot \in [Clients -> Seq(Chunks)]
    BY Zenon, <1>0 DEF LogTypes
  <2> QED
    BY Zenon, <2>1, <2>2, HandlerMoves
<1>2. CASE ShutdownClosesWatchers
  <2>1. /\ watchers' = {}
        /\ UNCHANGED <<request, snapshot, live, ring, emitted, emit, wch, wDue, wLost, watched, registered,
                       handler>>
    BY Zenon, <1>2 DEF ShutdownClosesWatchers, closeLogWatchers
  <2>2. \A d \in Clients : ClientOK(d)'
    BY Zenon, <2>1, ClientFrame DEF SameClient, FollowInv
  <2>3. \A p \in Processes : EmitOK(p)'
    BY Zenon, <2>1, EmitFrame DEF FollowInv
  <2>4. LogTypes'
    BY Zenon, <1>0, <2>1 DEF LogTypes
  <2> QED
    BY Zenon, <2>2, <2>3, <2>4 DEF FollowInv
<1> QED
  BY Zenon, <1>1, <1>2

\* A chunk at the end of a stream (chunkBuffer.append, a send).
LEMMA ChunkAppended ==
  ASSUME NEW q \in Seq(Chunks), NEW k \in Chunks
  PROVE  /\ Numbers(Append(q, k)) = Numbers(q) \cup {k.n}
         /\ Increasing(q) /\ (\A a \in Numbers(q) : a < k.n) => Increasing(Append(q, k))
         /\ \A D : k \in D /\ (\A i \in DOMAIN q : q[i] \in D) =>
              \A i \in DOMAIN Append(q, k) : Append(q, k)[i] \in D
<1>1. /\ DOMAIN Append(q, k) = DOMAIN q \cup {Len(q) + 1}
      /\ \A i \in DOMAIN q : Append(q, k)[i] = q[i] /\ i < Len(q) + 1
      /\ Append(q, k)[Len(q) + 1] = k
  OBVIOUS
<1>2. Numbers(Append(q, k)) = Numbers(q) \cup {k.n}
  BY Zenon, <1>1 DEF Numbers
<1>3. ASSUME Increasing(q), \A a \in Numbers(q) : a < k.n,
             NEW i \in DOMAIN Append(q, k), NEW j \in DOMAIN Append(q, k), i < j
      PROVE  Append(q, k)[i].n < Append(q, k)[j].n
  <2>1. i \in DOMAIN q
    BY <1>1, <1>3
  <2>2. CASE j \in DOMAIN q
    BY Zenon, <1>1, <1>3, <2>1, <2>2 DEF Increasing
  <2>3. CASE j = Len(q) + 1
    BY Zenon, <1>1, <1>3, <2>1, <2>3 DEF Numbers
  <2> QED
    BY Zenon, <1>1, <2>2, <2>3
<1>4. Increasing(q) /\ (\A a \in Numbers(q) : a < k.n) => Increasing(Append(q, k))
  BY Zenon, <1>3 DEF Increasing
<1> QED
  BY Zenon, <1>1, <1>2, <1>4

\* A chunk taken from the front of a stream.
LEMMA ChunkTaken ==
  ASSUME NEW q \in Seq(Chunks), q # <<>>
  PROVE  /\ Head(q) \in Chunks /\ Tail(q) \in Seq(Chunks)
         /\ Numbers(q) = Numbers(Tail(q)) \cup {Head(q).n}
         /\ Increasing(q) => /\ Increasing(Tail(q))
                             /\ \A b \in Numbers(Tail(q)) : Head(q).n < b
         /\ \A D : (\A i \in DOMAIN q : q[i] \in D) =>
              Head(q) \in D /\ \A i \in DOMAIN Tail(q) : Tail(q)[i] \in D
<1>1. /\ Head(q) = q[1] /\ 1 \in DOMAIN q /\ Head(q) \in Chunks /\ Tail(q) \in Seq(Chunks)
      /\ \A i \in DOMAIN Tail(q) : i + 1 \in DOMAIN q /\ Tail(q)[i] = q[i + 1] /\ 1 < i + 1
      /\ \A i \in DOMAIN q : i # 1 => i - 1 \in DOMAIN Tail(q) /\ q[i] = Tail(q)[i - 1]
      /\ \A i, j \in DOMAIN Tail(q) : i < j => i + 1 < j + 1
  OBVIOUS
<1>2. Numbers(q) = Numbers(Tail(q)) \cup {Head(q).n}
  <2>1. ASSUME NEW a \in Numbers(q)
        PROVE  a \in Numbers(Tail(q)) \cup {Head(q).n}
    <3>1. PICK i \in DOMAIN q : a = q[i].n
      BY Zenon, <2>1 DEF Numbers
    <3>2. i # 1 => i - 1 \in DOMAIN Tail(q) /\ a = Tail(q)[i - 1].n
      BY Zenon, <1>1, <3>1
    <3> QED
      BY Zenon, <1>1, <3>1, <3>2 DEF Numbers
  <2>2. ASSUME NEW a \in Numbers(Tail(q)) \cup {Head(q).n}
        PROVE  a \in Numbers(q)
    BY <1>1, <2>2 DEF Numbers
  <2> QED
    BY Zenon, <2>1, <2>2
<1>3. Increasing(q) => /\ Increasing(Tail(q))
                       /\ \A b \in Numbers(Tail(q)) : Head(q).n < b
  <2> SUFFICES ASSUME Increasing(q)
               PROVE  Increasing(Tail(q)) /\ \A b \in Numbers(Tail(q)) : Head(q).n < b
    OBVIOUS
  <2>1. Increasing(Tail(q))
    BY Zenon, <1>1 DEF Increasing
  <2>2. \A b \in Numbers(Tail(q)) : Head(q).n < b
    BY <1>1 DEF Increasing, Numbers
  <2> QED
    BY Zenon, <2>1, <2>2
<1> QED
  BY Zenon, <1>1, <1>2, <1>3

\* A follower's stream: what was written to it, then what waits.
LEMMA ChunksJoined ==
  ASSUME NEW q \in Seq(Chunks), NEW r \in Seq(Chunks)
  PROVE  /\ Numbers(q \o r) = Numbers(q) \cup Numbers(r)
         /\ Increasing(q) /\ Increasing(r) /\ (\A a \in Numbers(q), b \in Numbers(r) : a < b) =>
              Increasing(q \o r)
<1>1. /\ \A i \in DOMAIN (q \o r) : \/ i \in DOMAIN q /\ (q \o r)[i] = q[i]
                                    \/ i - Len(q) \in DOMAIN r /\ i > Len(q)
                                       /\ (q \o r)[i] = r[i - Len(q)]
      /\ \A i \in DOMAIN q : i \in DOMAIN (q \o r) /\ (q \o r)[i] = q[i] /\ i <= Len(q)
      /\ \A i \in DOMAIN r : i + Len(q) \in DOMAIN (q \o r) /\ (q \o r)[i + Len(q)] = r[i]
      /\ DOMAIN (q \o r) \subseteq Nat /\ Len(q) \in Nat
  OBVIOUS
<1>2. Numbers(q \o r) = Numbers(q) \cup Numbers(r)
  <2>1. ASSUME NEW a \in Numbers(q \o r)
        PROVE  a \in Numbers(q) \cup Numbers(r)
    BY <1>1, <2>1 DEF Numbers
  <2>2. ASSUME NEW a \in Numbers(q) \cup Numbers(r)
        PROVE  a \in Numbers(q \o r)
    <3>1. CASE a \in Numbers(q)
      BY <1>1, <3>1 DEF Numbers
    <3>2. CASE a \in Numbers(r)
      <4>1. PICK i \in DOMAIN r : a = r[i].n
        BY Zenon, <3>2 DEF Numbers
      <4>2. i + Len(q) \in DOMAIN (q \o r) /\ (q \o r)[i + Len(q)].n = a
        BY Zenon, <1>1, <4>1
      <4> QED
        BY Zenon, <4>2 DEF Numbers
    <3> QED
      BY Zenon, <2>2, <3>1, <3>2
  <2> QED
    BY Zenon, <2>1, <2>2
<1>3. ASSUME Increasing(q), Increasing(r), \A a \in Numbers(q), b \in Numbers(r) : a < b,
             NEW i \in DOMAIN (q \o r), NEW j \in DOMAIN (q \o r), i < j
      PROVE  (q \o r)[i].n < (q \o r)[j].n
  <2>1. CASE j \in DOMAIN q /\ (q \o r)[j] = q[j]
    <3>1. i \in DOMAIN q /\ (q \o r)[i] = q[i]
      BY <1>1, <1>3, <2>1
    <3> QED
      BY Zenon, <1>3, <2>1, <3>1 DEF Increasing
  <2>2. CASE j - Len(q) \in DOMAIN r /\ (q \o r)[j] = r[j - Len(q)]
    <3>1. CASE i \in DOMAIN q /\ (q \o r)[i] = q[i]
      BY Zenon, <1>3, <2>2, <3>1 DEF Numbers
    <3>2. CASE i - Len(q) \in DOMAIN r /\ (q \o r)[i] = r[i - Len(q)]
      <4>1. i - Len(q) < j - Len(q)
        BY <1>1, <1>3
      <4> QED
        BY Zenon, <1>3, <2>2, <3>2, <4>1 DEF Increasing
    <3> QED
      BY Zenon, <1>1, <3>1, <3>2
  <2> QED
    BY Zenon, <1>1, <2>1, <2>2
<1> QED
  BY Zenon, <1>2, <1>3 DEF Increasing

\* handleLogsFollow takes a chunk: it is written, skipped, or the stream ends.
LEMMA ForwardFollows ==
  ASSUME CountInv, FollowInv, NEW c \in Clients, ForwardChunk(c)
  PROVE  FollowInv'
<1> DEFINE q == wch[c]
           l == live[c]
           k == Head(wch[c])
<1>0. /\ DOMAIN handler = Clients /\ wch \in [Clients -> Seq(Chunks)] /\ live \in [Clients -> Seq(Chunks)]
      /\ q \in Seq(Chunks) /\ l \in Seq(Chunks) /\ ClientOK(c) /\ LogTypes
  BY Zenon DEF CountInv, FollowInv, LogTypes
<1>1. /\ handler[c] = "tail" /\ q # <<>> /\ wch'[c] = Tail(q) /\ wch' = [wch EXCEPT ![c] = Tail(@)]
      /\ UNCHANGED <<request, snapshot, ring, emitted, emit, wDue, wLost, watched, registered, watchers>>
  BY Zenon, <1>0 DEF ForwardChunk, TakeChunk
<1>2. \/ k.stream # request[c].stream /\ UNCHANGED <<handler, live>>
      \/ live' = [live EXCEPT ![c] = Append(@, k)] /\ UNCHANGED handler
      \/ handler' = [handler EXCEPT ![c] = "unregister"] /\ UNCHANGED live
  BY Zenon DEF ForwardChunk
<1>3. /\ \A d \in Clients : d # c => /\ handler'[d] = handler[d] /\ live'[d] = live[d]
                                     /\ wch'[d] = wch[d]
      /\ \/ k.stream # request[c].stream /\ handler'[c] = "tail" /\ live'[c] = l
         \/ live'[c] = Append(l, k) /\ handler'[c] = "tail"
         \/ handler'[c] = "unregister" /\ live'[c] = l
  BY Zenon, <1>0, <1>1, <1>2
<1>4. /\ k \in Chunks /\ Tail(q) \in Seq(Chunks) /\ Append(l, k) \in Seq(Chunks)
      /\ Numbers(q) = Numbers(Tail(q)) \cup {k.n}
      /\ Numbers(Append(l, k)) = Numbers(l) \cup {k.n}
      /\ Increasing(q) => /\ Increasing(Tail(q))
                          /\ \A b \in Numbers(Tail(q)) : k.n < b
      /\ Increasing(l) /\ (\A a \in Numbers(l) : a < k.n) => Increasing(Append(l, k))
  <2>1. k \in Chunks /\ Tail(q) \in Seq(Chunks)
    BY Zenon, <1>0, <1>1, ChunkTaken
  <2>2. Append(l, k) \in Seq(Chunks)
    BY <1>0, <2>1
  <2> QED
    BY Zenon, <1>0, <1>1, <2>1, <2>2, ChunkTaken, ChunkAppended
<1>5. LogTypes'
  <2>1. wch' \in [Clients -> Seq(Chunks)]
    BY Zenon, <1>0, <1>1, <1>4
  <2>2. live' \in [Clients -> Seq(Chunks)]
    BY Zenon, <1>0, <1>2, <1>4
  <2> QED
    BY Zenon, <1>0, <1>1, <2>1, <2>2 DEF LogTypes
<1>6. ASSUME NEW p \in Processes
      PROVE  EmitOK(p)'
  BY Zenon, <1>1, EmitFrame DEF FollowInv
<1>7. ASSUME NEW d \in Clients, d # c
      PROVE  ClientOK(d)'
  <2>1. SameClient(d)
    BY Zenon, <1>1, <1>3, <1>7 DEF SameClient
  <2> QED
    BY Zenon, <1>1, <2>1, ClientFrame DEF FollowInv
<1>8. ClientOK(c)'
  <2>0. c \in registered
    BY Zenon, <1>0, <1>1 DEF ClientOK, HandlerOK
  <2>1. HandlerOK(c)'
    BY Zenon, <1>0, <1>1, <1>3, <2>0 DEF ClientOK, HandlerOK
  <2>2. SnapshotOK(c)'
    BY Zenon, <1>0, <1>1, <2>0 DEF ClientOK, SnapshotOK
  <2>3. DueOK(c)'
    <3>1. FannedOut(watched[c])' = FannedOut(watched[c])
      BY Zenon, <1>1 DEF FannedOut
    <3> QED
      BY <1>0, <1>1, <3>1 DEF ClientOK, DueOK
  <2>4. /\ Increasing(l) /\ Increasing(q) /\ \A a \in Numbers(l), b \in Numbers(q) : a < b
        /\ \A i \in DOMAIN l : l[i] \in wDue[c]
        /\ \A i \in DOMAIN q : q[i] \in wDue[c]
    BY Zenon, <1>0 DEF ClientOK, QueueOK
  <2>5. k \in wDue[c] /\ \A i \in DOMAIN Tail(q) : Tail(q)[i] \in wDue[c]
    BY Zenon, <1>0, <1>1, <2>4, ChunkTaken
  <2>6. \A i \in DOMAIN Append(l, k) : Append(l, k)[i] \in wDue[c]
    BY Zenon, <1>0, <1>4, <2>4, <2>5, ChunkAppended
  <2>7. Numbers(live'[c]) \cup Numbers(wch'[c]) \subseteq Numbers(l) \cup Numbers(q)
    BY Zenon, <1>1, <1>3, <1>4
  <2>8. Increasing(live'[c]) /\ Increasing(wch'[c])
    BY Zenon, <1>1, <1>3, <1>4, <2>4
  <2>9. \A a \in Numbers(live'[c]), b \in Numbers(wch'[c]) : a < b
    BY Zenon, <1>1, <1>3, <1>4, <2>4
  <2>10. /\ \A i \in DOMAIN live'[c] : live'[c][i] \in wDue'[c]
         /\ \A i \in DOMAIN wch'[c] : wch'[c][i] \in wDue'[c]
    BY Zenon, <1>1, <1>3, <2>4, <2>5, <2>6
  <2>11. \A p \in Processes : c \in emit[p].todo => \A a \in Numbers(l) \cup Numbers(q) : a < emitted[p]
    BY Zenon, <1>0 DEF ClientOK, QueueOK
  <2>12. \A p \in Processes : c \in emit'[p].todo =>
           \A a \in Numbers(live'[c]) \cup Numbers(wch'[c]) : a < emitted'[p]
    BY Zenon, <1>1, <2>7, <2>11
  <2>13. QueueOK(c)'
    BY Zenon, <2>8, <2>9, <2>10, <2>12 DEF QueueOK
  <2>14. ASSUME NEW j \in wDue[c], handler'[c] = "tail"
         PROVE  \/ j.stream # request[c].stream
                \/ j.n \in Numbers(live'[c]) \cup Numbers(wch'[c])
                \/ j \in wLost[c] \cup OnItsWay(c)
    <3>1. \/ j.stream # request[c].stream
          \/ j.n \in Numbers(l) \cup Numbers(q)
          \/ j \in wLost[c] \cup OnItsWay(c)
      BY Zenon, <1>0, <1>1 DEF ClientOK, AccountOK
    <3>2. j.n = k.n => j = k
      BY Zenon, <1>0, <2>5 DEF ClientOK, DueOK
    <3>3. CASE j.n = k.n
      BY Zenon, <1>3, <1>4, <2>14, <3>2, <3>3
    <3>4. CASE j.n # k.n
      BY Zenon, <1>1, <1>3, <1>4, <2>14, <3>1, <3>4
    <3> QED
      BY Zenon, <3>3, <3>4
  <2>15. OnItsWay(c)' = OnItsWay(c)
    BY Zenon, <1>1 DEF OnItsWay
  <2>16. AccountOK(c)'
    BY Zenon, <1>1, <2>14, <2>15 DEF AccountOK
  <2> QED
    BY Zenon, <2>1, <2>2, <2>3, <2>13, <2>16 DEF ClientOK
<1> QED
  BY Zenon, <1>5, <1>6, <1>7, <1>8 DEF FollowInv

\* Chunks are numbered with naturals.
LEMMA NumbersAreNat ==
  ASSUME NEW q \in Seq(Chunks)
  PROVE  Numbers(q) \subseteq Nat
<1> SUFFICES ASSUME NEW a \in Numbers(q) PROVE a \in Nat
  OBVIOUS
<1>1. PICK i \in DOMAIN q : a = q[i].n
  BY Zenon DEF Numbers
<1>2. q[i] \in Chunks
  BY <1>1
<1> QED
  BY <1>1, <1>2 DEF Chunks

\* chunkBuffer.append keeps nothing but the chunks it had and the new one.
LEMMA RetainKeeps ==
  ASSUME NEW q \in Seq(Chunks), NEW k \in Chunks
  PROVE  Retain(q, k) \in Seq(Chunks) /\ Numbers(Retain(q, k)) \subseteq Numbers(q) \cup {k.n}
<1>1. Append(q, k) \in Seq(Chunks) /\ Append(q, k) # <<>>
  <2>1. Append(q, k) \in Seq(Chunks) /\ Len(Append(q, k)) = Len(q) + 1 /\ Len(q) \in Nat
    OBVIOUS
  <2>2. Append(q, k) = <<>> => Len(Append(q, k)) = 0
    OBVIOUS
  <2> QED
    BY <2>1, <2>2
<1>2. Numbers(Append(q, k)) = Numbers(q) \cup {k.n}
  BY Zenon, ChunkAppended
<1>3. Tail(Append(q, k)) \in Seq(Chunks) /\ Numbers(Tail(Append(q, k))) \subseteq Numbers(Append(q, k))
  <2> DEFINE r == Append(q, k)
  <2>1. r \in Seq(Chunks) /\ r # <<>>
    BY Zenon, <1>1
  <2> HIDE DEF r
  <2>2. Tail(r) \in Seq(Chunks) /\ Numbers(r) = Numbers(Tail(r)) \cup {Head(r).n}
    BY Zenon, <2>1, ChunkTaken
  <2>3. Tail(r) \in Seq(Chunks) /\ Numbers(Tail(r)) \subseteq Numbers(r)
    BY Zenon, <2>2
  <2> QED
    BY Zenon, <2>3 DEF r
<1> QED
  BY Zenon, <1>1, <1>2, <1>3 DEF Retain

\* The Collector keeps a new chunk: nothing is due yet.
LEMMA CollectFollows ==
  ASSUME FollowInv, NEW p \in Processes, NEW t \in StdStreams, CollectChunk(p, t), UNCHANGED srvVars
  PROVE  FollowInv'
<1> DEFINE k == [n |-> emitted[p] + 1, stream |-> t]
<1>0. LogTypes /\ emitted \in [Processes -> Nat] /\ emit[p].pc = "idle"
  BY Zenon DEF FollowInv, LogTypes, CollectChunk
<1>1. /\ UNCHANGED <<handler, request, snapshot, live, wch, wDue, wLost, watched, registered, watchers>>
      /\ emitted' = [emitted EXCEPT ![p] = @ + 1]
      /\ ring' = [ring EXCEPT ![p][t] = Retain(@, k)]
      /\ emit' = [emit EXCEPT ![p] = [pc |-> "collected", todo |-> {}, chunk |-> k]]
  BY Zenon DEF CollectChunk, srvVars
<1>2. /\ emitted'[p] = emitted[p] + 1 /\ emitted'[p] \in Nat /\ emitted[p] \in Nat
      /\ \A q \in Processes : q # p => emitted'[q] = emitted[q]
      /\ emitted' \in [Processes -> Nat]
      /\ k \in Chunks /\ k.n = emitted'[p]
  BY <1>0, <1>1 DEF Chunks
<1>3. /\ DOMAIN emit' = Processes /\ emit'[p] = [pc |-> "collected", todo |-> {}, chunk |-> k]
      /\ \A q \in Processes : q # p => emit'[q] = emit[q]
  BY Zenon, <1>0, <1>1 DEF LogTypes
<1> HIDE DEF k
<1>4. /\ ring' \in [Processes -> [StdStreams -> Seq(Chunks)]]
      /\ \A q \in Processes : q # p => ring'[q] = ring[q]
      /\ \A u \in StdStreams : Numbers(ring'[p][u]) \subseteq Numbers(ring[p][u]) \cup {k.n}
  <2>0. ring \in [Processes -> [StdStreams -> Seq(Chunks)]]
    BY Zenon, <1>0 DEF LogTypes
  <2>1. ring[p] \in [StdStreams -> Seq(Chunks)] /\ ring[p][t] \in Seq(Chunks)
    BY <2>0
  <2>2. Retain(ring[p][t], k) \in Seq(Chunks)
        /\ Numbers(Retain(ring[p][t], k)) \subseteq Numbers(ring[p][t]) \cup {k.n}
    BY Zenon, <1>2, <2>1, RetainKeeps
  <2>3. ring' = [ring EXCEPT ![p] = [ring[p] EXCEPT ![t] = Retain(ring[p][t], k)]]
    BY Zenon, <1>1
  <2>4. [ring[p] EXCEPT ![t] = Retain(ring[p][t], k)] \in [StdStreams -> Seq(Chunks)]
    BY Zenon, <2>1, <2>2
  <2>5. ring' \in [Processes -> [StdStreams -> Seq(Chunks)]]
    BY Zenon, <2>0, <2>3, <2>4
  <2>6. /\ \A q \in Processes : q # p => ring'[q] = ring[q]
        /\ ring'[p] = [ring[p] EXCEPT ![t] = Retain(ring[p][t], k)]
    BY Zenon, <2>0, <2>3
  <2>7. ASSUME NEW u \in StdStreams
        PROVE  Numbers(ring'[p][u]) \subseteq Numbers(ring[p][u]) \cup {k.n}
    <3>1. ring'[p][u] = IF u = t THEN Retain(ring[p][t], k) ELSE ring[p][u]
      BY Zenon, <2>1, <2>6
    <3> QED
      BY Zenon, <2>2, <3>1
  <2> QED
    BY Zenon, <2>5, <2>6, <2>7
<1>5. LogTypes'
  BY Zenon, <1>0, <1>1, <1>2, <1>3, <1>4 DEF LogTypes
<1>6. ASSUME NEW q \in Processes
      PROVE  EmitOK(q)'
  <2>1. CASE q # p
    BY Zenon, <1>0, <1>1, <1>2, <1>3, <1>4, <2>1, EmitFrame DEF FollowInv
  <2>2. CASE q = p
    <3>1. ASSUME NEW u \in StdStreams, NEW a \in Numbers(ring'[p][u])
          PROVE  a <= emitted'[p]
      <4>1. a = k.n \/ a \in Numbers(ring[p][u])
        BY Zenon, <1>4, <3>1
      <4>2. a \in Numbers(ring[p][u]) => a <= emitted[p] /\ a \in Nat
        <5>1. ring[p][u] \in Seq(Chunks)
          BY <1>0 DEF LogTypes
        <5>2. a \in Numbers(ring[p][u]) => a \in Nat
          BY Zenon, <5>1, NumbersAreNat
        <5> QED
          BY Zenon, <5>2 DEF FollowInv, EmitOK
      <4> QED
        BY <1>2, <4>1, <4>2
    <3>2. /\ emit'[p].pc = "collected" /\ emit'[p].todo = {} /\ emit'[p].chunk = k
          /\ DOMAIN emit'[p] = {"pc", "todo", "chunk"}
      BY <1>3
    <3> QED
      BY Zenon, <1>2, <2>2, <3>1, <3>2 DEF EmitOK
  <2> QED
    BY Zenon, <2>1, <2>2
<1>7. ASSUME NEW c \in Clients
      PROVE  ClientOK(c)'
  <2>0. ClientOK(c)
    BY Zenon DEF FollowInv
  <2>1. \A q \in Processes : FannedOut(q)' = FannedOut(q)
    <3>1. FannedOut(p)' = FannedOut(p)
      BY <1>0, <1>2, <1>3 DEF FannedOut
    <3> QED
      BY Zenon, <1>2, <1>3, <3>1 DEF FannedOut
  <2>2. HandlerOK(c)'
    BY Zenon, <1>1, <2>0 DEF ClientOK, HandlerOK
  <2>3. SnapshotOK(c)'
    <3>1. ASSUME handler[c] \in {"writesnap", "watch"} \/ c \in registered, NEW a \in Numbers(snapshot[c])
          PROVE  a <= emitted'[request[c].process]
      <4>1. request[c].process \in Processes
        BY Zenon, <2>0, <3>1 DEF ClientOK, HandlerOK
      <4>2. a <= emitted[request[c].process]
        BY Zenon, <2>0, <3>1 DEF ClientOK, SnapshotOK
      <4>3. a \in Nat
        <5>1. snapshot[c] \in Seq(Chunks)
          BY Zenon, <1>0 DEF LogTypes
        <5> QED
          BY Zenon, <3>1, <5>1, NumbersAreNat
      <4>4. emitted[request[c].process] <= emitted'[request[c].process]
        BY <1>0, <1>2, <4>1
      <4> QED
        BY <1>0, <1>2, <4>1, <4>2, <4>3, <4>4
    <3> QED
      BY Zenon, <1>1, <2>0, <3>1 DEF ClientOK, SnapshotOK
  <2>4. DueOK(c)'
    <3>1. c \in registered => watched[c] \in Processes
      BY Zenon, <2>0 DEF ClientOK, HandlerOK
    <3>2. c \in registered => FannedOut(watched[c])' = FannedOut(watched[c])
      BY Zenon, <1>1, <2>1, <3>1
    <3>3. c \in watchers => c \in registered
      BY Zenon, <1>0 DEF LogTypes
    <3> QED
      BY <1>1, <2>0, <3>2, <3>3 DEF ClientOK, DueOK
  <2>5. QueueOK(c)'
    <3>1. ASSUME NEW q \in Processes, c \in emit'[q].todo
          PROVE  c \in emit[q].todo /\ emitted'[q] = emitted[q]
      <4>1. emit'[p].todo = {}
        BY <1>3
      <4> QED
        BY Zenon, <1>2, <1>3, <3>1, <4>1
    <3> QED
      BY Zenon, <1>1, <2>0, <3>1 DEF ClientOK, QueueOK
  <2>6. AccountOK(c)'
    <3>1. ASSUME NEW j \in OnItsWay(c)
          PROVE  j \in OnItsWay(c)'
      <4>1. PICK q \in Processes : emit[q].pc = "send" /\ c \in emit[q].todo /\ j = emit[q].chunk
        BY Zenon, <3>1 DEF OnItsWay
      <4>2. emit'[q] = emit[q]
        BY Zenon, <1>0, <1>3, <4>1
      <4> QED
        BY Zenon, <4>1, <4>2 DEF OnItsWay
    <3> QED
      BY Zenon, <1>1, <2>0, <3>1 DEF ClientOK, AccountOK
  <2> QED
    BY Zenon, <2>2, <2>3, <2>4, <2>5, <2>6 DEF ClientOK
<1> QED
  BY Zenon, <1>5, <1>6, <1>7 DEF FollowInv

\* One chunk more is due, the next after those fanned out before.
LEMMA DueGrows ==
  ASSUME NEW D \in SUBSET Chunks, NEW k \in Chunks,
         \A j \in D : j.n <= k.n - 1,
         \A j \in D : \A n \in j.n .. k.n - 1 : \E i \in D : i.n = n,
         \A a, b \in D : \A n \in a.n .. b.n : \E i \in D : i.n = n,
         \A a, b \in D : a.n = b.n => a = b
  PROVE  /\ \A j \in D \cup {k} : j.n <= k.n
         /\ \A j \in D \cup {k} : \A n \in j.n .. k.n : \E i \in D \cup {k} : i.n = n
         /\ \A a, b \in D \cup {k} : \A n \in a.n .. b.n : \E i \in D \cup {k} : i.n = n
         /\ \A a, b \in D \cup {k} : a.n = b.n => a = b
<1>0. k.n \in Nat /\ \A j \in D : j.n \in Nat
  BY DEF Chunks
<1>1. \A j \in D \cup {k} : j.n <= k.n
  BY <1>0
<1>2. ASSUME NEW j \in D \cup {k}, NEW n \in j.n .. k.n
      PROVE  \E i \in D \cup {k} : i.n = n
  <2>1. CASE n = k.n
    BY Zenon, <2>1
  <2>2. CASE n # k.n
    <3>1. j \in D /\ n \in j.n .. k.n - 1
      BY <1>0, <1>2, <2>2
    <3> QED
      BY Zenon, <3>1
  <2> QED
    BY Zenon, <2>1, <2>2
<1>3. ASSUME NEW a \in D \cup {k}, NEW b \in D \cup {k}, NEW n \in a.n .. b.n
      PROVE  \E i \in D \cup {k} : i.n = n
  <2>1. n \in a.n .. k.n
    BY <1>0, <1>1, <1>3
  <2> QED
    BY Zenon, <1>2, <2>1
<1>4. \A a, b \in D \cup {k} : a.n = b.n => a = b
  <2>1. \A j \in D : j.n # k.n
    BY <1>0
  <2> QED
    BY Zenon, <2>1
<1> QED
  BY Zenon, <1>1, <1>2, <1>3, <1>4

\* emitLogChunk takes the watchers: its chunk is due to each of them.
LEMMA TakeFollows ==
  ASSUME FollowInv, NEW p \in Processes, TakeWatchers(p), UNCHANGED srvVars
  PROVE  FollowInv'
<1> DEFINE active == {w \in watchers : watched[w] \in {p, AnyProcess}}
           k == emit[p].chunk
<1>0. LogTypes /\ emitted \in [Processes -> Nat] /\ watchers \subseteq registered /\ registered \subseteq Clients
  BY Zenon DEF FollowInv, LogTypes
<1>1. /\ UNCHANGED <<handler, request, snapshot, live, wch, wLost, watched, registered, watchers, emitted, ring>>
      /\ emit[p].pc = "collected"
      /\ emit' = [emit EXCEPT ![p] = IF active = {} THEN NotEmitting
                                     ELSE [@ EXCEPT !.pc = "send", !.todo = active]]
      /\ wDue' = [w \in Clients |-> wDue[w] \cup IF w \in active THEN {k} ELSE {}]
  BY Zenon, ClientAssumption DEF TakeWatchers, srvVars
<1>2. k \in Chunks /\ k.n = emitted[p] /\ DOMAIN emit[p] = {"pc", "todo", "chunk"} /\ emit[p].todo = {}
  BY Zenon, <1>1 DEF FollowInv, EmitOK
<1>3. \A w \in Clients : w \in active <=> w \in watchers /\ watched[w] = p
  <2>1. \A w \in watchers : watched[w] \in Processes
    BY Zenon, <1>0 DEF FollowInv, ClientOK, HandlerOK
  <2> QED
    BY Zenon, <1>0, <2>1, LogAssumption
<1>4. active \subseteq registered
  BY Zenon, <1>0
<1>5. /\ DOMAIN emit' = Processes /\ \A q \in Processes : q # p => emit'[q] = emit[q]
      /\ active = {} => emit'[p] = NotEmitting
      /\ active # {} => emit'[p] = [emit[p] EXCEPT !.pc = "send", !.todo = active]
  BY Zenon, <1>0, <1>1 DEF LogTypes
<1> HIDE DEF active
<1>6. /\ emit'[p].todo = active
      /\ active = {} => emit'[p].pc = "idle"
      /\ active # {} => /\ emit'[p].pc = "send" /\ emit'[p].chunk = k
                        /\ DOMAIN emit'[p] = {"pc", "todo", "chunk"}
  <2>1. CASE active = {}
    BY <1>5, <2>1 DEF NotEmitting
  <2>2. CASE active # {}
    BY <1>2, <1>5, <2>2
  <2> QED
    BY Zenon, <2>1, <2>2
<1> HIDE DEF k
<1>7. \A w \in Clients : /\ w \in active => wDue'[w] = wDue[w] \cup {k}
                         /\ w \notin active => wDue'[w] = wDue[w]
  BY Zenon, <1>1
<1>8. LogTypes'
  <2>1. wDue \in [Clients -> SUBSET Chunks]
    BY Zenon, <1>0 DEF LogTypes
  <2>2. wDue' \in [Clients -> SUBSET Chunks]
    BY Zenon, <1>1, <1>2, <2>1
  <2> QED
    BY Zenon, <1>0, <1>1, <1>5, <2>2 DEF LogTypes
<1>9. ASSUME NEW q \in Processes
      PROVE  EmitOK(q)'
  <2>1. CASE q # p
    <3>1. \A w \in registered : wDue[w] \subseteq wDue'[w]
      BY Zenon, <1>0, <1>7
    <3> QED
      BY Zenon, <1>0, <1>1, <1>5, <2>1, <3>1, EmitFrame DEF FollowInv
  <2>2. CASE q = p
    <3>1. \A w \in emit'[p].todo : watched'[w] = p /\ emit'[p].chunk \in wDue'[w]
      BY Zenon, <1>0, <1>1, <1>3, <1>4, <1>6, <1>7
    <3>2. \A t \in StdStreams : \A a \in Numbers(ring'[p][t]) : a <= emitted'[p]
      BY Zenon, <1>1 DEF FollowInv, EmitOK
    <3> QED
      BY Zenon, <1>1, <1>2, <1>4, <1>6, <2>2, <3>1, <3>2 DEF EmitOK
  <2> QED
    BY Zenon, <2>1, <2>2
<1>10. ASSUME NEW c \in Clients
       PROVE  ClientOK(c)'
  <2>0. ClientOK(c)
    BY Zenon DEF FollowInv
  <2>1. FannedOut(p) = k.n - 1 /\ FannedOut(p)' = k.n
    <3>1. emit'[p].pc # "collected"
      BY Zenon, <1>6
    <3> QED
      BY Zenon, <1>1, <1>2, <3>1 DEF FannedOut
  <2>2. \A q \in Processes : q # p => FannedOut(q)' = FannedOut(q)
    BY Zenon, <1>1, <1>5 DEF FannedOut
  <2>3. HandlerOK(c)'
    BY Zenon, <1>1, <1>4, <1>7, <2>0 DEF ClientOK, HandlerOK
  <2>4. SnapshotOK(c)'
    <3>1. ASSUME c \in active, NEW a \in Numbers(snapshot[c])
          PROVE  a <= k.n
      BY Zenon, <1>2, <1>3, <1>4, <2>0, <3>1 DEF ClientOK, HandlerOK, SnapshotOK
    <3> QED
      BY Zenon, <1>1, <1>7, <2>0, <3>1 DEF ClientOK, SnapshotOK
  <2>5. DueOK(c)'
    <3>1. CASE c \in active
      <4>1. c \in watchers /\ c \in registered /\ watched[c] = p /\ watched'[c] = p
            /\ wDue'[c] = wDue[c] \cup {k} /\ wDue[c] \in SUBSET Chunks
        BY Zenon, <1>0, <1>1, <1>3, <1>7, <3>1 DEF LogTypes
      <4>0. FannedOut(watched[c]) = k.n - 1
        BY <2>1, <4>1
      <4>2. /\ \A j \in wDue[c] : j.n <= k.n - 1
            /\ \A j \in wDue[c] : \A n \in j.n .. k.n - 1 : \E i \in wDue[c] : i.n = n
            /\ \A a, b \in wDue[c] : \A n \in a.n .. b.n : \E i \in wDue[c] : i.n = n
            /\ \A a, b \in wDue[c] : a.n = b.n => a = b
        <5>1. DueOK(c)
          BY Zenon, <2>0 DEF ClientOK
        <5> QED
          BY SMTT(30), <4>0, <4>1, <5>1 DEF DueOK
      <4> DEFINE D == wDue[c]
      <4> HIDE DEF D
      <4>3. D \in SUBSET Chunks /\ k \in Chunks
        BY Zenon, <1>2, <4>1 DEF D
      <4>4. /\ \A j \in D : j.n <= k.n - 1
            /\ \A j \in D : \A n \in j.n .. k.n - 1 : \E i \in D : i.n = n
            /\ \A a, b \in D : \A n \in a.n .. b.n : \E i \in D : i.n = n
            /\ \A a, b \in D : a.n = b.n => a = b
        BY Zenon, <4>2 DEF D
      <4>5. /\ \A j \in D \cup {k} : j.n <= k.n
            /\ \A j \in D \cup {k} : \A n \in j.n .. k.n : \E i \in D \cup {k} : i.n = n
            /\ \A a, b \in D \cup {k} : \A n \in a.n .. b.n : \E i \in D \cup {k} : i.n = n
            /\ \A a, b \in D \cup {k} : a.n = b.n => a = b
        BY Zenon, <4>3, <4>4, DueGrows
      <4>6. FannedOut(watched[c])' = k.n /\ wDue'[c] = D \cup {k}
        BY Zenon, <2>1, <4>1 DEF D
      <4> QED
        BY <4>5, <4>6 DEF DueOK
    <3>2. CASE c \notin active
      <4>1. wDue'[c] = wDue[c] /\ watched'[c] = watched[c]
        BY Zenon, <1>1, <1>7, <3>2
      <4>2. c \in registered => watched[c] \in Processes
        BY Zenon, <2>0 DEF ClientOK, HandlerOK
      <4>3. c \in watchers => c \in registered /\ FannedOut(watched[c])' = FannedOut(watched[c])
        BY Zenon, <1>0, <1>1, <1>3, <2>2, <3>2, <4>2
      <4>4. ASSUME c \in registered, NEW j \in wDue[c]
            PROVE  j.n <= FannedOut(watched[c])'
        <5>1. j.n <= FannedOut(watched[c])
          BY Zenon, <2>0, <4>4 DEF ClientOK, DueOK
        <5>2. CASE watched[c] = p
          <6>1. wDue \in [Clients -> SUBSET Chunks]
            BY Zenon, <1>0 DEF LogTypes
          <6>2. j \in Chunks
            BY Zenon, <4>4, <6>1
          <6>3. j.n \in Nat /\ k.n \in Nat /\ j.n <= k.n - 1
            BY <1>2, <2>1, <5>1, <5>2, <6>2 DEF Chunks
          <6>4. j.n <= k.n
            BY <6>3
          <6> QED
            BY Zenon, <2>1, <4>1, <5>2, <6>4
        <5>3. CASE watched[c] # p
          BY Zenon, <2>2, <4>1, <4>2, <4>4, <5>1, <5>3
        <5> QED
          BY Zenon, <5>2, <5>3
      <4> QED
        BY <1>1, <2>0, <4>1, <4>3, <4>4 DEF ClientOK, DueOK
    <3> QED
      BY Zenon, <3>1, <3>2
  <2>6. QueueOK(c)'
    <3>1. ASSUME c \in active, NEW a \in Numbers(live[c]) \cup Numbers(wch[c])
          PROVE  a < emitted[p]
      <4>1. PICK j \in wDue[c] : a = j.n
        BY Zenon, <2>0, <3>1 DEF ClientOK, QueueOK, Numbers
      <4>2. c \in registered /\ watched[c] = p
        BY Zenon, <1>3, <1>4, <3>1
      <4>3. j.n <= k.n - 1
        <5>1. FannedOut(watched[c]) = k.n - 1
          BY <2>1, <4>2
        <5>2. j.n <= FannedOut(watched[c])
          BY Zenon, <2>0, <4>1, <4>2 DEF ClientOK, DueOK
        <5> QED
          BY Zenon, <5>1, <5>2
      <4>4. j \in Chunks
        <5>1. wDue \in [Clients -> SUBSET Chunks]
          BY Zenon, <1>0 DEF LogTypes
        <5> QED
          BY Zenon, <4>1, <5>1
      <4>5. j.n \in Nat /\ k.n \in Nat
        BY <1>2, <4>4 DEF Chunks
      <4> QED
        BY <1>2, <4>1, <4>3, <4>5
    <3>2. ASSUME NEW q \in Processes, c \in emit'[q].todo, NEW a \in Numbers(live[c]) \cup Numbers(wch[c])
          PROVE  a < emitted[q]
      <4>1. CASE q = p
        BY Zenon, <1>6, <3>1, <3>2, <4>1
      <4>2. CASE q # p
        BY Zenon, <1>5, <2>0, <3>2, <4>2 DEF ClientOK, QueueOK
      <4> QED
        BY Zenon, <4>1, <4>2
    <3>3. wDue[c] \subseteq wDue'[c]
      BY Zenon, <1>7
    <3>4. /\ \A i \in DOMAIN live[c] : live[c][i] \in wDue'[c]
          /\ \A i \in DOMAIN wch[c] : wch[c][i] \in wDue'[c]
      BY Zenon, <2>0, <3>3 DEF ClientOK, QueueOK
    <3> QED
      BY Zenon, <1>1, <2>0, <3>2, <3>4 DEF ClientOK, QueueOK
  <2>7. AccountOK(c)'
    <3>1. ASSUME NEW j \in OnItsWay(c)
          PROVE  j \in OnItsWay(c)'
      <4>1. PICK q \in Processes : emit[q].pc = "send" /\ c \in emit[q].todo /\ j = emit[q].chunk
        BY Zenon, <3>1 DEF OnItsWay
      <4>2. emit'[q] = emit[q]
        BY Zenon, <1>1, <1>5, <4>1
      <4> QED
        BY Zenon, <4>1, <4>2 DEF OnItsWay
    <3>2. c \in active => k \in OnItsWay(c)'
      BY Zenon, <1>6 DEF OnItsWay
    <3>3. ASSUME NEW j \in wDue'[c], handler[c] = "tail"
          PROVE  \/ j.stream # request[c].stream
                 \/ j.n \in Numbers(live[c]) \cup Numbers(wch[c])
                 \/ j \in wLost[c] \cup OnItsWay(c)'
      <4>1. j \in wDue[c] \/ (c \in active /\ j = k)
        BY Zenon, <1>7, <3>3
      <4> QED
        BY Zenon, <2>0, <3>1, <3>2, <3>3, <4>1 DEF ClientOK, AccountOK
    <3> QED
      BY Zenon, <1>1, <3>3 DEF AccountOK
  <2> QED
    BY Zenon, <2>3, <2>4, <2>5, <2>6, <2>7 DEF ClientOK
<1> QED
  BY Zenon, <1>8, <1>9, <1>10 DEF FollowInv

\* emitLogChunk sends its chunk to one watcher, which has room or not.
LEMMA SendFollows ==
  ASSUME FollowInv, NEW p \in Processes, NEW w \in Watchers, SendChunk(p, w), UNCHANGED srvVars
  PROVE  FollowInv'
<1> DEFINE k == emit[p].chunk
           q == wch[w]
<1>0. LogTypes /\ w \in Clients /\ ClientOK(w) /\ EmitOK(p) /\ emit[p].pc = "send" /\ w \in emit[p].todo
  BY Zenon, ClientAssumption DEF FollowInv, SendChunk
<1>1. UNCHANGED <<handler, request, snapshot, live, watched, registered, watchers, emitted, ring, wDue>>
  BY Zenon DEF SendChunk, srvVars
<1>2. /\ k \in Chunks /\ k.n = emitted[p] /\ DOMAIN emit[p] = {"pc", "todo", "chunk"}
      /\ emit[p].todo \subseteq registered /\ w \in registered
      /\ \A v \in emit[p].todo : watched[v] = p /\ k \in wDue[v]
  BY Zenon, <1>0 DEF EmitOK
<1>3. CASE UNCHANGED <<wch, wLost, emit>>
  <2>1. \A d \in Clients : ClientOK(d)'
    BY Zenon, <1>1, <1>3, ClientFrame DEF SameClient, FollowInv
  <2>2. \A r \in Processes : EmitOK(r)'
    BY Zenon, <1>1, <1>3, EmitFrame DEF FollowInv
  <2>3. LogTypes'
    BY Zenon, <1>0, <1>1, <1>3 DEF LogTypes
  <2> QED
    BY Zenon, <2>1, <2>2, <2>3 DEF FollowInv
<1>4. ASSUME \/ wch' = [wch EXCEPT ![w] = Append(@, k)] /\ UNCHANGED wLost
             \/ wLost' = [wLost EXCEPT ![w] = @ \cup {k}] /\ UNCHANGED wch,
             emit' = IF emit[p].todo = {w} THEN [emit EXCEPT ![p] = NotEmitting]
                     ELSE [emit EXCEPT ![p].todo = @ \ {w}]
      PROVE  FollowInv'
  <2>0. /\ wch \in [Clients -> Seq(Chunks)] /\ q \in Seq(Chunks) /\ DOMAIN wLost = Clients
        /\ DOMAIN emit = Processes /\ live \in [Clients -> Seq(Chunks)]
    BY Zenon, <1>0 DEF LogTypes
  <2>1. /\ DOMAIN emit' = Processes /\ \A r \in Processes : r # p => emit'[r] = emit[r]
        /\ emit[p].todo = {w} => emit'[p] = NotEmitting
        /\ emit[p].todo # {w} => emit'[p] = [emit[p] EXCEPT !.todo = @ \ {w}]
    BY Zenon, <1>4, <2>0
  <2>2. /\ emit'[p].todo = emit[p].todo \ {w}
        /\ emit[p].todo = {w} => emit'[p].pc = "idle"
        /\ emit[p].todo # {w} => /\ emit'[p].pc = "send" /\ emit'[p].chunk = k
                                 /\ DOMAIN emit'[p] = {"pc", "todo", "chunk"}
    <3>1. CASE emit[p].todo = {w}
      BY <2>1, <3>1 DEF NotEmitting
    <3>2. CASE emit[p].todo # {w}
      BY <1>0, <1>2, <2>1, <3>2
    <3> QED
      BY Zenon, <3>1, <3>2
  <2> HIDE DEF k
  <2>3. /\ \A d \in Clients : d # w => wch'[d] = wch[d] /\ wLost'[d] = wLost[d]
        /\ \/ wch'[w] = Append(q, k) /\ wLost'[w] = wLost[w]
           \/ wch'[w] = q /\ wLost'[w] = wLost[w] \cup {k}
    BY Zenon, <1>0, <1>4, <2>0
  <2>4. Append(q, k) \in Seq(Chunks)
    BY <1>2, <2>0
  <2>5. LogTypes'
    <3>1. wch' \in [Clients -> Seq(Chunks)] /\ DOMAIN wLost' = Clients
      BY Zenon, <1>0, <1>4, <2>0, <2>4
    <3> QED
      BY Zenon, <1>0, <1>1, <2>1, <3>1 DEF LogTypes
  <2>6. ASSUME NEW r \in Processes
        PROVE  EmitOK(r)'
    <3>1. CASE r # p
      BY Zenon, <1>0, <1>1, <2>1, <3>1, EmitFrame DEF FollowInv
    <3>2. CASE r = p
      <4>1. \A t \in StdStreams : \A a \in Numbers(ring'[p][t]) : a <= emitted'[p]
        BY Zenon, <1>0, <1>1 DEF EmitOK
      <4>2. emit[p].todo = {w} => emit'[p].todo = {}
        BY Zenon, <2>2
      <4>3. emit'[p].todo \subseteq registered'
        BY Zenon, <1>1, <1>2, <2>2
      <4>4. emit[p].todo # {w} => \A v \in emit'[p].todo : watched'[v] = p /\ emit'[p].chunk \in wDue'[v]
        BY Zenon, <1>1, <1>2, <2>2 DEF k
      <4> QED
        BY Zenon, <1>1, <1>2, <2>2, <3>2, <4>1, <4>2, <4>3, <4>4 DEF EmitOK
    <3> QED
      BY Zenon, <3>1, <3>2
  <2>7. \A r \in Processes : FannedOut(r)' = FannedOut(r)
    <3>1. emit'[p].pc # "collected" /\ emit[p].pc # "collected"
      BY Zenon, <1>0, <2>2
    <3> QED
      BY Zenon, <1>1, <2>1, <3>1 DEF FannedOut
  <2>8. ASSUME NEW c \in Clients
        PROVE  HandlerOK(c)' /\ SnapshotOK(c)' /\ DueOK(c)'
    <3>0. ClientOK(c)
      BY Zenon DEF FollowInv
    <3>1. HandlerOK(c)'
      BY Zenon, <1>1, <1>2, <2>3, <3>0 DEF ClientOK, HandlerOK
    <3>2. SnapshotOK(c)'
      BY Zenon, <1>1, <3>0 DEF ClientOK, SnapshotOK
    <3>3. DueOK(c)'
      <4>1. c \in registered => watched[c] \in Processes
        BY Zenon, <3>0 DEF ClientOK, HandlerOK
      <4>2. c \in registered => FannedOut(watched[c])' = FannedOut(watched[c])
        BY Zenon, <1>1, <2>7, <4>1
      <4>3. c \in watchers => c \in registered
        BY Zenon, <1>0 DEF LogTypes
      <4> QED
        BY <1>1, <3>0, <4>2, <4>3 DEF ClientOK, DueOK
    <3> QED
      BY Zenon, <3>1, <3>2, <3>3
  <2>9. ASSUME NEW c \in Clients, c # w
        PROVE  QueueOK(c)' /\ AccountOK(c)'
    <3>0. ClientOK(c)
      BY Zenon DEF FollowInv
    <3>1. wch'[c] = wch[c] /\ wLost'[c] = wLost[c] /\ live'[c] = live[c]
      BY Zenon, <1>1, <2>3, <2>9
    <3>2. \A r \in Processes : c \in emit'[r].todo => c \in emit[r].todo
      BY Zenon, <2>1, <2>2
    <3>3. QueueOK(c)'
      BY Zenon, <1>1, <3>0, <3>1, <3>2 DEF ClientOK, QueueOK
    <3>4. ASSUME NEW j \in OnItsWay(c)
          PROVE  j \in OnItsWay(c)'
      <4>1. PICK r \in Processes : emit[r].pc = "send" /\ c \in emit[r].todo /\ j = emit[r].chunk
        BY Zenon, <3>4 DEF OnItsWay
      <4>2. CASE r # p
        BY Zenon, <2>1, <4>1, <4>2 DEF OnItsWay
      <4>3. CASE r = p
        <5>1. emit[p].todo # {w} /\ j = k
          BY Zenon, <2>9, <4>1, <4>3 DEF k
        <5>2. emit'[p].pc = "send" /\ c \in emit'[p].todo /\ j = emit'[p].chunk
          BY Zenon, <2>2, <2>9, <4>1, <4>3, <5>1
        <5> QED
          BY Zenon, <5>2 DEF OnItsWay
      <4> QED
        BY Zenon, <4>2, <4>3
    <3>5. AccountOK(c)'
      BY Zenon, <1>1, <3>0, <3>1, <3>4 DEF ClientOK, AccountOK
    <3> QED
      BY Zenon, <3>3, <3>5
  <2>10. QueueOK(w)' /\ AccountOK(w)'
    <3>1. /\ Increasing(live[w]) /\ Increasing(q) /\ \A a \in Numbers(live[w]), b \in Numbers(q) : a < b
          /\ \A i \in DOMAIN live[w] : live[w][i] \in wDue[w]
          /\ \A i \in DOMAIN q : q[i] \in wDue[w]
          /\ \A a \in Numbers(live[w]) \cup Numbers(q) : a < k.n
      BY Zenon, <1>0, <1>2 DEF ClientOK, QueueOK
    <3>2. k \in wDue[w]
      BY Zenon, <1>0, <1>2
    <3>3. Numbers(Append(q, k)) = Numbers(q) \cup {k.n}
      BY Zenon, <1>2, <2>0, ChunkAppended
    <3>4. Increasing(Append(q, k))
      BY Zenon, <1>2, <2>0, <3>1, ChunkAppended
    <3>5. \A i \in DOMAIN Append(q, k) : Append(q, k)[i] \in wDue[w]
      BY Zenon, <1>2, <2>0, <3>1, <3>2, ChunkAppended
    <3>6. \A r \in Processes : w \notin emit'[r].todo
      <4>1. ASSUME NEW r \in Processes, r # p, w \in emit[r].todo
            PROVE  FALSE
        <5>1. EmitOK(r)
          BY Zenon DEF FollowInv
        <5>2. emit[r].todo # {}
          BY Zenon, <4>1
        <5>3. watched[w] = r
          BY Zenon, <4>1, <5>1, <5>2 DEF EmitOK
        <5> QED
          BY Zenon, <1>0, <1>2, <4>1, <5>3
      <4> QED
        BY Zenon, <2>1, <2>2, <4>1
    <3>7. \A a \in Numbers(live[w]), b \in Numbers(wch'[w]) : a < b
      BY Zenon, <2>3, <3>1, <3>3
    <3>8. Increasing(wch'[w]) /\ \A i \in DOMAIN wch'[w] : wch'[w][i] \in wDue[w]
      BY Zenon, <2>3, <3>1, <3>4, <3>5
    <3>9. QueueOK(w)'
      BY Zenon, <1>1, <3>1, <3>6, <3>7, <3>8 DEF QueueOK
    <3>10. ASSUME NEW j \in wDue[w], handler[w] = "tail"
           PROVE  \/ j.stream # request[w].stream
                  \/ j.n \in Numbers(live[w]) \cup Numbers(wch'[w])
                  \/ j \in wLost'[w]
      <4>1. \/ j.stream # request[w].stream
            \/ j.n \in Numbers(live[w]) \cup Numbers(q)
            \/ j \in wLost[w] \cup OnItsWay(w)
        BY Zenon, <1>0, <3>10 DEF ClientOK, AccountOK
      <4>2. j \in OnItsWay(w) => j = k
        <5>1. ASSUME j \in OnItsWay(w)
              PROVE  j = k
          <6>1. PICK r \in Processes : emit[r].pc = "send" /\ w \in emit[r].todo /\ j = emit[r].chunk
            BY Zenon, <5>1 DEF OnItsWay
          <6>2. EmitOK(r)
            BY Zenon DEF FollowInv
          <6>3. watched[w] = r
            BY Zenon, <6>1, <6>2 DEF EmitOK
          <6> QED
            BY Zenon, <1>0, <1>2, <6>1, <6>3 DEF k
        <5> QED
          BY Zenon, <5>1
      <4> QED
        BY Zenon, <2>3, <3>3, <4>1, <4>2
    <3>11. AccountOK(w)'
      BY Zenon, <1>1, <3>10 DEF AccountOK
    <3> QED
      BY Zenon, <3>9, <3>11
  <2> QED
    BY Zenon, <2>5, <2>6, <2>8, <2>9, <2>10 DEF FollowInv, ClientOK
<1> QED
  BY Zenon, <1>3, <1>4 DEF SendChunk

\* Every step keeps the followers' invariant.
LEMMA FollowStep ==
  ASSUME CountInv, FollowInv, MgmtNext
  PROVE  FollowInv'
<1>1. CASE UNCHANGED <<handler, request, snapshot, live, ring, emitted, emit, watchers, watched, wch,
                       registered, wDue, wLost>>
  <2>1. \A d \in Clients : ClientOK(d)'
    BY Zenon, <1>1, ClientFrame DEF SameClient, FollowInv
  <2>2. \A r \in Processes : EmitOK(r)'
    BY Zenon, <1>1, EmitFrame DEF FollowInv
  <2>3. LogTypes'
    BY Zenon, <1>1 DEF FollowInv, LogTypes
  <2> QED
    BY Zenon, <2>1, <2>2, <2>3 DEF FollowInv
<1>2. ASSUME NEW c \in Clients, SrvStep(c), UNCHANGED logVars
      PROVE  FollowInv'
  BY Zenon, <1>2, HandlerFollows
<1>3. ASSUME UNCHANGED logVars,
             \/ AcceptLoopEnds \/ CloseListener \/ CloseAgain \/ CloseReturnsNil \/ CloseTimesOut
             \/ ShutdownBegins \/ ShutdownJoins \/ ShutdownClosesBus
      PROVE  FollowInv'
  <2>1. UNCHANGED <<handler, request, snapshot, live>>
    BY Zenon, <1>3 DEF AcceptLoopEnds, CloseListener, CloseAgain, CloseReturnsNil, CloseTimesOut, ShutdownBegins,
       ShutdownJoins, ShutdownClosesBus
  <2>2. UNCHANGED <<ring, emitted, emit, watchers, watched, wch, registered, wDue, wLost>>
    BY Zenon, <1>3 DEF logVars
  <2> QED
    BY Zenon, <1>1, <2>1, <2>2
<1>4. ASSUME NEW c \in Clients, StreamStep(c)
      PROVE  FollowInv'
  <2>1. CASE SubscribeEvents(c) \/ ForwardEvent(c) \/ Unsubscribe(c)
    <3>1. UNCHANGED logVars
      BY Zenon, <2>1 DEF SubscribeEvents, ForwardEvent, Unsubscribe
    <3> QED
      BY Zenon, <2>1, <3>1, HandlerFollows
  <2> QED
    BY Zenon, <1>4, <2>1, RegisterFollows, ForwardFollows, UnregisterFollows DEF StreamStep
<1>5. CASE ShutdownClosesWatchers
  BY Zenon, <1>5, UnregisterFollows
<1>6. CASE ShutdownClosesBus
  BY Zenon, <1>3, <1>6 DEF ShutdownClosesBus
<1>7. CASE UNCHANGED <<srvVars, logVars>>
  BY Zenon, <1>1, <1>7 DEF srvVars, logVars
<1>8. ASSUME NEW p \in Processes, EmitStep(p), UNCHANGED srvVars
      PROVE  FollowInv'
  BY Zenon, <1>8, CollectFollows, TakeFollows, SendFollows DEF EmitStep
<1>9. ASSUME NEW p \in Processes, HandleStep(p), UNCHANGED srvVars
      PROVE  FollowInv'
  BY Zenon, <1>1, <1>9, HandleFrame DEF srvVars
<1> QED
  BY Zenon, <1>2, <1>3, <1>4, <1>5, <1>6, <1>7, <1>8, <1>9 DEF MgmtNext

-----------------------------------------------------------------------------
(* The management server: its theorems.                                    *)

\* The server starts with no connection, no stream and nothing written.
LEMMA MgmtStart == MgmtInit => BusInv /\ CountInv /\ CloseInv /\ FollowInv
<1> SUFFICES ASSUME MgmtInit PROVE BusInv /\ CountInv /\ CloseInv /\ FollowInv
  OBVIOUS
<1>0. New /\ LogInit /\ Clients = Subscriptions /\ Clients = Watchers
  BY Zenon, ClientAssumption DEF MgmtInit
<1>1. BusInv
  BY Zenon, <1>0, BusStart
<1>2. CountInv
  <2>1. Active = {}
    BY Zenon DEF MgmtInit, Active
  <2>2. IsFiniteSet(Active) /\ Cardinality(Active) = 0
    BY Zenon, <2>1, FS_EmptySet
  <2>3. wg = Cardinality(Active) + 1
    BY <2>2 DEF MgmtInit
  <2>4. closer \in CloseCalls /\ closer.later = "idle"
    BY DEF MgmtInit, CloseCalls
  <2> QED
    BY Zenon, <2>2, <2>3, <2>4 DEF MgmtInit, CountInv
<1>3. CloseInv
  <2>1. Watching /\ busClosed = FALSE
    BY Zenon, <1>0 DEF MgmtInit, New, Watching
  <2>2. /\ DOMAIN wClosed = Clients /\ readLoop \in [Processes -> {"held", "taken", "ended"}]
        /\ \A p \in Processes : readLoop[p] = "held"
    BY Zenon, <1>0 DEF LogInit
  <2>3. \A c \in Clients : chClosed[c] = FALSE /\ wClosed[c] = FALSE /\ handler[c] = "none"
    <3>1. \A c \in Clients : chClosed[c] = FALSE
      BY Zenon, <1>0 DEF New
    <3>2. \A c \in Clients : wClosed[c] = FALSE
      BY Zenon, <1>0 DEF LogInit
    <3> QED
      BY Zenon, <3>1, <3>2 DEF MgmtInit
  <2> QED
    BY Zenon, <2>1, <2>2, <2>3 DEF CloseInv, EmitsInLoop
<1>4. <<>> \in Seq(Chunks) /\ Numbers(<<>>) = {} /\ Increasing(<<>>) /\ DOMAIN <<>> = {}
  BY DEF Numbers, Increasing
<1>5. LogTypes
  <2>1. wch \in [Clients -> Seq(Chunks)] /\ live \in [Clients -> Seq(Chunks)]
        /\ snapshot \in [Clients -> Seq(Chunks)]
    BY Zenon, <1>0, <1>4 DEF LogInit, MgmtInit
  <2>2. [t \in StdStreams |-> <<>>] \in [StdStreams -> Seq(Chunks)]
    BY Zenon, <1>4
  <2>3. ring \in [Processes -> [StdStreams -> Seq(Chunks)]]
    BY Zenon, <1>0, <2>2 DEF LogInit
  <2>4. emitted \in [Processes -> Nat]
    BY <1>0 DEF LogInit
  <2>5. wDue \in [Clients -> SUBSET Chunks]
    BY Zenon, <1>0 DEF LogInit
  <2> QED
    BY Zenon, <1>0, <2>1, <2>3, <2>4, <2>5 DEF LogInit, MgmtInit, LogTypes
<1>6. ASSUME NEW p \in Processes
      PROVE  EmitOK(p)
  <2>1. emit[p] = NotEmitting /\ \A t \in StdStreams : ring[p][t] = <<>>
    BY Zenon, <1>0 DEF LogInit
  <2>2. emit[p].pc = "idle" /\ emit[p].todo = {}
    BY <2>1 DEF NotEmitting
  <2> QED
    BY Zenon, <1>4, <2>1, <2>2 DEF EmitOK
<1>7. ASSUME NEW c \in Clients
      PROVE  ClientOK(c)
  <2>1. /\ handler[c] = "none" /\ c \notin registered /\ wDue[c] = {} /\ wch[c] = <<>> /\ live[c] = <<>>
        /\ c \notin watchers
    BY Zenon, <1>0 DEF LogInit, MgmtInit
  <2>2. HandlerOK(c)
    BY Zenon, <2>1 DEF HandlerOK
  <2>3. SnapshotOK(c)
    BY Zenon, <2>1 DEF SnapshotOK
  <2>4. DueOK(c)
    BY Zenon, <2>1 DEF DueOK
  <2>5. QueueOK(c)
    BY Zenon, <1>4, <2>1 DEF QueueOK
  <2>6. AccountOK(c)
    BY Zenon, <2>1 DEF AccountOK
  <2> QED
    BY Zenon, <2>2, <2>3, <2>4, <2>5, <2>6 DEF ClientOK
<1> QED
  BY Zenon, <1>1, <1>2, <1>3, <1>5, <1>6, <1>7 DEF FollowInv

\* The invariant of the followers is what a follower is promised.
LEMMA FollowPromise == FollowInv => FollowIsFaithful
<1> SUFFICES ASSUME FollowInv PROVE FollowIsFaithful
  OBVIOUS
<1>1. ASSUME NEW c \in Clients, handler[c] \in {"tail", "unregister"}
      PROVE  /\ Increasing(live[c] \o wch[c])
             /\ \A a \in Numbers(snapshot[c]), b \in Numbers(live[c] \o wch[c]) : a <= b
  <2>0. ClientOK(c) /\ live[c] \in Seq(Chunks) /\ wch[c] \in Seq(Chunks)
    BY Zenon DEF FollowInv, LogTypes
  <2>1. Increasing(live[c]) /\ Increasing(wch[c]) /\ \A a \in Numbers(live[c]), b \in Numbers(wch[c]) : a < b
    BY Zenon, <2>0 DEF ClientOK, QueueOK
  <2>2. Increasing(live[c] \o wch[c]) /\ Numbers(live[c] \o wch[c]) = Numbers(live[c]) \cup Numbers(wch[c])
    BY Zenon, <2>0, <2>1, ChunksJoined
  <2>3. ASSUME NEW a \in Numbers(snapshot[c]), NEW b \in Numbers(live[c]) \cup Numbers(wch[c])
        PROVE  a <= b
    <3>1. c \in registered
      BY Zenon, <1>1, <2>0 DEF ClientOK, HandlerOK
    <3>2. PICK k \in wDue[c] : b = k.n
      BY Zenon, <2>0, <2>3 DEF ClientOK, QueueOK, Numbers
    <3> QED
      BY Zenon, <2>0, <2>3, <3>1, <3>2 DEF ClientOK, SnapshotOK
  <2> QED
    BY Zenon, <2>2, <2>3
<1>2. FollowInOrder
  BY Zenon, <1>1 DEF FollowInOrder
<1>3. FollowHasNoGap
  <2>1. ASSUME NEW c \in Clients
        PROVE  \A a, b \in wDue[c] : \A n \in a.n .. b.n : \E k \in wDue[c] : k.n = n
    BY Zenon DEF FollowInv, ClientOK, DueOK
  <2>2. ASSUME NEW c \in Clients, handler[c] = "tail", NEW k \in wDue[c]
        PROVE  \/ k.stream # request[c].stream
               \/ k.n \in Numbers(live[c]) \cup Numbers(wch[c])
               \/ k \in wLost[c] \cup OnItsWay(c)
    BY Zenon, <2>2 DEF FollowInv, ClientOK, AccountOK
  <2> QED
    BY Zenon, <2>1, <2>2 DEF FollowHasNoGap
<1> QED
  BY Zenon, <1>2, <1>3 DEF FollowIsFaithful

\* In every behaviour of the management server, its streams and Shutdown, the
\* bus, the count of goroutines, the channels and the followers are in order.
LEMMA MgmtInvariant == MgmtSpec => []MgmtInv
<1>1. MgmtInit => MgmtInv
  <2>1. MgmtInit => ~panicked /\ ~logPanicked
    BY Zenon DEF MgmtInit, New, LogInit
  <2>2. MgmtInit => closer.first = "idle" /\ closer.later = "idle"
    BY DEF MgmtInit
  <2> QED
    BY Zenon, <2>1, <2>2, MgmtStart DEF MgmtInv, CloseNilMeansQuiet, ShutdownNeverPanics
<1>2. MgmtInv /\ [MgmtNext]_mgmtVars => MgmtInv'
  <2>1. ASSUME MgmtInv, MgmtNext
        PROVE  MgmtInv'
    <3>1. BusInv'
      BY Zenon, <2>1, BusIsUsed, BusStep DEF MgmtInv
    <3>2. CountInv' /\ CloseNilMeansQuiet'
      BY Zenon, <2>1, CountStep DEF MgmtInv
    <3>3. FollowInv'
      BY Zenon, <2>1, FollowStep DEF MgmtInv
    <3>4. DOMAIN emit = Processes
      BY Zenon, <2>1 DEF MgmtInv, FollowInv, LogTypes
    <3>5. CloseInv'
      BY Zenon, <2>1, <3>4, CloseStep DEF MgmtInv
    <3>6. ShutdownNeverPanics'
      BY Zenon, <2>1, PanicStep DEF MgmtInv
    <3> QED
      BY Zenon, <3>1, <3>2, <3>3, <3>5, <3>6 DEF MgmtInv
  <2>2. ASSUME MgmtInv, UNCHANGED mgmtVars
        PROVE  MgmtInv'
    <3>0. UNCHANGED srvVars /\ UNCHANGED busVars /\ UNCHANGED logVars
      BY Zenon, <2>2 DEF mgmtVars
    <3>1. BusInv'
      BY Zenon, <2>2, <3>0, BusStep DEF MgmtInv
    <3>2. CountInv' /\ CloseNilMeansQuiet'
      <4>1. Active' = Active
        BY Zenon, <3>0 DEF srvVars, Active
      <4> QED
        BY Zenon, <2>2, <3>0, <4>1 DEF MgmtInv, srvVars, CountInv, CloseNilMeansQuiet, Quiet
    <3>3. FollowInv'
      <4>1. UNCHANGED <<handler, request, snapshot, live, ring, emitted, emit, watchers, watched, wch,
                        registered, wDue, wLost>>
        BY Zenon, <3>0 DEF srvVars, logVars
      <4>2. \A d \in Clients : ClientOK(d)'
        BY Zenon, <2>2, <4>1, ClientFrame DEF MgmtInv, SameClient, FollowInv
      <4>3. \A r \in Processes : EmitOK(r)'
        BY Zenon, <2>2, <4>1, EmitFrame DEF MgmtInv, FollowInv
      <4>4. LogTypes'
        BY Zenon, <2>2, <4>1 DEF MgmtInv, FollowInv, LogTypes
      <4> QED
        BY Zenon, <4>2, <4>3, <4>4 DEF FollowInv
    <3>4. CloseInv' /\ ShutdownNeverPanics'
      <4>1. Watching' = Watching /\ \A c : Slow(c)' = Slow(c)
        BY Zenon, <3>0 DEF srvVars, busVars, Watching, Slow
      <4>2. UNCHANGED <<shutdown, client, handler, readLoop, pub, emit, busClosed, chClosed, wClosed,
                        panicked, logPanicked>>
        BY Zenon, <3>0 DEF srvVars, busVars, logVars
      <4>3. CloseInv'
        BY Zenon, <2>2, <4>1, <4>2 DEF MgmtInv, CloseInv, Joined, EmitsInLoop
      <4>4. ShutdownNeverPanics'
        BY Zenon, <2>2, <4>1, <4>2 DEF MgmtInv, ShutdownNeverPanics
      <4> QED
        BY Zenon, <4>3, <4>4
    <3> QED
      BY Zenon, <3>1, <3>2, <3>3, <3>4 DEF MgmtInv
  <2> QED
    BY Zenon, <2>1, <2>2
<1> QED
  BY <1>1, <1>2, PTL DEF MgmtSpec

\* Whatever clients do and however many read loops and publishers there are, a
\* send of an event on a closed channel never comes after the join of
\* Manager.Shutdown, and takes a client that has gone or a subscriber too slow
\* for the bus; a send of a chunk takes a client that has gone or, after the
\* join, a read loop that Shutdown did not join.
THEOREM ShutdownIsSafe == MgmtSpec => []ShutdownNeverPanics
<1>1. MgmtInv => ShutdownNeverPanics
  BY Zenon DEF MgmtInv
<1> QED
  BY <1>1, MgmtInvariant, PTL

\* A follower of logs sees the chunks of its stream in order, after its snapshot
\* and each once, and all of them from its registration on but those its full
\* channel refused, for any number of processes and followers.
THEOREM FollowerIsServed == MgmtSpec => []FollowIsFaithful
<1>1. MgmtInv => FollowIsFaithful
  BY Zenon, FollowPromise DEF MgmtInv
<1> QED
  BY <1>1, MgmtInvariant, PTL
=============================================================================
