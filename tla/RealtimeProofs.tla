--------------------------- MODULE RealtimeProofs ----------------------------
(***************************************************************************)
(* Publishing never sends on a closed channel, for every number of         *)
(* publishers and clients, every capacity and every set of channels.       *)
(*                                                                         *)
(* The invariant behind it: a publisher iterates over registered           *)
(* subscribers only, and holds the read lock while it does; a subscriber   *)
(* leaves the hub under the write lock, and its channel is closed after.   *)
(*                                                                         *)
(* Then: clients are handed bars in order, finals are stored before they   *)
(* are announced, and nothing of an acknowledged channel is missed         *)
(* unnoticed.                                                              *)
(***************************************************************************)
EXTENDS Realtime, TLAPS

Domains ==
  /\ DOMAIN pc = Publisher /\ DOMAIN todo = Publisher
  /\ DOMAIN closed = Client /\ DOMAIN handler = Client /\ DOMAIN client = Client

\* The subscribers a publisher has still to visit are registered.
Visiting == \A p \in Publisher :
  pc[p] = "send" => p \in readers /\ todo[p] \subseteq registered

\* A subscriber is closed only after it left the hub, and does not come back.
Leaving == \A c \in Client :
  /\ handler[c] \in {"close", "done"} => c \notin registered
  /\ closed[c] => handler[c] = "done"
  /\ client[c] = "none" => handler[c] = "off"

HInv == ~panicked /\ registered \subseteq Client /\ Domains /\ Visiting /\ Leaving

-----------------------------------------------------------------------------
\* Nobody is connected at the start.
LEMMA HubInit ==
  ASSUME Init
  PROVE  HInv
BY DEF Init, HInv, Domains, Visiting, Leaving

\* A step of a publisher: what it sends to is registered, hence open.
LEMMA HubPublisher ==
  ASSUME HInv, NEW p \in Publisher, Ingest(p) \/ PersistFails(p) \/ Publish(p)
  PROVE  HInv'
<1> USE DEF HInv, Domains, Visiting, Leaving, serviceVars, pubVars, hubVars, subVars, connVars
<1>1. ASSUME UNCHANGED <<todo, readers, registered, panicked, closed, handler, client>>,
             NEW label, label # "send", pc[p] # "send", pc' = [pc EXCEPT ![p] = label]
      PROVE  HInv'
  BY <1>1
<1>2. CASE Ingest(p)
  BY <1>1, <1>2 DEF Ingest
<1>3. CASE PersistFails(p)
  BY <1>1, <1>3 DEF PersistFails, Leave
<1>4. CASE Persist(p)
  BY <1>1, <1>4 DEF Persist
<1>5. CASE Rollup(p)
  BY <1>5 DEF Rollup
<1>6. CASE Release(p)
  BY <1>1, <1>6 DEF Release, Leave
<1>7. CASE SkipRollup(p)
  BY <1>7 DEF SkipRollup
<1>8. CASE AssignSeq(p)
  BY <1>1, <1>8 DEF AssignSeq
<1>9. CASE ReadLock(p)
  BY <1>9 DEF ReadLock
<1>10. ASSUME NEW c \in Client, Deliver(p, c) PROVE HInv'
  <2>1. ~closed[c]
    BY <1>10 DEF Deliver
  <2>2. UNCHANGED panicked
    BY <1>10, <2>1 DEF Deliver
  <2>3. /\ todo' = [todo EXCEPT ![p] = @ \ {c}]
        /\ UNCHANGED <<pc, readers, registered, closed, handler, client>>
    BY <1>10 DEF Deliver
  <2> QED BY <2>2, <2>3
<1>11. CASE ReadUnlock(p)
  BY <1>11 DEF ReadUnlock
<1> QED BY <1>2, <1>3, <1>4, <1>5, <1>6, <1>7, <1>8, <1>9, <1>10, <1>11 DEF Publish

\* A step of a client or of its handler.
LEMMA HubClient ==
  ASSUME HInv, NEW c \in Client,
         \/ Connect(c) \/ Handle(c) \/ Written(c) \/ Acknowledge(c)
         \/ ReaderEnds(c) \/ ClientLeaves(c) \/ \E ch \in Wanted : Subscribe(c, ch)
  PROVE  HInv'
<1> USE DEF HInv, Domains, Visiting, Leaving, serviceVars, pubVars, hubVars, subVars, connVars
<1>1. ASSUME UNCHANGED <<pc, todo, readers, registered, panicked, closed, handler>>,
             client' = client \/ client' = [client EXCEPT ![c] = "gone"]
      PROVE  HInv'
  BY <1>1
<1>2. CASE Acknowledge(c) \/ ReaderEnds(c) \/ ClientLeaves(c) \/ \E ch \in Wanted : Subscribe(c, ch)
  BY <1>1, <1>2 DEF Acknowledge, ReaderEnds, ClientLeaves, Subscribe
<1>3. CASE Connect(c)
  BY <1>3 DEF Connect
<1>4. ASSUME UNCHANGED <<pc, todo, readers, registered, panicked, closed, client>>,
             NEW label \in {"select", "write", "closing"}, handler' = [handler EXCEPT ![c] = label],
             handler[c] \in {"select", "write"}
      PROVE  HInv'
  BY <1>4
<1>5. CASE TakeEvent(c) \/ Ping(c) \/ Written(c) \/ WriteFails(c) \/ HandlerStops(c)
  <2>1. UNCHANGED <<pc, todo, readers, registered, panicked, closed, client>>
    BY <1>5 DEF TakeEvent, Ping, Written, WriteFails, HandlerStops
  <2>2. \E label \in {"select", "write", "closing"} : handler' = [handler EXCEPT ![c] = label]
    BY <1>5 DEF TakeEvent, Ping, Written, WriteFails, HandlerStops
  <2>3. handler[c] \in {"select", "write"}
    BY <1>5 DEF TakeEvent, Ping, Written, WriteFails, HandlerStops
  <2> QED BY <1>4, <2>1, <2>2, <2>3
<1>6. CASE Unregister(c)
  BY <1>6 DEF Unregister, WriteLockFree
<1>7. CASE CloseChannel(c)
  BY <1>7 DEF CloseChannel
<1> QED BY <1>2, <1>3, <1>5, <1>6, <1>7 DEF Handle

\* Any step.
LEMMA HubInvStep ==
  ASSUME HInv, [Next]_vars
  PROVE  HInv'
<1>1. CASE UNCHANGED vars
  BY <1>1 DEF vars, pubVars, hubVars, subVars, connVars, HInv, Domains, Visiting, Leaving
<1>2. CASE Quiet
  BY <1>1, <1>2 DEF Quiet
<1> QED BY <1>1, <1>2, HubPublisher, HubClient DEF Next

\* Hub.Publish and Subscriber.Close: however publishers, handlers and clients that come,
\* stop reading and go interleave, no event is sent on a closed channel.
THEOREM HubNeverPanics == Spec => []NeverPanics
<1>1. HInv => NeverPanics
  BY DEF HInv, NeverPanics
<1> QED BY <1>1, HubInit, HubInvStep, PTL DEF Spec

-----------------------------------------------------------------------------
(***************************************************************************)
(* What a publisher does under the lock of its symbol.                     *)
(***************************************************************************)
Publishing == {"persist", "publish", "lock", "send"}
InHub == {"lock", "send"}

ServiceTypes ==
  /\ accepted \in [Symbol -> Nat] /\ seq \in Nat
  /\ DOMAIN symbolLock = Symbol /\ DOMAIN stored = Symbol
  /\ pc \in [Publisher -> Publishing \cup {"idle"}]
  /\ DOMAIN symbol = Publisher /\ DOMAIN bar = Publisher
  /\ outbox \in [Publisher -> Seq(Type \cup {"bucket"})]
  /\ DOMAIN event = Publisher /\ DOMAIN todo = Publisher
  /\ sent \in [Client -> Seq(Event)]

\* A publisher at work holds the lock of its symbol, and its bar is the last one
\* the symbol accepted.
Turns == \A p \in Publisher : pc[p] \in Publishing =>
  /\ symbol[p] \in Symbol /\ symbolLock[symbol[p]] = p
  /\ bar[p][1] = accepted[symbol[p]] /\ bar[p][2] \in BOOLEAN

\* The event a publisher takes into the hub announces its bar.
Announced == \A p \in Publisher :
  IF pc[p] \in InHub
    THEN /\ event[p] \in Event /\ event[p].symbol = symbol[p]
         /\ event[p].bar = bar[p][1] /\ event[p].final = bar[p][2] /\ event[p].seq <= seq
    ELSE event[p] = NoEvent

\* What was handed over is no newer than what was accepted and numbered.
Past == \A c \in Client : \A i \in 1..Len(sent[c]) :
  /\ sent[c][i].bar <= accepted[sent[c][i].symbol]
  /\ sent[c][i].seq <= seq

\* Until it has been handed to a subscriber, an event is newer than everything
\* of its symbol the subscriber was handed.
Newest == \A p \in Publisher, c \in Client :
  (pc[p] = "lock" \/ (pc[p] = "send" /\ c \in todo[p])) =>
    \A i \in 1..Len(sent[c]) : sent[c][i].symbol = symbol[p] => sent[c][i].seq < event[p].seq

OrderInv == ServiceTypes /\ Turns /\ Announced /\ Past /\ Newest /\ BarsInOrder

\* What a publisher has still to announce, and which of its rows are stored.
Work(p) ==
  LET kept(type) == <<type, bar[p][1]>> \in stored[symbol[p]]
  IN /\ pc[p] = "persist" => outbox[p] \in {<<"kline", "ticker", "bucket">>, <<"rollup">>}
     /\ pc[p] = "publish" =>
          \/ outbox[p] = <<"kline", "ticker", "bucket">> /\ kept("kline")
          \/ outbox[p] = <<"rollup">> /\ kept("rollup")
          \/ outbox[p] \in {<<"ticker", "bucket">>, <<"bucket">>, <<>>}
     /\ pc[p] \in InHub =>
          /\ outbox[p] \in {<<"ticker", "bucket">>, <<"bucket">>, <<>>}
          /\ event[p].type # "ticker" => kept(event[p].type)

StoredInv == FinalsStored /\ \A p \in Publisher : pc[p] \in Publishing /\ bar[p][2] => Work(p)

\* A client's acknowledged channels are subscribed, and its handler still owes it
\* what was published since, as long as a publisher has it underway.
Acks == \A c \in Client :
  /\ acked[c] \cup ack[c] \subseteq channels[c]
  /\ client[c] = "none" => acked[c] = {} /\ ack[c] = {} /\ owed[c] = {}

Arriving(c, n) == \E p \in Publisher :
  /\ pc[p] \in InHub /\ event[p].seq = n /\ ChannelOf(event[p]) \in channels[c]
  /\ pc[p] = "send" => c \in todo[p]

NotMissed == \A c \in registered : \A n \in owed[c] :
  n \in HandedOver(c) \cup dropped[c] \/ Arriving(c, n)

AckTypes == DOMAIN channels = Client /\ DOMAIN acked = Client /\ DOMAIN ack = Client
            /\ DOMAIN owed = Client /\ DOMAIN dropped = Client

AckInv == AckTypes /\ Acks /\ NotMissed

\* What has been handed over are events.
LEMMA HandedOverEvents ==
  ASSUME ServiceTypes, NEW c \in Client, NEW i \in 1..Len(sent[c])
  PROVE  /\ sent[c][i] \in Event /\ sent[c][i].symbol \in Symbol
         /\ sent[c][i].bar \in Nat /\ sent[c][i].seq \in Nat
<1>1. sent[c] \in Seq(Event)
  BY DEF ServiceTypes
<1>2. sent[c][i] \in Event
  BY <1>1
<1> QED BY <1>2 DEF Event

\* Nothing of a client's connection is part of the order.
LEMMA OrderQuiet ==
  ASSUME OrderInv,
         UNCHANGED <<accepted, symbolLock, stored, pc, symbol, bar, outbox, event, todo, seq, sent>>
  PROVE  OrderInv'
BY DEF OrderInv, ServiceTypes, Turns, Announced, Past, Newest, BarsInOrder

LEMMA OrderInit ==
  ASSUME Init
  PROVE  OrderInv
<1>1. ServiceTypes
  BY DEF Init, ServiceTypes
<1>2. Turns /\ Announced /\ Past /\ Newest /\ BarsInOrder
  BY DEF Init, Turns, Announced, Past, Newest, BarsInOrder, Publishing, InHub
<1> QED BY <1>1, <1>2 DEF OrderInv

\* Accepting a bar takes the lock of a symbol nobody works on.
LEMMA OrderIngest ==
  ASSUME OrderInv, NEW p \in Publisher, Ingest(p)
  PROVE  OrderInv'
<1> USE DEF OrderInv, ServiceTypes, Publishing, InHub
<1>1. PICK s \in Symbol, final \in BOOLEAN :
       /\ LockFree(s)
       /\ symbolLock' = [symbolLock EXCEPT ![s] = p]
       /\ accepted' = [accepted EXCEPT ![s] = @ + 1]
       /\ symbol' = [symbol EXCEPT ![p] = s]
       /\ bar' = [bar EXCEPT ![p] = <<accepted[s] + 1, final>>]
       /\ pc' = [pc EXCEPT ![p] = IF final THEN "persist" ELSE "publish"]
       /\ outbox' = [outbox EXCEPT ![p] = <<"kline", "ticker", IF final THEN "bucket" ELSE "rollup">>]
  BY DEF Ingest
<1>2. pc[p] = "idle" /\ UNCHANGED <<stored, event, todo, seq, sent>>
  BY DEF Ingest, hubVars, subVars
<1>3. \A q \in Publisher : pc[q] \in Publishing => symbol[q] # s
  BY <1>1, RealtimeAssumption DEF Turns, LockFree
<1>4. ServiceTypes'
  <2>1. <<"kline", "ticker", IF final THEN "bucket" ELSE "rollup">> \in Seq(Type \cup {"bucket"})
    BY DEF Type
  <2>2. outbox' \in [Publisher -> Seq(Type \cup {"bucket"})]
    BY <1>1, <2>1
  <2> QED BY <1>1, <1>2, <2>2
<1>5. Turns'
  BY <1>1, <1>2, <1>3 DEF Turns
<1>6. Announced'
  BY <1>1, <1>2 DEF Announced
<1>7. Past'
  BY <1>1, <1>2, HandedOverEvents DEF Past
<1>8. Newest'
  BY <1>1, <1>2 DEF Newest
<1>9. BarsInOrder'
  BY <1>2 DEF BarsInOrder
<1> QED BY <1>4, <1>5, <1>6, <1>7, <1>8, <1>9

\* Storing, skipping and leaving do not enter the hub.
LEMMA OrderService ==
  ASSUME OrderInv, NEW p \in Publisher,
         Persist(p) \/ PersistFails(p) \/ Rollup(p) \/ Release(p) \/ SkipRollup(p)
  PROVE  OrderInv'
<1> USE DEF OrderInv, ServiceTypes, Publishing, InHub
<1>1. CASE Persist(p) \/ Rollup(p) \/ SkipRollup(p)
  <2>1. /\ UNCHANGED <<symbolLock, accepted, symbol, bar, event, todo, seq, sent>>
        /\ DOMAIN stored' = Symbol
        /\ \/ UNCHANGED outbox
           \/ outbox' = [outbox EXCEPT ![p] = <<"rollup">>]
           \/ outbox' = [outbox EXCEPT ![p] = <<>>]
    BY <1>1 DEF Persist, Rollup, SkipRollup, hubVars, subVars, serviceVars
  <2>2. pc[p] \in {"persist", "publish"} /\ \E l \in {"persist", "publish"} : pc' = [pc EXCEPT ![p] = l]
    BY <1>1 DEF Persist, Rollup, SkipRollup
  <2>3. ServiceTypes'
    <3>1. <<"rollup">> \in Seq(Type \cup {"bucket"}) /\ <<>> \in Seq(Type \cup {"bucket"})
      BY DEF Type
    <3>2. outbox' \in [Publisher -> Seq(Type \cup {"bucket"})]
      BY <2>1, <3>1
    <3> QED BY <2>1, <2>2, <3>2
  <2>4. Turns' /\ Announced'
    BY <2>1, <2>2 DEF Turns, Announced
  <2>5. Past' /\ Newest' /\ BarsInOrder'
    BY <2>1, <2>2 DEF Past, Newest, BarsInOrder
  <2> QED BY <2>3, <2>4, <2>5
<1>2. CASE PersistFails(p) \/ Release(p)
  <2>1. /\ pc[p] \in {"persist", "publish"}
        /\ UNCHANGED <<accepted, stored, event, todo, seq, sent>>
    BY <1>2 DEF PersistFails, Release, hubVars, subVars
  <2>2. Leave(p)
    BY <1>2 DEF PersistFails, Release
  <2>3. ServiceTypes'
    BY <2>1, <2>2 DEF Leave
  <2>4. \A q \in Publisher : q # p /\ pc[q] \in Publishing => symbol[q] # symbol[p]
    BY <2>1 DEF Turns
  <2>5. Turns'
    BY <2>1, <2>2, <2>4 DEF Turns, Leave
  <2>6. Announced'
    BY <2>1, <2>2 DEF Announced, Leave
  <2>7. Past' /\ Newest' /\ BarsInOrder'
    BY <2>1, <2>2 DEF Past, Newest, BarsInOrder, Leave
  <2> QED BY <2>3, <2>5, <2>6, <2>7
<1> QED BY <1>1, <1>2

\* A new sequence number is larger than everything handed over.
LEMMA OrderNumber ==
  ASSUME OrderInv, NEW p \in Publisher, AssignSeq(p)
  PROVE  OrderInv'
<1> USE DEF OrderInv, ServiceTypes, Publishing, InHub
<1> DEFINE e == [type |-> Head(outbox[p]), symbol |-> symbol[p], bar |-> bar[p][1],
                 final |-> bar[p][2], seq |-> seq + 1]
<1>1. /\ pc[p] = "publish" /\ pc' = [pc EXCEPT ![p] = "lock"]
      /\ seq' = seq + 1 /\ event' = [event EXCEPT ![p] = e]
      /\ outbox' = [outbox EXCEPT ![p] = Tail(@)]
      /\ UNCHANGED <<symbolLock, accepted, stored, symbol, bar, todo, sent>>
  BY DEF AssignSeq, serviceVars, subVars
<1>2. e \in Event
  <2>1. Head(outbox[p]) \in Type
    BY DEF AssignSeq
  <2> QED BY <1>1, <2>1 DEF Event, Turns
<1>3. ServiceTypes'
  <2>1. Tail(outbox[p]) \in Seq(Type \cup {"bucket"})
    BY DEF AssignSeq
  <2>2. outbox' \in [Publisher -> Seq(Type \cup {"bucket"})]
    BY <1>1, <2>1
  <2> QED BY <1>1, <2>2
<1>4. Turns'
  BY <1>1 DEF Turns
<1>5. Announced'
  BY <1>1, <1>2 DEF Announced, Event
<1>6. Past'
  BY <1>1, HandedOverEvents DEF Past
<1>7. Newest'
  BY <1>1, <1>2, HandedOverEvents DEF Newest, Past
<1>8. BarsInOrder'
  BY <1>1 DEF BarsInOrder
<1> QED BY <1>3, <1>4, <1>5, <1>6, <1>7, <1>8

LEMMA OrderLocks ==
  ASSUME OrderInv, NEW p \in Publisher, ReadLock(p) \/ ReadUnlock(p)
  PROVE  OrderInv'
<1> USE DEF OrderInv, ServiceTypes, Publishing, InHub
<1>1. CASE ReadLock(p)
  BY <1>1 DEF ReadLock, Turns, Announced, Past, Newest, BarsInOrder, subVars, serviceVars
<1>2. CASE ReadUnlock(p)
  BY <1>2 DEF ReadUnlock, Turns, Announced, Past, Newest, BarsInOrder, subVars, serviceVars
<1> QED BY <1>1, <1>2

\* Handing an event over appends something newer than all of its symbol.
LEMMA OrderDeliver ==
  ASSUME OrderInv, NEW p \in Publisher, NEW c \in Client, Deliver(p, c)
  PROVE  OrderInv'
<1> USE DEF OrderInv, ServiceTypes, Publishing, InHub
<1>1. /\ pc[p] = "send" /\ c \in todo[p] /\ todo' = [todo EXCEPT ![p] = @ \ {c}]
      /\ UNCHANGED <<accepted, symbolLock, stored, pc, symbol, bar, outbox, event, seq>>
  BY DEF Deliver, serviceVars
<1>2. sent' = sent \/ sent' = [sent EXCEPT ![c] = Append(@, event[p])]
  BY DEF Deliver
<1>3. Turns' /\ Announced'
  BY <1>1 DEF Turns, Announced
<1>4. CASE sent' = sent
  BY <1>1, <1>3, <1>4 DEF Past, Newest, BarsInOrder
<1>5. CASE sent' = [sent EXCEPT ![c] = Append(@, event[p])]
  <2>1. event[p] \in Event /\ event[p].symbol = symbol[p] /\ event[p].seq <= seq
        /\ event[p].bar = accepted[symbol[p]] /\ accepted[symbol[p]] \in Nat
    BY <1>1 DEF Announced, Turns
  <2>2. /\ \A d \in Client \ {c} : sent'[d] = sent[d]
        /\ sent' \in [Client -> Seq(Event)] /\ Len(sent'[c]) = Len(sent[c]) + 1
        /\ sent'[c][Len(sent[c]) + 1] = event[p]
        /\ \A i \in 1..Len(sent[c]) : sent'[c][i] = sent[c][i]
        /\ Len(sent[c]) \in Nat
    BY <1>5, <2>1
  <2>3. ServiceTypes'
    BY <1>1, <2>2
  <2>4. Past'
    <3> SUFFICES ASSUME NEW d \in Client, NEW i \in 1..Len(sent'[d])
                 PROVE  sent'[d][i].bar <= accepted[sent'[d][i].symbol] /\ sent'[d][i].seq <= seq
      BY <1>1 DEF Past
    <3>1. CASE d # c
      BY <2>2, <3>1 DEF Past
    <3>2. CASE d = c /\ i \in 1..Len(sent[c])
      BY <2>2, <3>2 DEF Past
    <3>3. CASE d = c /\ i = Len(sent[c]) + 1
      BY <2>1, <2>2, <3>3
    <3> QED BY <2>2, <3>1, <3>2, <3>3
  <2>5. Newest'
    <3> SUFFICES ASSUME NEW q \in Publisher, NEW d \in Client,
                        pc[q] = "lock" \/ (pc[q] = "send" /\ d \in todo'[q]),
                        NEW i \in 1..Len(sent'[d]), sent'[d][i].symbol = symbol[q]
                 PROVE  sent'[d][i].seq < event[q].seq
      BY <1>1 DEF Newest
    <3>1. CASE d # c \/ i # Len(sent[c]) + 1
      <4>1. i \in 1..Len(sent[d]) /\ sent'[d][i] = sent[d][i]
        <5>1. CASE d # c
          BY <2>2, <5>1
        <5>2. CASE d = c
          <6>1. i \in 1..(Len(sent[c]) + 1) /\ i # Len(sent[c]) + 1
            BY <2>2, <3>1, <5>2
          <6>2. i \in 1..Len(sent[c])
            BY <2>2, <6>1
          <6> QED BY <2>2, <5>2, <6>2
        <5> QED BY <5>1, <5>2
      <4>2. pc[q] = "send" => d \in todo[q]
        BY <1>1
      <4> QED BY <4>1, <4>2 DEF Newest
    <3>2. CASE d = c /\ i = Len(sent[c]) + 1
      <4>1. symbol[q] = symbol[p]
        BY <2>1, <2>2, <3>2
      <4>2. q = p
        BY <1>1, <4>1 DEF Turns
      <4> QED BY <1>1, <3>2, <4>2
    <3> QED BY <3>1, <3>2
  <2>6. BarsInOrder'
    <3> SUFFICES ASSUME NEW d \in Client, NEW i \in 1..Len(sent'[d]), NEW j \in 1..Len(sent'[d]),
                        i < j, sent'[d][i].symbol = sent'[d][j].symbol
                 PROVE  sent'[d][i].bar <= sent'[d][j].bar /\ sent'[d][i].seq < sent'[d][j].seq
      BY DEF BarsInOrder
    <3>1. CASE d # c
      BY <2>2, <3>1 DEF BarsInOrder
    <3>2. CASE d = c /\ j # Len(sent[c]) + 1
      <4>1. /\ i \in 1..Len(sent[c]) /\ sent'[c][i] = sent[c][i]
            /\ j \in 1..Len(sent[c]) /\ sent'[c][j] = sent[c][j]
        BY <2>2, <3>2
      <4> QED BY <3>2, <4>1 DEF BarsInOrder
    <3>3. CASE d = c /\ j = Len(sent[c]) + 1
      <4>1. i \in 1..Len(sent[c])
        BY <2>2, <3>3
      <4>2. sent'[d][j] = event[p] /\ sent'[d][i] = sent[c][i]
        BY <2>2, <3>3, <4>1
      <4>3. sent[c][i].bar <= accepted[symbol[p]] /\ sent[c][i].seq < event[p].seq
        BY <1>1, <2>1, <4>1, <4>2 DEF Past, Newest
      <4> QED BY <2>1, <4>2, <4>3
    <3> QED BY <3>1, <3>2, <3>3
  <2> QED BY <1>3, <2>3, <2>4, <2>5, <2>6
<1> QED BY <1>2, <1>4, <1>5

-----------------------------------------------------------------------------
(* Finals are stored before they are announced. *)

\* Rows are only ever added, so what was announced stays stored.
LEMMA StoredGrows ==
  ASSUME ServiceTypes, FinalsStored, UNCHANGED sent,
         \A s \in Symbol : stored[s] \subseteq stored'[s]
  PROVE  FinalsStored'
BY HandedOverEvents DEF FinalsStored

\* A publisher that does not move keeps its work.
LEMMA WorkKept ==
  ASSUME ServiceTypes, Turns, NEW q \in Publisher, pc[q] \in Publishing, Work(q),
         pc'[q] = pc[q], outbox'[q] = outbox[q], bar'[q] = bar[q], symbol'[q] = symbol[q],
         event'[q] = event[q], \A s \in Symbol : stored[s] \subseteq stored'[s]
  PROVE  Work(q)'
BY DEF Work, Turns

LEMMA StoredPublisher ==
  ASSUME OrderInv, StoredInv, NEW p \in Publisher, Ingest(p) \/ PersistFails(p) \/ Publish(p)
  PROVE  StoredInv'
<1> USE DEF OrderInv, Publishing, InHub
<1>1. \A s \in Symbol : stored[s] \subseteq stored'[s]
  BY DEF Ingest, PersistFails, Publish, Persist, Rollup, Release, SkipRollup, AssignSeq, ReadLock,
         Deliver, ReadUnlock, serviceVars, ServiceTypes
<1>2. \A q \in Publisher \ {p} : /\ pc'[q] = pc[q] /\ outbox'[q] = outbox[q] /\ bar'[q] = bar[q]
                                 /\ symbol'[q] = symbol[q] /\ event'[q] = event[q]
  <2> USE DEF ServiceTypes
  <2>1. CASE Ingest(p)
    BY <2>1 DEF Ingest
  <2>2. CASE PersistFails(p) \/ Release(p)
    BY <2>2 DEF PersistFails, Release, Leave
  <2>3. CASE Persist(p) \/ Rollup(p) \/ SkipRollup(p)
    BY <2>3 DEF Persist, Rollup, SkipRollup
  <2>4. CASE AssignSeq(p) \/ ReadLock(p) \/ ReadUnlock(p) \/ \E c \in Client : Deliver(p, c)
    BY <2>4 DEF AssignSeq, ReadLock, ReadUnlock, Deliver
  <2> QED BY <2>1, <2>2, <2>3, <2>4 DEF Publish
<1>3. ASSUME pc'[p] \in Publishing, bar'[p][2]
      PROVE  Work(p)'
  <2>1. CASE Ingest(p)
    BY <1>3, <2>1 DEF Ingest, Work, ServiceTypes
  <2>2. CASE Persist(p)
    <3>1. /\ pc[p] = "persist" /\ pc'[p] = "publish"
          /\ UNCHANGED <<bar, outbox, symbol>>
          /\ stored'[symbol[p]] = stored[symbol[p]] \cup {<<Head(outbox[p]), bar[p][1]>>}
      BY <2>2 DEF Persist, ServiceTypes, Turns
    <3>2. outbox[p] = <<"kline", "ticker", "bucket">> \/ outbox[p] = <<"rollup">>
      BY <1>3, <3>1 DEF StoredInv, Work
    <3>3. Head(<<"kline", "ticker", "bucket">>) = "kline" /\ Head(<<"rollup">>) = "rollup"
      OBVIOUS
    <3>4. \/ outbox[p] = <<"kline", "ticker", "bucket">> /\ Head(outbox[p]) = "kline"
          \/ outbox[p] = <<"rollup">> /\ Head(outbox[p]) = "rollup"
      BY <3>2, <3>3, Zenon
    <3> QED BY <3>1, <3>4 DEF Work
  <2>3. CASE Rollup(p)
    BY <1>3, <2>3 DEF Rollup, Work, ServiceTypes, StoredInv, serviceVars
  <2>4. CASE PersistFails(p) \/ Release(p)
    BY <1>3, <2>4, ZenonT(30) DEF PersistFails, Release, Leave, ServiceTypes
  <2>5. CASE SkipRollup(p)
    BY <1>3, <2>5 DEF SkipRollup
  <2>6. CASE AssignSeq(p)
    <3>1. /\ pc[p] = "publish" /\ pc'[p] = "lock" /\ outbox[p] # <<>> /\ Head(outbox[p]) # "bucket"
          /\ UNCHANGED <<bar, symbol, stored>> /\ outbox'[p] = Tail(outbox[p])
          /\ event'[p].type = Head(outbox[p])
      BY <2>6 DEF AssignSeq, ServiceTypes, serviceVars
    <3>2. Work(p)
      BY <1>3, <3>1 DEF StoredInv
    <3>3. \/ /\ outbox[p] = <<"kline", "ticker", "bucket">>
             /\ <<"kline", bar[p][1]>> \in stored[symbol[p]]
          \/ outbox[p] = <<"rollup">> /\ <<"rollup", bar[p][1]>> \in stored[symbol[p]]
          \/ outbox[p] = <<"ticker", "bucket">> \/ outbox[p] = <<"bucket">>
      BY <3>1, <3>2 DEF Work
    <3>4. \/ /\ Head(outbox[p]) = "kline" /\ Tail(outbox[p]) = <<"ticker", "bucket">>
             /\ <<"kline", bar[p][1]>> \in stored[symbol[p]]
          \/ /\ Head(outbox[p]) = "rollup" /\ Tail(outbox[p]) = <<>>
             /\ <<"rollup", bar[p][1]>> \in stored[symbol[p]]
          \/ Head(outbox[p]) = "ticker" /\ Tail(outbox[p]) = <<"bucket">>
      <4>1. /\ Head(<<"kline", "ticker", "bucket">>) = "kline"
            /\ Tail(<<"kline", "ticker", "bucket">>) = <<"ticker", "bucket">>
        OBVIOUS
      <4>2. Head(<<"rollup">>) = "rollup" /\ Tail(<<"rollup">>) = <<>>
        OBVIOUS
      <4>3. Head(<<"ticker", "bucket">>) = "ticker" /\ Tail(<<"ticker", "bucket">>) = <<"bucket">>
        OBVIOUS
      <4>4. Head(<<"bucket">>) = "bucket"
        OBVIOUS
      <4> QED BY <3>1, <3>3, <4>1, <4>2, <4>3, <4>4, Zenon
    <3> QED BY <3>1, <3>4 DEF Work
  <2>7. CASE ReadLock(p)
    BY <1>3, <2>7 DEF ReadLock, Work, ServiceTypes, StoredInv, serviceVars
  <2>8. CASE \E c \in Client : Deliver(p, c)
    BY <1>3, <2>8 DEF Deliver, Work, StoredInv, serviceVars
  <2>9. CASE ReadUnlock(p)
    BY <1>3, <2>9 DEF ReadUnlock, Work, ServiceTypes, StoredInv, serviceVars
  <2> QED BY <2>1, <2>2, <2>3, <2>4, <2>5, <2>6, <2>7, <2>8, <2>9 DEF Publish
<1>4. \A q \in Publisher : pc'[q] \in Publishing /\ bar'[q][2] => Work(q)'
  BY <1>1, <1>2, <1>3, WorkKept DEF StoredInv
<1>5. CASE UNCHANGED sent
  BY <1>1, <1>4, <1>5, StoredGrows DEF StoredInv
<1>6. ASSUME NEW c \in Client, Deliver(p, c), sent' = [sent EXCEPT ![c] = Append(@, event[p])]
      PROVE  FinalsStored'
  <2>1. pc[p] = "send" /\ UNCHANGED stored
    BY <1>6 DEF Deliver, serviceVars
  <2>2. event[p] \in Event /\ (event[p].final /\ event[p].type # "ticker" =>
          <<event[p].type, event[p].bar>> \in stored[event[p].symbol])
    BY <2>1 DEF StoredInv, Work, Announced
  <2> SUFFICES ASSUME NEW d \in Client, NEW i \in 1..Len(sent'[d]),
                      sent'[d][i].final, sent'[d][i].type # "ticker"
               PROVE  <<sent'[d][i].type, sent'[d][i].bar>> \in stored[sent'[d][i].symbol]
    BY <2>1 DEF FinalsStored
  <2>3. sent[c] \in Seq(Event)
    BY DEF ServiceTypes
  <2>4. \/ i \in 1..Len(sent[d]) /\ sent'[d][i] = sent[d][i]
        \/ sent'[d][i] = event[p]
    BY <1>6, <2>2, <2>3 DEF ServiceTypes
  <2> QED BY <2>2, <2>4 DEF StoredInv, FinalsStored
<1>7. UNCHANGED sent \/ \E c \in Client : Deliver(p, c) /\ sent' = [sent EXCEPT ![c] = Append(@, event[p])]
  BY DEF Ingest, PersistFails, Publish, Persist, Rollup, Release, SkipRollup, AssignSeq, ReadLock,
         Deliver, ReadUnlock, subVars
<1> QED BY <1>4, <1>5, <1>6, <1>7 DEF StoredInv

\* A step of a client stores and announces nothing.
LEMMA StoredQuiet ==
  ASSUME StoredInv, UNCHANGED <<stored, pc, symbol, bar, outbox, event, sent>>
  PROVE  StoredInv'
BY DEF StoredInv, FinalsStored, Work

-----------------------------------------------------------------------------
(* Acknowledged subscriptions. *)

\* As long as nothing is lost from the queues and the events underway, nothing is missed.
LEMMA NotMissedKept ==
  ASSUME NotMissed, registered' \subseteq registered, UNCHANGED owed,
         \A c \in registered : \A n \in owed[c] :
           /\ HandedOver(c) \cup dropped[c] \subseteq HandedOver(c)' \cup dropped'[c]
           /\ Arriving(c, n) => n \in HandedOver(c)' \cup dropped'[c] \/ Arriving(c, n)'
  PROVE  NotMissed'
BY DEF NotMissed

LEMMA AckPublisher ==
  ASSUME HInv, OrderInv, AckInv, NEW p \in Publisher, Ingest(p) \/ PersistFails(p) \/ Publish(p)
  PROVE  AckInv'
<1> USE DEF OrderInv, ServiceTypes, Publishing, InHub, AckInv, AckTypes
<1>1. CASE Ingest(p) \/ PersistFails(p) \/ Persist(p) \/ Rollup(p) \/ Release(p) \/ SkipRollup(p)
  <2>1. /\ UNCHANGED <<registered, owed, sent, dropped, channels, acked, ack, client, event, todo>>
        /\ pc[p] \notin InHub
        /\ \A q \in Publisher \ {p} : pc'[q] = pc[q]
    BY <1>1 DEF Ingest, PersistFails, Persist, Rollup, Release, SkipRollup, Leave,
                hubVars, subVars, connVars
  <2>2. \A c, n : HandedOver(c)' = HandedOver(c) /\ (Arriving(c, n) => Arriving(c, n)')
    BY <2>1 DEF HandedOver, Arriving
  <2>3. NotMissed'
    BY <2>1, <2>2, NotMissedKept
  <2> QED BY <2>1, <2>3 DEF Acks
<1>2. CASE AssignSeq(p)
  <2> DEFINE e == [type |-> Head(outbox[p]), symbol |-> symbol[p], bar |-> bar[p][1],
                   final |-> bar[p][2], seq |-> seq + 1]
  <2>1. /\ pc[p] = "publish" /\ pc' = [pc EXCEPT ![p] = "lock"]
        /\ event' = [event EXCEPT ![p] = e]
        /\ owed' = [c \in Client |-> IF ChannelOf(e) \in acked[c] THEN owed[c] \cup {e.seq} ELSE owed[c]]
        /\ UNCHANGED <<registered, sent, dropped, channels, acked, ack, client, todo>>
    BY <1>2 DEF AssignSeq, subVars, connVars
  <2> HIDE DEF e
  <2>2. ASSUME NEW c \in registered', NEW n \in owed'[c]
        PROVE  n \in HandedOver(c)' \cup dropped'[c] \/ Arriving(c, n)'
    <3>0. c \in registered /\ c \in Client /\ HandedOver(c)' = HandedOver(c)
      BY <2>1 DEF HInv, HandedOver
    <3>1. CASE n \in owed[c]
      <4>1. Arriving(c, n) => Arriving(c, n)'
        BY <2>1 DEF Arriving
      <4> QED BY <2>1, <3>0, <3>1, <4>1 DEF NotMissed
    <3>2. CASE n = e.seq /\ ChannelOf(e) \in acked[c]
      BY <2>1, <3>0, <3>2 DEF Arriving, Acks
    <3> QED BY <2>1, <3>0, <3>1, <3>2
  <2>3. Acks'
    BY <2>1 DEF Acks
  <2> QED BY <2>1, <2>2, <2>3 DEF NotMissed
<1>3. CASE ReadLock(p)
  <2>1. /\ pc[p] = "lock" /\ pc' = [pc EXCEPT ![p] = "send"]
        /\ todo' = [todo EXCEPT ![p] = registered]
        /\ UNCHANGED <<registered, owed, event, sent, dropped, channels, acked, ack, client>>
    BY <1>3 DEF ReadLock, subVars, connVars
  <2>2. \A c \in registered : \A n : HandedOver(c)' = HandedOver(c) /\ (Arriving(c, n) => Arriving(c, n)')
    BY <2>1 DEF HandedOver, Arriving
  <2>3. NotMissed'
    BY <2>1, <2>2, NotMissedKept
  <2> QED BY <2>1, <2>3 DEF Acks
<1>4. ASSUME NEW d \in Client, Deliver(p, d)
      PROVE  AckInv'
  <2>1. /\ pc[p] = "send" /\ d \in todo[p] /\ todo' = [todo EXCEPT ![p] = @ \ {d}]
        /\ UNCHANGED <<registered, pc, owed, event, channels, acked, ack, client>>
    BY <1>4 DEF Deliver, connVars
  <2>2. event[p] \in Event /\ ~closed[d]
    BY <2>1 DEF Announced, HInv, Visiting, Leaving
  <2>3. /\ DOMAIN dropped' = Client /\ \A c \in Client : dropped[c] \subseteq dropped'[c]
        /\ sent' = sent \/ sent' = [sent EXCEPT ![d] = Append(@, event[p])]
    BY <1>4 DEF Deliver, CountDropped
  <2>4. \A c \in Client : /\ sent[c] \in Seq(Event) /\ sent'[c] \in Seq(Event)
                          /\ Len(sent[c]) <= Len(sent'[c])
                          /\ \A i \in 1..Len(sent[c]) : sent'[c][i] = sent[c][i]
    <3> SUFFICES ASSUME NEW c \in Client
                 PROVE  /\ sent[c] \in Seq(Event) /\ sent'[c] \in Seq(Event)
                        /\ Len(sent[c]) <= Len(sent'[c])
                        /\ \A i \in 1..Len(sent[c]) : sent'[c][i] = sent[c][i]
      OBVIOUS
    <3>1. sent[c] \in Seq(Event)
      OBVIOUS
    <3>2. sent'[c] = sent[c] \/ sent'[c] = Append(sent[c], event[p])
      BY <2>3
    <3>3. CASE sent'[c] = sent[c]
      BY <3>1, <3>3
    <3>4. CASE sent'[c] = Append(sent[c], event[p])
      <4> HIDE DEF OrderInv, ServiceTypes, AckInv, AckTypes
      <4> QED BY <2>2, <3>1, <3>4
    <3> QED BY <3>2, <3>3, <3>4
  <2>5. \A c \in Client : HandedOver(c) \subseteq HandedOver(c)'
    BY <2>4 DEF HandedOver
  <2>6. ChannelOf(event[p]) \in channels[d] => event[p].seq \in HandedOver(d)' \cup dropped'[d]
    <3>1. CASE ChannelOf(event[p]) \in channels[d] /\ sent' = [sent EXCEPT ![d] = Append(@, event[p])]
      <4>1. Len(sent'[d]) = Len(sent[d]) + 1 /\ sent'[d][Len(sent[d]) + 1] = event[p]
            /\ Len(sent[d]) + 1 \in 1..Len(sent'[d])
        BY <2>2, <2>4, <3>1
      <4> QED BY <4>1 DEF HandedOver
    <3>2. CASE ChannelOf(event[p]) \in channels[d] /\ ~(sent' = [sent EXCEPT ![d] = Append(@, event[p])])
      BY <1>4, <2>2, <3>2 DEF Deliver, CountDropped
    <3> QED BY <3>1, <3>2
  <2>7. ASSUME NEW c \in registered, NEW n, Arriving(c, n)
        PROVE  n \in HandedOver(c)' \cup dropped'[c] \/ Arriving(c, n)'
    <3>1. PICK q \in Publisher : /\ pc[q] \in InHub /\ event[q].seq = n
                                 /\ ChannelOf(event[q]) \in channels[c]
                                 /\ pc[q] = "send" => c \in todo[q]
      BY <2>7 DEF Arriving
    <3>2. CASE q = p /\ c = d
      BY <2>6, <3>1, <3>2
    <3>3. CASE ~(q = p /\ c = d)
      BY <2>1, <3>1, <3>3 DEF Arriving
    <3> QED BY <3>2, <3>3
  <2>8. NotMissed'
    BY <2>1, <2>3, <2>5, <2>7, NotMissedKept DEF HInv
  <2> QED BY <2>1, <2>3, <2>8 DEF Acks
<1>5. CASE ReadUnlock(p)
  <2>1. /\ pc[p] = "send" /\ todo[p] = {} /\ pc' = [pc EXCEPT ![p] = "publish"]
        /\ event' = [event EXCEPT ![p] = NoEvent]
        /\ UNCHANGED <<registered, owed, todo, sent, dropped, channels, acked, ack, client>>
    BY <1>5 DEF ReadUnlock, subVars, connVars
  <2>2. \A c, n : HandedOver(c)' = HandedOver(c) /\ (Arriving(c, n) => Arriving(c, n)')
    BY <2>1 DEF HandedOver, Arriving
  <2>3. NotMissed'
    BY <2>1, <2>2, NotMissedKept
  <2> QED BY <2>1, <2>3 DEF Acks
<1> QED BY <1>1, <1>2, <1>3, <1>4, <1>5 DEF Publish

LEMMA AckClient ==
  ASSUME HInv, AckInv, NEW c \in Client,
         \/ Connect(c) \/ Handle(c) \/ Written(c) \/ Acknowledge(c)
         \/ ReaderEnds(c) \/ ClientLeaves(c) \/ \E ch \in Wanted : Subscribe(c, ch)
  PROVE  AckInv'
<1> USE DEF AckInv, AckTypes
<1>0. /\ UNCHANGED <<pc, event, todo, sent, dropped, owed>>
      /\ \A d \in Client : channels[d] \subseteq channels'[d]
  BY DEF Connect, Handle, TakeEvent, Ping, WriteFails, HandlerStops, Unregister, CloseChannel,
         Written, Acknowledge, ReaderEnds, ClientLeaves, Subscribe, pubVars, subVars
<1>1. \A d \in Client : \A n : HandedOver(d)' = HandedOver(d) /\ (Arriving(d, n) => Arriving(d, n)')
  BY <1>0 DEF HandedOver, Arriving
<1>2. CASE Connect(c)
  <2>1. /\ client[c] = "none" /\ registered' = registered \cup {c}
        /\ client' = [client EXCEPT ![c] = "live"] /\ UNCHANGED <<channels, acked, ack>>
    BY <1>2 DEF Connect, subVars
  <2>2. Acks'
    BY <1>0, <2>1 DEF Acks, HInv, Domains
  <2>3. NotMissed'
    BY <1>0, <1>1, <2>1 DEF NotMissed, Acks, HInv
  <2> QED BY <1>0, <2>1, <2>2, <2>3
<1>3. CASE ~Connect(c)
  <2>1. registered' \subseteq registered
    BY <1>3 DEF Connect, Handle, TakeEvent, Ping, WriteFails, HandlerStops, Unregister, CloseChannel,
         Written, Acknowledge, ReaderEnds, ClientLeaves, Subscribe, hubVars
  <2>2. NotMissed'
    BY <1>0, <1>1, <2>1, NotMissedKept DEF HInv
  <2>3. CASE Acknowledge(c)
    BY <1>0, <2>2, <2>3 DEF Acknowledge, Acks, subVars
  <2>4. CASE ReaderEnds(c)
    BY <1>0, <2>2, <2>4 DEF ReaderEnds, Acks, subVars
  <2>5. CASE ClientLeaves(c)
    BY <1>0, <2>2, <2>5 DEF ClientLeaves, Acks, subVars, HInv, Domains
  <2>6. CASE \E ch \in Wanted : Subscribe(c, ch)
    BY <1>0, <2>2, <2>6 DEF Subscribe, Acks
  <2>7. CASE Handle(c) \/ Written(c)
    <3>1. UNCHANGED <<channels, acked, ack, client, owed, dropped>>
      BY <2>7 DEF Handle, TakeEvent, Ping, WriteFails, HandlerStops, Unregister, CloseChannel,
                  Written, subVars
    <3> QED BY <2>2, <3>1 DEF Acks
  <2> QED BY <1>3, <2>3, <2>4, <2>5, <2>6, <2>7
<1> QED BY <1>2, <1>3

-----------------------------------------------------------------------------
\* Everything together is inductive.
HubInv == HInv /\ OrderInv /\ StoredInv /\ AckInv

LEMMA HubStep ==
  ASSUME HubInv, [Next]_vars
  PROVE  HubInv'
<1> USE DEF HubInv
<1>1. HInv'
  BY HubInvStep
<1>2. ASSUME NEW p \in Publisher, Ingest(p) \/ PersistFails(p) \/ Publish(p)
      PROVE  HubInv'
  <2>1. OrderInv'
    BY <1>2, OrderIngest, OrderService, OrderNumber, OrderLocks, OrderDeliver DEF Publish
  <2> QED BY <1>1, <1>2, <2>1, StoredPublisher, AckPublisher
<1>3. ASSUME NEW c \in Client,
             \/ Connect(c) \/ Handle(c) \/ Written(c) \/ Acknowledge(c)
             \/ ReaderEnds(c) \/ ClientLeaves(c) \/ \E ch \in Wanted : Subscribe(c, ch)
      PROVE  HubInv'
  <2>1. UNCHANGED <<accepted, symbolLock, stored, pc, symbol, bar, outbox, event, todo, seq, sent>>
    BY <1>3 DEF Connect, Handle, TakeEvent, Ping, WriteFails, HandlerStops, Unregister, CloseChannel,
         Written, Acknowledge, ReaderEnds, ClientLeaves, Subscribe, serviceVars, pubVars, hubVars, subVars
  <2> QED BY <1>1, <1>3, <2>1, OrderQuiet, StoredQuiet, AckClient
<1>4. CASE UNCHANGED vars
  <2>1. /\ UNCHANGED <<accepted, symbolLock, stored, pc, symbol, bar, outbox, event, todo, seq, sent>>
        /\ UNCHANGED <<registered, channels, dropped, acked, ack, client, owed>>
    BY <1>4 DEF vars, serviceVars, pubVars, hubVars, subVars, connVars
  <2>2. AckInv'
    BY <2>1 DEF AckInv, AckTypes, Acks, NotMissed, Arriving, HandedOver
  <2> QED BY <1>1, <2>1, <2>2, OrderQuiet, StoredQuiet
<1> QED BY <1>2, <1>3, <1>4 DEF Next, Quiet

\* Everything together holds of a hub nobody has connected to.
LEMMA HubStart ==
  ASSUME Init
  PROVE  HubInv
<1>1. StoredInv
  BY DEF Init, StoredInv, FinalsStored, Publishing
<1>2. AckInv
  BY DEF Init, AckInv, AckTypes, Acks, NotMissed
<1> QED BY <1>1, <1>2, HubInit, OrderInit DEF HubInv

LEMMA HubAlways == Spec => []HubInv
BY HubStart, HubStep, PTL DEF Spec

\* IngestKline publishes under the symbol lock and Hub.Publish takes the sequence number
\* before the hub's lock: however publishers overtake each other on the way to the queues,
\* a client is handed the bars of a symbol in the order they were accepted, under rising
\* sequence numbers.
THEOREM HubKeepsOrder == Spec => []BarsInOrder
BY HubAlways, PTL DEF HubInv, OrderInv

\* IngestKline and RepairFinalBars store before they publish: no subscriber is handed a final
\* minute or bucket whose row is not in the store, whichever writes failed.
THEOREM HubAnnouncesStored == Spec => []FinalsStored
BY HubAlways, PTL DEF HubInv, StoredInv

\* The acknowledgement of a subscription is a promise: an event of the channel published after
\* it reaches the queue, is counted as dropped, or is underway, while clients come and go.
THEOREM HubMissesNothing == Spec => []AckedNotMissed
<1>1. HubInv => AckedNotMissed
  <2> SUFFICES ASSUME HubInv, NEW c \in registered, NEW n \in owed[c], Arriving(c, n)
               PROVE  Underway(n)
    BY DEF HubInv, AckInv, NotMissed, AckedNotMissed
  <2> QED BY NoEventAssumption DEF HubInv, OrderInv, Announced, Arriving, Underway
<1> QED BY <1>1, HubAlways, PTL
============================================================================
