------------------------------ MODULE Realtime -------------------------------
(***************************************************************************)
(* From an accepted bar to a WebSocket client: publishers (the collector's *)
(* readers and the repairs) take the lock of their symbol, store a final   *)
(* bar, and publish its events through the hub into the bounded queues of  *)
(* the subscribers; a handler per client writes its queue to the wire.     *)
(*                                                                         *)
(* A bar is the number it has in the order its symbol accepted bars.  The  *)
(* hub's RWMutex is its set of readers and the closing handlers that wait  *)
(* for it, which go before readers that come later.                        *)
(***************************************************************************)
EXTENDS Naturals, Sequences, FiniteSets

CONSTANTS Symbol,
          Publisher,            \* goroutines that bring bars
          Client,
          Wanted,               \* the channels clients ask for
          Capacity,             \* of a subscriber's queue (256)
          MaxBars,              \* bound on the bars brought
          MaxAdds,              \* bound on the subscriptions of a client
          MaxFaults,            \* bound on failed writes to the store
          NoEvent, Free

Type == {"kline", "ticker", "rollup"}
Channel == Type \X Symbol

ASSUME RealtimeAssumption ==
  /\ Wanted \subseteq Channel /\ Free \notin Publisher
  /\ Capacity \in Nat \ {0} /\ MaxBars \in Nat /\ MaxAdds \in Nat /\ MaxFaults \in Nat

VARIABLES
  symbolLock, accepted, stored,        \* per symbol: lock, bars accepted, rows stored
  pc, symbol, bar, outbox, event, todo, \* per publisher; bar is <<number, final>>
  bars,                                \* bars brought so far
  seq, readers, registered, panicked,  \* the hub
  channels, sent, taken, dropped,      \* per subscriber; the queue is sent after taken
  closed,                              \* its event channel is closed
  handler,                             \* the writing loop of the client's handler
  ack, acked, cancelled,               \* its reading loop
  client, adds,                        \* the client
  owed,                                \* history: events published after their ack
  faults

serviceVars == <<symbolLock, accepted, stored>>
pubVars == <<pc, symbol, bar, outbox, event, todo, bars>>
hubVars == <<seq, readers, registered, panicked>>
subVars == <<channels, sent, taken, dropped, closed>>
connVars == <<handler, ack, acked, cancelled, client, adds>>
vars == <<serviceVars, pubVars, hubVars, subVars, connVars, owed, faults>>

Event == [type : Type, symbol : Symbol, bar : Nat, final : BOOLEAN, seq : Nat]
ASSUME NoEventAssumption == NoEvent \notin Event
ChannelOf(e) == <<e.type, e.symbol>>
Queue(c) == SubSeq(sent[c], taken[c] + 1, Len(sent[c]))

TypeOK ==
  /\ symbolLock \in [Symbol -> Publisher \cup {Free}]
  /\ accepted \in [Symbol -> Nat] /\ stored \in [Symbol -> SUBSET (Type \X Nat)]
  /\ pc \in [Publisher -> {"idle", "persist", "publish", "lock", "send"}]
  /\ \A p \in Publisher : event[p] \in Event \cup {NoEvent}
  /\ readers \subseteq Publisher /\ registered \subseteq Client
  /\ channels \in [Client -> SUBSET Channel] /\ acked \in [Client -> SUBSET Channel]
  /\ \A c \in Client : Len(Queue(c)) <= Capacity
  /\ handler \in [Client -> {"off", "select", "write", "closing", "close", "done"}]
  /\ client \in [Client -> {"none", "live", "gone"}]

Init ==
  /\ symbolLock = [s \in Symbol |-> Free]
  /\ accepted = [s \in Symbol |-> 0] /\ stored = [s \in Symbol |-> {}]
  /\ pc = [p \in Publisher |-> "idle"] /\ symbol = [p \in Publisher |-> NoEvent]
  /\ bar = [p \in Publisher |-> <<0, FALSE>>]
  /\ outbox = [p \in Publisher |-> <<>>] /\ event = [p \in Publisher |-> NoEvent]
  /\ todo = [p \in Publisher |-> {}] /\ bars = 0
  /\ seq = 0 /\ readers = {} /\ registered = {} /\ panicked = FALSE
  /\ channels = [c \in Client |-> {}] /\ sent = [c \in Client |-> <<>>]
  /\ taken = [c \in Client |-> 0] /\ dropped = [c \in Client |-> {}]
  /\ closed = [c \in Client |-> FALSE]
  /\ handler = [c \in Client |-> "off"] /\ ack = [c \in Client |-> {}]
  /\ acked = [c \in Client |-> {}] /\ cancelled = [c \in Client |-> FALSE]
  /\ client = [c \in Client |-> "none"] /\ adds = [c \in Client |-> 0]
  /\ owed = [c \in Client |-> {}] /\ faults = 0

-----------------------------------------------------------------------------
(* MarketService: IngestKline and RepairFinalBars *)

\* Mutant: bars of one symbol are handled side by side.
Unlocked(s) == TRUE

LockFree(s) == symbolLock[s] = Free

\* A bar is taken under its symbol's lock: a final one is stored first, an
\* update is published at once, with the rollups somebody listens to.
Ingest(p) ==
  /\ pc[p] = "idle" /\ bars < MaxBars /\ bars' = bars + 1
  /\ \E s \in Symbol, final \in BOOLEAN :
       /\ LockFree(s)
       /\ symbolLock' = [symbolLock EXCEPT ![s] = p]
       /\ accepted' = [accepted EXCEPT ![s] = @ + 1]
       /\ symbol' = [symbol EXCEPT ![p] = s]
       /\ bar' = [bar EXCEPT ![p] = <<accepted[s] + 1, final>>]
       /\ pc' = [pc EXCEPT ![p] = IF final THEN "persist" ELSE "publish"]
       /\ outbox' = [outbox EXCEPT ![p] = <<"kline", "ticker", IF final THEN "bucket" ELSE "rollup">>]
  /\ UNCHANGED <<stored, event, todo, hubVars, subVars, connVars, owed, faults>>

\* The row that is stored next: the minute itself, then its bucket.
Persist(p) == /\ pc[p] = "persist"
              /\ stored' = [stored EXCEPT ![symbol[p]] = @ \cup {<<Head(outbox[p]), bar[p][1]>>}]
              /\ pc' = [pc EXCEPT ![p] = "publish"]
              /\ UNCHANGED <<symbolLock, accepted, symbol, bar, outbox, event, todo, bars, hubVars,
                             subVars, connVars, owed, faults>>

\* Mutant: the error is only logged.
PersistFailsOn(p) == /\ pc[p] = "persist" /\ faults < MaxFaults /\ faults' = faults + 1
                     /\ pc' = [pc EXCEPT ![p] = "publish"]
                     /\ UNCHANGED <<serviceVars, symbol, bar, outbox, event, todo, bars, hubVars,
                                    subVars, connVars, owed>>

\* The handler returns: its deferred unlock gives the symbol back.
Leave(p) == /\ pc' = [pc EXCEPT ![p] = "idle"]
            /\ outbox' = [outbox EXCEPT ![p] = <<>>]
            /\ symbol' = [symbol EXCEPT ![p] = NoEvent]
            /\ bar' = [bar EXCEPT ![p] = <<0, FALSE>>]
            /\ symbolLock' = [symbolLock EXCEPT ![symbol[p]] = Free]

\* UpsertBars fails: the row is neither stored nor published.
PersistFails(p) == /\ pc[p] = "persist" /\ faults < MaxFaults /\ faults' = faults + 1
                   /\ Leave(p)
                   /\ UNCHANGED <<accepted, stored, event, todo, bars, hubVars,
                                  subVars, connVars, owed>>

\* rollupFinalBars: a bucket the final completes is stored, then published;
\* one it does not complete is left alone.
Rollup(p) ==
  /\ pc[p] = "publish" /\ outbox[p] = <<"bucket">>
  /\ \/ /\ pc' = [pc EXCEPT ![p] = "persist"]
        /\ outbox' = [outbox EXCEPT ![p] = <<"rollup">>]
     \/ /\ outbox' = [outbox EXCEPT ![p] = <<>>]
        /\ UNCHANGED pc
  /\ UNCHANGED <<serviceVars, symbol, bar, event, todo, bars, hubVars, subVars, connVars, owed, faults>>

Release(p) == /\ pc[p] = "publish" /\ outbox[p] = <<>>
              /\ Leave(p)
              /\ UNCHANGED <<accepted, stored, event, todo, bars, hubVars,
                             subVars, connVars, owed, faults>>

Listened(ch) == \E c \in registered : ch \in channels[c]

\* publishLiveRollups leaves out a timeframe nobody listens to (HasSubscribers).
\* (buildLiveRollup may also fail or have no bar to give: left out.)
SkipRollup(p) ==
  /\ pc[p] = "publish" /\ ~bar[p][2] /\ outbox[p] = <<"rollup">>
  /\ ~Listened(<<"rollup", symbol[p]>>)
  /\ outbox' = [outbox EXCEPT ![p] = <<>>]
  /\ UNCHANGED <<serviceVars, pc, symbol, bar, event, todo, bars, hubVars, subVars, connVars, owed, faults>>

-----------------------------------------------------------------------------
(* Hub.Publish *)

\* The sequence number is taken before the lock of the hub.
AssignSeq(p) ==
  /\ pc[p] = "publish" /\ outbox[p] # <<>> /\ Head(outbox[p]) # "bucket"
  /\ Head(outbox[p]) = "rollup" => bar[p][2] \/ Listened(<<"rollup", symbol[p]>>)
  /\ LET e == [type |-> Head(outbox[p]), symbol |-> symbol[p], bar |-> bar[p][1],
               final |-> bar[p][2], seq |-> seq + 1]
     IN  /\ event' = [event EXCEPT ![p] = e]
         /\ owed' = [c \in Client |-> IF ChannelOf(e) \in acked[c] THEN owed[c] \cup {e.seq} ELSE owed[c]]
  /\ seq' = seq + 1
  /\ outbox' = [outbox EXCEPT ![p] = Tail(@)]
  /\ pc' = [pc EXCEPT ![p] = "lock"]
  /\ UNCHANGED <<serviceVars, symbol, bar, todo, bars, readers, registered, panicked, subVars,
                 connVars, faults>>

ReadLock(p) == /\ pc[p] = "lock" /\ \A c \in Client : handler[c] # "closing"
               /\ readers' = readers \cup {p}
               /\ todo' = [todo EXCEPT ![p] = registered]
               /\ pc' = [pc EXCEPT ![p] = "send"]
               /\ UNCHANGED <<serviceVars, symbol, bar, outbox, event, bars, seq, registered, panicked,
                              subVars, connVars, owed, faults>>

HasRoom(c) == Len(Queue(c)) < Capacity

\* Mutant: an event that finds the queue full disappears.
NotCounted(c, e) == UNCHANGED dropped

CountDropped(c, e) == dropped' = [dropped EXCEPT ![c] = @ \cup {e.seq}]

\* Mutant: the send waits for room in the queue.
DeliverBlocking(p, c) ==
  /\ pc[p] = "send" /\ c \in todo[p] /\ HasRoom(c)
  /\ todo' = [todo EXCEPT ![p] = @ \ {c}]
  /\ IF ChannelOf(event[p]) \in channels[c]
     THEN sent' = [sent EXCEPT ![c] = Append(@, event[p])] ELSE UNCHANGED sent
  /\ UNCHANGED <<serviceVars, pc, symbol, bar, outbox, event, bars, hubVars,
                 channels, taken, dropped, closed, connVars, owed, faults>>

\* One subscriber of the loop: a full queue loses the event, a closed one panics.
Deliver(p, c) ==
  /\ pc[p] = "send" /\ c \in todo[p]
  /\ todo' = [todo EXCEPT ![p] = @ \ {c}]
  /\ IF ChannelOf(event[p]) \notin channels[c] THEN UNCHANGED <<sent, dropped, panicked>>
     ELSE IF closed[c] THEN panicked' = TRUE /\ UNCHANGED <<sent, dropped>>
     ELSE IF HasRoom(c) THEN sent' = [sent EXCEPT ![c] = Append(@, event[p])]
                             /\ UNCHANGED <<dropped, panicked>>
     ELSE CountDropped(c, event[p]) /\ UNCHANGED <<sent, panicked>>
  /\ UNCHANGED <<serviceVars, pc, symbol, bar, outbox, event, bars, seq, readers, registered,
                 channels, taken, closed, connVars, owed, faults>>

ReadUnlock(p) == /\ pc[p] = "send" /\ todo[p] = {}
                 /\ readers' = readers \ {p}
                 /\ event' = [event EXCEPT ![p] = NoEvent]
                 /\ pc' = [pc EXCEPT ![p] = "publish"]
                 /\ UNCHANGED <<serviceVars, symbol, bar, outbox, todo, bars, seq, registered, panicked,
                                subVars, connVars, owed, faults>>

-----------------------------------------------------------------------------
(* The handler of a client *)

Connect(c) == /\ client[c] = "none" /\ readers = {}
              /\ client' = [client EXCEPT ![c] = "live"]
              /\ handler' = [handler EXCEPT ![c] = "select"]
              /\ registered' = registered \cup {c}
              /\ UNCHANGED <<serviceVars, pubVars, seq, readers, panicked, subVars,
                             ack, acked, cancelled, adds, owed, faults>>

\* The reading loop: a subscription is added, then acknowledged.
Subscribe(c, ch) ==
  /\ client[c] = "live" /\ handler[c] \in {"select", "write"} /\ ~cancelled[c]
  /\ ack[c] = {} /\ adds[c] < MaxAdds /\ ch \notin channels[c]
  /\ adds' = [adds EXCEPT ![c] = @ + 1]
  /\ channels' = [channels EXCEPT ![c] = @ \cup {ch}]
  /\ ack' = [ack EXCEPT ![c] = {ch}]
  /\ UNCHANGED <<serviceVars, pubVars, hubVars, sent, taken, dropped, closed,
                 handler, acked, cancelled, client, owed, faults>>

\* writeMu: the two loops write one after the other.
Acknowledge(c) == /\ ack[c] # {} /\ handler[c] # "write" /\ client[c] = "live"
                  /\ acked' = [acked EXCEPT ![c] = @ \cup ack[c]]
                  /\ ack' = [ack EXCEPT ![c] = {}]
                  /\ UNCHANGED <<serviceVars, pubVars, hubVars, subVars,
                                 handler, cancelled, client, adds, owed, faults>>

\* A read, or the write of an acknowledgement, fails: the reading loop ends.
ReaderEnds(c) == /\ client[c] = "gone" /\ ~cancelled[c]
                 /\ cancelled' = [cancelled EXCEPT ![c] = TRUE]
                 /\ ack' = [ack EXCEPT ![c] = {}]
                 /\ UNCHANGED <<serviceVars, pubVars, hubVars, subVars,
                                handler, acked, client, adds, owed, faults>>

TakeEvent(c) == /\ handler[c] = "select" /\ Queue(c) # <<>>
                /\ taken' = [taken EXCEPT ![c] = @ + 1]
                /\ handler' = [handler EXCEPT ![c] = "write"]
                /\ UNCHANGED <<serviceVars, pubVars, hubVars, channels, sent, dropped, closed,
                               ack, acked, cancelled, client, adds, owed, faults>>

\* The ticker: a ping is written like an event (one to a client that reads is
\* over at once).
Ping(c) == /\ handler[c] = "select" /\ client[c] = "gone"
           /\ handler' = [handler EXCEPT ![c] = "write"]
           /\ UNCHANGED <<serviceVars, pubVars, hubVars, subVars,
                          ack, acked, cancelled, client, adds, owed, faults>>

Written(c) == /\ handler[c] = "write" /\ client[c] = "live"
              /\ handler' = [handler EXCEPT ![c] = "select"]
              /\ UNCHANGED <<serviceVars, pubVars, hubVars, subVars,
                             ack, acked, cancelled, client, adds, owed, faults>>

\* Mutant: a failed write is ignored.
WriteFailsOn(c) == FALSE

\* A write to a client that is gone fails; one to a client that does not read waits.
WriteFails(c) == /\ handler[c] = "write" /\ client[c] = "gone"
                 /\ handler' = [handler EXCEPT ![c] = "closing"]
                 /\ UNCHANGED <<serviceVars, pubVars, hubVars, subVars,
                                ack, acked, cancelled, client, adds, owed, faults>>

HandlerStops(c) == /\ handler[c] = "select" /\ cancelled[c]
                   /\ handler' = [handler EXCEPT ![c] = "closing"]
                   /\ UNCHANGED <<serviceVars, pubVars, hubVars, subVars,
                                  ack, acked, cancelled, client, adds, owed, faults>>

\* Mutant: the subscriber is removed without the lock.
NoLock == TRUE

WriteLockFree == readers = {}

\* Subscriber.Close: out of the hub under its lock, then the channel.
Unregister(c) == /\ handler[c] = "closing" /\ WriteLockFree
                 /\ registered' = registered \ {c}
                 /\ handler' = [handler EXCEPT ![c] = "close"]
                 /\ UNCHANGED <<serviceVars, pubVars, seq, readers, panicked, subVars,
                                ack, acked, cancelled, client, adds, owed, faults>>

CloseChannel(c) == /\ handler[c] = "close"
                   /\ closed' = [closed EXCEPT ![c] = TRUE]
                   /\ handler' = [handler EXCEPT ![c] = "done"]
                   /\ UNCHANGED <<serviceVars, pubVars, hubVars, channels, sent, taken, dropped,
                                  ack, acked, cancelled, client, adds, owed, faults>>

-----------------------------------------------------------------------------
(* Environment *)

\* A client goes away.
ClientLeaves(c) == /\ client[c] = "live"
                   /\ client' = [client EXCEPT ![c] = "gone"]
                   /\ UNCHANGED <<serviceVars, pubVars, hubVars, subVars,
                                  handler, ack, acked, cancelled, adds, owed, faults>>

Publish(p) == \/ Persist(p) \/ Rollup(p) \/ Release(p) \/ SkipRollup(p) \/ AssignSeq(p) \/ ReadLock(p)
              \/ \E c \in Client : Deliver(p, c)
              \/ ReadUnlock(p)
Handle(c) == \/ TakeEvent(c) \/ Ping(c) \/ WriteFails(c) \/ HandlerStops(c)
             \/ Unregister(c) \/ CloseChannel(c)

\* Everything has been published and nobody listens any more.
Quiet == /\ \A p \in Publisher : pc[p] = "idle" /\ bars = MaxBars
         /\ \A c \in Client : handler[c] = "done"
         /\ UNCHANGED vars

Next == \/ \E p \in Publisher : Ingest(p) \/ PersistFails(p) \/ Publish(p)
        \/ \E c \in Client : \/ Connect(c) \/ Handle(c) \/ Written(c) \/ Acknowledge(c)
                             \/ ReaderEnds(c) \/ ClientLeaves(c)
                             \/ \E ch \in Wanted : Subscribe(c, ch)
        \/ Quiet

Spec == Init /\ [][Next]_vars

\* Goroutines run; a client that does not read may do so for ever, so Written
\* and Acknowledge are not fair.
FairSpec == /\ Spec
            /\ \A p \in Publisher : WF_vars(Publish(p))
            /\ \A c \in Client : WF_vars(Handle(c)) /\ WF_vars(ReaderEnds(c))
-----------------------------------------------------------------------------
(* Properties *)

\* Publishing never sends on a closed channel, which would end the process.
NeverPanics == ~panicked

\* A client sees the bars of a channel in the order the symbol accepted them,
\* and sequence numbers of a symbol only rise (across symbols they need not).
BarsInOrder ==
  \A c \in Client : \A i, j \in 1..Len(sent[c]) :
    i < j /\ sent[c][i].symbol = sent[c][j].symbol =>
      /\ sent[c][i].bar <= sent[c][j].bar
      /\ sent[c][i].seq < sent[c][j].seq

Underway(n) == \E p \in Publisher : event[p] # NoEvent /\ event[p].seq = n
HandedOver(c) == {sent[c][i].seq : i \in 1..Len(sent[c])}

\* After its acknowledgement a subscription misses nothing unnoticed: an event
\* of the channel is handed over, counted as dropped, or still underway.
AckedNotMissed ==
  \A c \in registered : \A n \in owed[c] : n \in HandedOver(c) \cup dropped[c] \/ Underway(n)

\* A final bar, minute or bucket, is announced only after its row was stored.
FinalsStored ==
  \A c \in Client : \A i \in 1..Len(sent[c]) :
    sent[c][i].final /\ sent[c][i].type # "ticker" =>
      <<sent[c][i].type, sent[c][i].bar>> \in stored[sent[c][i].symbol]

\* A client that does not read never holds up a publisher: the lock of a symbol
\* is always given back.
PublisherNotBlocked == \A p \in Publisher : pc[p] # "idle" ~> pc[p] = "idle"

\* The subscriber of a client that went away is removed and closed.
SubscriberReleased == \A c \in Client : client[c] = "gone" ~> (closed[c] /\ c \notin registered)
=============================================================================
