------------------------------ MODULE Collector ------------------------------
(***************************************************************************)
(* The collector of one market: runExchange keeps the active symbols of    *)
(* the exchange's list streaming.  A "static" adapter (Binance) spreads    *)
(* them over shards, one goroutine, connection and heartbeat each, and     *)
(* rebuilds all of them when the list changes; a "dynamic" one (OKX) holds *)
(* one connection and sends the difference as subscriptions.               *)
(*                                                                         *)
(* Loop 0 is runExchange, which owns the dynamic connection; loops from 1  *)
(* are the shards.  Delays are multiples of the base delay.  A message is  *)
(* what keeps a connection alive; what it carries is MinuteCalibration's.  *)
(***************************************************************************)
EXTENDS Naturals, FiniteSets, FiniteSetsExt, Sequences

CONSTANTS Symbol,      \* symbols, numbered in the order of the exchange's list
          Volatile,    \* symbols that may be listed and delisted
          ChunkSize,   \* SubscriptionChunkSize
          MaxDelay,    \* ReconnectMaxDelay
          ResetAfter,  \* ReconnectResetAfter, in ticks of a connection's age
          MaxChanges,  \* bound on changes of the list
          MaxFaults    \* bound on failures

ASSUME CollectorAssumption ==
  /\ Symbol \subseteq Nat /\ IsFiniteSet(Symbol) /\ Volatile \subseteq Symbol
  /\ ChunkSize \in Nat \ {0} /\ MaxDelay \in Nat \ {0} /\ ResetAfter \in Nat
  /\ MaxChanges \in Nat /\ MaxFaults \in Nat

VARIABLES
  mode,       \* what the adapter implements
  listed,     \* active symbols on the exchange
  stopped,    \* the process is shutting down
  cancelled,  \* context of the shards of this session
  want,       \* symbols of this session
  part,       \* symbols of each shard
  pc,         \* where each loop is
  conn,       \* its connection: "dead" when the peer is gone unnoticed
  heartbeat,  \* keepWebsocketAlive runs for this connection
  wire,       \* symbols the exchange streams on it
  refused,    \* symbols whose subscription the exchange refused on it
  outbox,     \* subscription requests still to be sent
  age, stable, delay,
  changes, faults

loopVars == <<pc, conn, heartbeat, wire, age, stable, delay>>
sessionVars == <<cancelled, want, part, refused, outbox>>
envVars == <<mode, listed, stopped, changes>>
vars == <<loopVars, sessionVars, envVars, faults>>

Static == mode = "static"

(***************************************************************************)
(* shardSymbols: round robin over the least number of shards; chunkSymbols *)
(* of the ordered symbols.                                                 *)
(***************************************************************************)
Rank(s, S) == Cardinality({x \in S : x < s})
ShardCount(S) == (Cardinality(S) + ChunkSize - 1) \div ChunkSize
Shard(S, i) == {s \in S : Rank(s, S) % ShardCount(S) = i - 1}

Chunks(op, S) ==
  [i \in 1..((Cardinality(S) + ChunkSize - 1) \div ChunkSize) |->
     [op |-> op, syms |-> {s \in S : Rank(s, S) \div ChunkSize = i - 1}]]

\* Mutant: nothing is ever unsubscribed.
SubscribeOnly(current, next) == Chunks("subscribe", next \ current)

\* syncSubscriptions: what left the list first, then what joined it.
SyncSubscriptions(current, next) ==
  Chunks("unsubscribe", current \ next) \o Chunks("subscribe", next \ current)

Shards == 1..ShardCount(Symbol)
Loops == {0} \cup Shards

-----------------------------------------------------------------------------
TypeOK ==
  /\ mode \in {"static", "dynamic"}
  /\ listed \subseteq Symbol /\ want \subseteq Symbol /\ refused \subseteq Symbol
  /\ stopped \in BOOLEAN /\ cancelled \in BOOLEAN
  /\ part \in [Shards -> SUBSET Symbol]
  /\ pc \in [Loops -> {"none", "refresh", "dial", "send", "read", "watch",
                       "drain", "wait", "done"}]
  /\ conn \in [Loops -> {"none", "up", "dead", "closed"}]
  /\ heartbeat \in [Loops -> BOOLEAN] /\ stable \in [Loops -> BOOLEAN]
  /\ wire \in [Loops -> SUBSET Symbol]
  /\ \A n \in DOMAIN outbox : outbox[n].syms \subseteq Symbol
  /\ age \in [Loops -> 0..ResetAfter] /\ delay \in [Loops -> 1..MaxDelay]
  /\ changes \in 0..MaxChanges /\ faults \in 0..MaxFaults

Init == /\ mode \in {"static", "dynamic"}
        /\ listed = Symbol
        /\ stopped = FALSE /\ cancelled = FALSE
        /\ want = {} /\ refused = {} /\ outbox = <<>>
        /\ part = [i \in Shards |-> {}]
        /\ pc = [i \in Loops |-> IF i = 0 THEN "refresh" ELSE "none"]
        /\ conn = [i \in Loops |-> "none"]
        /\ heartbeat = [i \in Loops |-> FALSE]
        /\ wire = [i \in Loops |-> {}]
        /\ age = [i \in Loops |-> 0]
        /\ stable = [i \in Loops |-> FALSE]
        /\ delay = [i \in Loops |-> 1]
        /\ changes = 0 /\ faults = 0

CanFail == faults < MaxFaults
Fault == faults' = faults + 1

\* The context a loop runs under is cancelled.
Cancelled(i) == stopped \/ (i # 0 /\ cancelled)

\* The deferred calls of a connection: closed, and its heartbeat told to end.
Hangup(i) == /\ conn' = [conn EXCEPT ![i] = "none"]
             /\ heartbeat' = [heartbeat EXCEPT ![i] = FALSE]
             /\ wire' = [wire EXCEPT ![i] = {}]
             /\ age' = [age EXCEPT ![i] = 0]
             /\ stable' = [stable EXCEPT ![i] = FALSE]

\* Mutant: the first message after the handshake counts.
AnyActivity(i) == TRUE

\* recordActivity: a responsive session counts once it is old enough.
RecordActivity(i) == stable[i] \/ age[i] >= ResetAfter

\* A session ends with an error: wait, for the base delay after a stable one.
EndsWithError(i, wasStable) ==
  /\ Hangup(i)
  /\ pc' = [pc EXCEPT ![i] = "wait"]
  /\ delay' = [delay EXCEPT ![i] = IF wasStable THEN 1 ELSE delay[i]]

Ends(i) == Hangup(i) /\ pc' = [pc EXCEPT ![i] = "done"] /\ UNCHANGED delay

-----------------------------------------------------------------------------
(* runExchange and connectOnce *)

Refresh ==
  /\ pc[0] = "refresh" /\ ~stopped
  /\ IF listed = {}
     THEN EndsWithError(0, FALSE) /\ UNCHANGED <<cancelled, want, part>>
     ELSE /\ want' = listed
          /\ cancelled' = FALSE
          /\ part' = [i \in Shards |-> IF Static /\ i <= ShardCount(listed)
                                       THEN Shard(listed, i) ELSE {}]
          /\ pc' = [i \in Loops |-> IF i = 0 THEN (IF Static THEN "watch" ELSE "dial")
                                    ELSE IF Static /\ i <= ShardCount(listed) THEN "dial"
                                    ELSE "none"]
          /\ delay' = [i \in Loops |-> IF i = 0 THEN delay[0] ELSE 1]
          /\ UNCHANGED <<conn, heartbeat, wire, age, stable>>
  /\ UNCHANGED <<refused, outbox, envVars, faults>>

\* FetchSymbols or UpsertSymbols fails.
RefreshFails == /\ pc[0] = "refresh" /\ CanFail /\ Fault
                /\ EndsWithError(0, FALSE)
                /\ UNCHANGED <<sessionVars, envVars>>

Dial(i) == /\ pc[i] = "dial" /\ ~Cancelled(i)
           /\ conn' = [conn EXCEPT ![i] = "up"]
           /\ pc' = [pc EXCEPT ![i] = IF i = 0 THEN "send" ELSE "read"]
           /\ heartbeat' = [heartbeat EXCEPT ![i] = i # 0]
           /\ wire' = [wire EXCEPT ![i] = IF i = 0 THEN {} ELSE part[i]]
           /\ IF i = 0 THEN outbox' = Chunks("subscribe", want) /\ refused' = {}
                       ELSE UNCHANGED <<outbox, refused>>
           /\ UNCHANGED <<age, stable, delay, cancelled, want, part, envVars, faults>>

DialFails(i) == /\ pc[i] = "dial" /\ ~Cancelled(i) /\ CanFail /\ Fault
                /\ EndsWithError(i, FALSE)
                /\ UNCHANGED <<sessionVars, envVars>>

\* The timer of the backoff; the next wait is twice as long.
WaitOver(i) == /\ pc[i] = "wait" /\ ~Cancelled(i)
               /\ pc' = [pc EXCEPT ![i] = IF i = 0 THEN "refresh" ELSE "dial"]
               /\ delay' = [delay EXCEPT ![i] = Min({2 * delay[i], MaxDelay})]
               /\ UNCHANGED <<conn, heartbeat, wire, age, stable, sessionVars, envVars, faults>>

\* runExchange returns: its context ended before, between or during sessions.
MainStops == /\ stopped /\ pc[0] \in {"refresh", "dial", "wait", "read"}
             /\ Ends(0)
             /\ outbox' = <<>>
             /\ UNCHANGED <<cancelled, want, part, refused, envVars, faults>>

-----------------------------------------------------------------------------
(* The dynamic connection *)

\* A write on a dead connection disappears in the socket's buffer.
Send == /\ pc[0] = "send" /\ outbox # <<>> /\ conn[0] # "closed"
        /\ LET request == Head(outbox)
           IN  wire' = [wire EXCEPT ![0] = IF conn[0] = "dead" THEN wire[0]
                                           ELSE IF request.op = "subscribe" THEN @ \cup request.syms
                                           ELSE @ \ request.syms]
        /\ outbox' = Tail(outbox)
        /\ UNCHANGED <<pc, conn, heartbeat, age, stable, delay,
                       cancelled, want, part, refused, envVars, faults>>

\* The exchange answers a subscription with an error event: ParseKlineMessage
\* skips events, so nobody learns of it.
SendRefused == /\ pc[0] = "send" /\ outbox # <<>> /\ conn[0] = "up"
               /\ Head(outbox).op = "subscribe" /\ CanFail /\ Fault
               /\ refused' = refused \cup Head(outbox).syms
               /\ outbox' = Tail(outbox)
               /\ UNCHANGED <<loopVars, cancelled, want, part, envVars>>

SendFails == /\ pc[0] = "send" /\ conn[0] = "closed" /\ outbox # <<>>
             /\ EndsWithError(0, stable[0])
             /\ outbox' = <<>>
             /\ UNCHANGED <<cancelled, want, part, refused, envVars, faults>>

SendDone == /\ pc[0] = "send" /\ outbox = <<>>
            /\ pc' = [pc EXCEPT ![0] = "read"]
            /\ UNCHANGED <<conn, heartbeat, wire, age, stable, delay, sessionVars, envVars, faults>>

\* refreshConnectionSubscriptions, between two messages.
Resubscribe ==
  /\ pc[0] = "read" /\ conn[0] = "up" /\ ~stopped /\ listed # want
  /\ IF listed = {} THEN EndsWithError(0, stable[0]) /\ UNCHANGED <<outbox, want, refused>>
     ELSE /\ outbox' = SyncSubscriptions(want, listed)
          /\ want' = listed
          /\ refused' = refused \cap listed
          /\ pc' = [pc EXCEPT ![0] = "send"]
          /\ UNCHANGED <<conn, heartbeat, wire, age, stable, delay>>
  /\ UNCHANGED <<cancelled, part, envVars, faults>>

ResubscribeFails == /\ pc[0] = "read" /\ conn[0] = "up" /\ CanFail /\ Fault
                    /\ EndsWithError(0, stable[0])
                    /\ UNCHANGED <<sessionVars, envVars>>

-----------------------------------------------------------------------------
(* Reading, on the dynamic connection and on the shards *)

Receive(i) == /\ pc[i] = "read" /\ conn[i] = "up" /\ ~Cancelled(i)
              /\ stable' = [stable EXCEPT ![i] = RecordActivity(i)]
              /\ stable' # stable
              /\ UNCHANGED <<pc, conn, heartbeat, wire, age, delay, sessionVars, envVars, faults>>

\* IngestKline fails for a bar of the message.
IngestFails(i) == /\ pc[i] = "read" /\ conn[i] = "up" /\ ~Cancelled(i) /\ CanFail /\ Fault
                  /\ EndsWithError(i, RecordActivity(i))
                  /\ UNCHANGED <<sessionVars, envVars>>

\* Mutant: a read without a deadline.
ReadFailsNoDeadline(i) ==
  /\ pc[i] = "read" /\ conn[i] = "closed"
  /\ IF Cancelled(i) THEN Ends(i) ELSE EndsWithError(i, stable[i])
  /\ UNCHANGED <<sessionVars, envVars, faults>>

\* The read fails: the peer closed, or nothing came before the read deadline.
ReadFails(i) == /\ pc[i] = "read" /\ conn[i] \in {"dead", "closed"}
                /\ IF Cancelled(i) THEN Ends(i) ELSE EndsWithError(i, stable[i])
                /\ UNCHANGED <<sessionVars, envVars, faults>>

\* No message for 30 seconds ends the dynamic connection, which sends no pings.
Quiet == /\ pc[0] = "read" /\ conn[0] = "up" /\ ~stopped /\ CanFail /\ Fault
         /\ EndsWithError(0, stable[0])
         /\ UNCHANGED <<sessionVars, envVars>>

-----------------------------------------------------------------------------
(* connectStaticStreams and its shards *)

\* A refresh that fails or answers nothing keeps the shards.
WatchRefresh == /\ pc[0] = "watch" /\ ~stopped
                /\ listed # {} /\ listed # want
                /\ cancelled' = TRUE
                /\ pc' = [pc EXCEPT ![0] = "drain"]
                /\ UNCHANGED <<conn, heartbeat, wire, age, stable, delay,
                               want, part, refused, outbox, envVars, faults>>

WatchStops == /\ pc[0] = "watch" /\ stopped
              /\ cancelled' = TRUE
              /\ pc' = [pc EXCEPT ![0] = "drain"]
              /\ UNCHANGED <<conn, heartbeat, wire, age, stable, delay,
                             want, part, refused, outbox, envVars, faults>>

\* Mutant: the next session does not wait for the shards of this one.
NoWait == TRUE

\* wg.Wait, then the next session at once, with the base delay.
AllEnded == \A i \in Shards : pc[i] \in {"none", "done"}

Drained == /\ pc[0] = "drain" /\ AllEnded
           /\ pc' = [pc EXCEPT ![0] = IF stopped THEN "done" ELSE "refresh"]
           /\ delay' = [delay EXCEPT ![0] = 1]
           /\ UNCHANGED <<conn, heartbeat, wire, age, stable, sessionVars, envVars, faults>>

\* Before a dial, during the wait, and after a message, the context is asked.
ShardStops(i) == /\ Cancelled(i) /\ pc[i] \in {"dial", "wait"}
                 /\ Ends(i)
                 /\ UNCHANGED <<sessionVars, envVars, faults>>

ShardStopsReading(i) == /\ Cancelled(i) /\ pc[i] = "read" /\ conn[i] = "up"
                        /\ Ends(i)
                        /\ UNCHANGED <<sessionVars, envVars, faults>>

\* Mutant: the heartbeat only pings.
HeartbeatIgnores(i) == FALSE

\* A reader waits in ReadMessage: the heartbeat closes the connection under it.
HeartbeatCloses(i) == /\ heartbeat[i] /\ Cancelled(i)
                      /\ heartbeat' = [heartbeat EXCEPT ![i] = FALSE]
                      /\ conn' = [conn EXCEPT ![i] = "closed"]
                      /\ wire' = [wire EXCEPT ![i] = {}]
                      /\ UNCHANGED <<pc, age, stable, delay, sessionVars, envVars, faults>>

-----------------------------------------------------------------------------
(* Environment *)

Drop(i) == /\ conn[i] = "up" /\ CanFail /\ Fault
           /\ \E c \in {"dead", "closed"} : conn' = [conn EXCEPT ![i] = c]
           /\ wire' = [wire EXCEPT ![i] = {}]
           /\ UNCHANGED <<pc, heartbeat, age, stable, delay, sessionVars, envVars>>

Ages(i) == /\ conn[i] = "up" /\ age[i] < ResetAfter
           /\ age' = [age EXCEPT ![i] = age[i] + 1]
           /\ UNCHANGED <<pc, conn, heartbeat, wire, stable, delay, sessionVars, envVars, faults>>

ListChanges(s) == /\ changes < MaxChanges /\ changes' = changes + 1
                  /\ listed' = IF s \in listed THEN listed \ {s} ELSE listed \cup {s}
                  /\ UNCHANGED <<mode, stopped, loopVars, sessionVars, faults>>

Stop == /\ ~stopped /\ stopped' = TRUE
        /\ UNCHANGED <<mode, listed, changes, loopVars, sessionVars, faults>>

AllDone == pc[0] = "done" /\ AllEnded
Terminated == AllDone /\ UNCHANGED vars

Main == \/ Refresh \/ MainStops \/ Send \/ SendFails \/ SendDone \/ Resubscribe
        \/ WatchRefresh \/ WatchStops \/ Drained
Loop(i) == Dial(i) \/ WaitOver(i) \/ ReadFails(i)

Next == \/ Main \/ RefreshFails \/ SendRefused \/ ResubscribeFails \/ Quiet
        \/ \E i \in Loops : \/ Loop(i) \/ DialFails(i) \/ Receive(i) \/ IngestFails(i)
                            \/ HeartbeatCloses(i) \/ Drop(i) \/ Ages(i)
        \/ \E i \in Shards : ShardStops(i) \/ ShardStopsReading(i)
        \/ \E s \in Volatile : ListChanges(s)
        \/ Stop \/ Terminated

Spec == Init /\ [][Next]_vars

\* Timers fire, deadlines pass and goroutines run; messages, faults, changes of
\* the list and the shutdown need not happen.
FairSpec == /\ Spec
            /\ WF_vars(Main)
            /\ \A i \in Loops : WF_vars(Loop(i))
            /\ \A i \in Shards : WF_vars(ShardStops(i)) /\ WF_vars(HeartbeatCloses(i))
-----------------------------------------------------------------------------
(* Properties *)

\* A symbol is never streamed on two connections at once: the shards divide
\* the list, and a session begins only after every shard of the last one ended.
OneStreamPerSymbol == \A i, j \in Loops : i # j => wire[i] \cap wire[j] = {}

\* The session's loops cover its symbols: once the requests are sent, a live
\* connection streams what its loop stands for, less what was refused.
SessionCovers ==
  /\ pc[0] = "watch" => UNION {part[i] : i \in Shards} = want
  /\ \A i \in Shards : conn[i] = "up" => wire[i] = part[i] /\ Cardinality(part[i]) <= ChunkSize
  /\ pc[0] = "read" /\ conn[0] = "up" => wire[0] = want \ refused

\* "A successful handshake alone must not erase repeated short connection
\* failures": the delay falls only at the end of a connection that reached
\* ResetAfter, or when a session ended because the list changed.
BackoffKept ==
  [][\A i \in Loops : delay'[i] < delay[i] =>
       age[i] >= ResetAfter \/ pc[0] = IF i = 0 THEN "drain" ELSE "refresh"]_vars

Streaming == UNION {wire[i] : i \in Loops}

\* When the list and the faults come to rest, exactly the listed symbols are
\* streamed for good.  Two exceptions: a refused subscription is not repeated on
\* the same connection, and an empty list leaves the shards of the last one.
CollectorConverges ==
  <>[](stopped \/ Streaming = listed \ refused \/ (Static /\ listed = {}))

\* A shutdown ends every loop and closes every connection.
ShutdownCompletes == stopped ~> (AllDone /\ \A i \in Loops : conn[i] = "none")
=============================================================================
