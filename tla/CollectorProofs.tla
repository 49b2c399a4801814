--------------------------- MODULE CollectorProofs ---------------------------
(***************************************************************************)
(* Three facts about the collector of a market, for every list of symbols, *)
(* chunk size, delay and number of failures and changes of the list: it    *)
(* never streams a symbol on two connections, a session covers its list,   *)
(* and short connections never erase the reconnect delay.                  *)
(*                                                                         *)
(* The invariant behind the first: shardSymbols gives no symbol to two     *)
(* shards, a shard streams symbols of its own part only, shards run only   *)
(* while connectStaticStreams watches or drains them, and a market has     *)
(* either shards or the one dynamic connection.                            *)
(***************************************************************************)
EXTENDS Collector, FiniteSetTheorems, TLAPS

Ended == {"none", "done"}
Offline == {"none", "done", "dial", "wait"}

LoopTypes ==
  /\ mode \in {"static", "dynamic"}
  /\ DOMAIN part = Shards
  /\ DOMAIN pc = Loops /\ DOMAIN wire = Loops

\* No symbol is in two shards of a session.
PartsDisjoint == \A i, j \in Shards : i # j => part[i] \cap part[j] = {}

\* A shard streams its part, and nothing before the handshake or after the end.
ShardWires ==
  \A i \in Shards : /\ wire[i] \subseteq part[i]
                    /\ pc[i] \in Offline => wire[i] = {}

\* Shards live inside connectStaticStreams, the dynamic connection outside.
Sessions ==
  /\ pc[0] \notin {"watch", "drain"} => \A i \in Shards : pc[i] \in Ended
  /\ Static => wire[0] = {} /\ pc[0] \notin {"dial", "send", "read"}
  /\ ~Static => pc[0] \notin {"watch", "drain"}

CInv == LoopTypes /\ PartsDisjoint /\ ShardWires /\ Sessions

-----------------------------------------------------------------------------
\* Shards are numbered from 1.
LEMMA ShardNumbers == \A i \in Shards : i \in Nat /\ i > 0 /\ i \in Loops
<1>1. Cardinality(Symbol) \in Nat
  BY CollectorAssumption, FS_CardinalityType
<1>2. ShardCount(Symbol) \in Int
  BY <1>1, CollectorAssumption DEF ShardCount
<1> QED BY <1>2 DEF Shards, Loops

\* The round robin of shardSymbols gives no symbol to two shards.
LEMMA ShardsDisjoint ==
  ASSUME NEW S, NEW i \in Shards, NEW j \in Shards, i # j
  PROVE  Shard(S, i) \cap Shard(S, j) = {}
<1>1. i - 1 # j - 1
  BY ShardNumbers
<1> QED BY <1>1 DEF Shard

\* Nothing is connected when runExchange begins.
LEMMA StreamsInit ==
  ASSUME Init
  PROVE  CInv
<1>1. LoopTypes
  BY DEF Init, LoopTypes
<1>2. PartsDisjoint /\ ShardWires /\ Sessions
  BY ShardNumbers DEF Init, PartsDisjoint, ShardWires, Sessions, Ended, Offline, Loops, Static
<1> QED BY <1>1, <1>2 DEF CInv

\* A step that keeps the session, streams nothing new and starts no loop.
LEMMA QuietStreams ==
  ASSUME CInv, UNCHANGED <<mode, part>>, DOMAIN pc' = Loops, DOMAIN wire' = Loops,
         \A i \in Loops : wire'[i] \subseteq wire[i],
         \A i \in Shards : /\ pc[i] \in Ended => pc'[i] \in Ended
                           /\ pc'[i] \in Offline => pc[i] \in Offline \/ wire'[i] = {},
         pc'[0] \notin {"watch", "drain"} =>
           pc[0] \notin {"watch", "drain"} \/ \A i \in Shards : pc'[i] \in Ended,
         Static => pc'[0] \notin {"dial", "send", "read"},
         ~Static => pc'[0] \notin {"watch", "drain"}
  PROVE  CInv'
<1>0. 0 \in Loops /\ \A i \in Shards : i \in Loops
  BY DEF Loops
<1>1. LoopTypes' /\ PartsDisjoint'
  BY DEF CInv, LoopTypes, PartsDisjoint
<1>2. ShardWires'
  BY <1>0 DEF CInv, ShardWires
<1>3. Sessions'
  BY <1>0 DEF CInv, Sessions, Static
<1> QED BY <1>1, <1>2, <1>3 DEF CInv

\* The deferred calls of a connection take its symbols off the wire.
LEMMA HangupStreams ==
  ASSUME CInv, NEW i \in Loops, Hangup(i), UNCHANGED <<mode, part>>,
         NEW label \in {"wait", "done"}, pc' = [pc EXCEPT ![i] = label],
         i = 0 => pc[0] \notin {"watch", "drain"},
         i # 0 => pc[i] \notin Ended
  PROVE  CInv'
<1>0. 0 \in Loops /\ \A j \in Shards : j \in Loops /\ j # 0
  BY ShardNumbers DEF Loops
<1>1. wire' = [wire EXCEPT ![i] = {}]
  BY DEF Hangup
<1>2. i # 0 => pc[0] \in {"watch", "drain"}
  BY DEF CInv, Sessions, Loops
<1>3. \A j \in Loops : wire'[j] \subseteq wire[j]
  BY <1>1 DEF CInv, LoopTypes
<1>4. pc'[0] = IF i = 0 THEN label ELSE pc[0]
  BY <1>0 DEF CInv, LoopTypes
<1>5. \A j \in Shards : /\ pc[j] \in Ended => pc'[j] \in Ended
                        /\ pc'[j] \in Offline => pc[j] \in Offline \/ wire'[j] = {}
  BY <1>0, <1>1 DEF CInv, LoopTypes
<1>6. Static => pc'[0] \notin {"dial", "send", "read"}
  BY <1>4 DEF CInv, Sessions
<1>7. ~Static => pc'[0] \notin {"watch", "drain"}
  BY <1>4 DEF CInv, Sessions
<1>8. DOMAIN pc' = Loops /\ DOMAIN wire' = Loops
  BY <1>1 DEF CInv, LoopTypes
<1>9. pc'[0] \notin {"watch", "drain"} => pc[0] \notin {"watch", "drain"}
  BY <1>2, <1>4
<1> QED BY <1>3, <1>5, <1>6, <1>7, <1>8, <1>9, QuietStreams

\* A new session: parts of the new list, and nothing of the last one on the wire.
LEMMA RefreshStreams ==
  ASSUME CInv, Refresh
  PROVE  CInv'
<1>0. 0 \in Loops /\ \A j \in Shards : j \in Loops /\ j # 0
  BY ShardNumbers DEF Loops
<1>1. CASE listed = {}
  <2>1. /\ Hangup(0) /\ pc' = [pc EXCEPT ![0] = "wait"] /\ UNCHANGED <<mode, part>>
        /\ pc[0] \notin {"watch", "drain"}
    BY <1>1 DEF Refresh, EndsWithError, envVars
  <2> QED BY <1>0, <2>1, HangupStreams
<1>2. CASE listed # {}
  <2>1. /\ part' = [i \in Shards |-> IF Static /\ i <= ShardCount(listed)
                                     THEN Shard(listed, i) ELSE {}]
        /\ pc' = [i \in Loops |-> IF i = 0 THEN (IF Static THEN "watch" ELSE "dial")
                                  ELSE IF Static /\ i <= ShardCount(listed) THEN "dial"
                                  ELSE "none"]
        /\ UNCHANGED <<mode, wire>> /\ pc[0] = "refresh"
    BY <1>2 DEF Refresh, envVars
  <2>2. \A i \in Shards : wire[i] = {}
    BY <2>1 DEF CInv, Sessions, ShardWires, Ended, Offline
  <2>3. LoopTypes'
    BY <2>1 DEF CInv, LoopTypes
  <2>4. PartsDisjoint'
    BY <2>1, ShardsDisjoint DEF PartsDisjoint
  <2>5. ShardWires'
    BY <2>1, <2>2 DEF ShardWires
  <2>6. Sessions'
    <3>1. pc'[0] = IF Static THEN "watch" ELSE "dial"
      BY <1>0, <2>1
    <3>2. ~Static => \A i \in Shards : pc'[i] = "none"
      BY <1>0, <2>1
    <3> QED BY <2>1, <3>1, <3>2 DEF CInv, Sessions, Static, Ended
  <2> QED BY <2>3, <2>4, <2>5, <2>6 DEF CInv
<1> QED BY <1>1, <1>2

\* A shard that dials streams its part; the dynamic connection nothing yet.
LEMMA DialStreams ==
  ASSUME CInv, NEW i \in Loops, Dial(i)
  PROVE  CInv'
<1>0. 0 \in Loops /\ \A j \in Shards : j \in Loops /\ j # 0
  BY ShardNumbers DEF Loops
<1>1. /\ pc[i] = "dial" /\ UNCHANGED <<mode, part>>
      /\ pc' = [pc EXCEPT ![i] = IF i = 0 THEN "send" ELSE "read"]
      /\ wire' = [wire EXCEPT ![i] = IF i = 0 THEN {} ELSE part[i]]
  BY DEF Dial, envVars
<1>2. LoopTypes' /\ PartsDisjoint'
  BY <1>1 DEF CInv, LoopTypes, PartsDisjoint
<1>3. ShardWires'
  BY <1>0, <1>1 DEF CInv, LoopTypes, ShardWires, Offline
<1>4. Sessions'
  BY <1>0, <1>1 DEF CInv, LoopTypes, Sessions, Static, Ended, Loops
<1> QED BY <1>2, <1>3, <1>4 DEF CInv

\* The dynamic connection's requests change what it streams; it has no shards beside it.
LEMMA SendStreams ==
  ASSUME CInv, pc[0] = "send", UNCHANGED <<mode, part, pc>>,
         NEW W, wire' = [wire EXCEPT ![0] = W]
  PROVE  CInv'
<1>0. 0 \in Loops /\ \A j \in Shards : j \in Loops /\ j # 0
  BY ShardNumbers DEF Loops
<1> QED BY <1>0 DEF CInv, LoopTypes, PartsDisjoint, ShardWires, Sessions, Static

\* Loop i goes on under another label that neither starts nor ends a connection.
LEMMA LabelStreams ==
  ASSUME CInv, UNCHANGED <<mode, part, wire>>, NEW i \in Loops, NEW label,
         pc' = [pc EXCEPT ![i] = label],
         i = 0 => /\ Static => label \notin {"dial", "send", "read"}
                  /\ ~Static => label \notin {"watch", "drain"}
                  /\ label \notin {"watch", "drain"} =>
                       pc[0] \notin {"watch", "drain"} \/ \A j \in Shards : pc[j] \in Ended,
         i # 0 => pc[i] = "wait" /\ label = "dial"
  PROVE  CInv'
<1>0. 0 \in Loops /\ \A j \in Shards : j \in Loops /\ j # 0
  BY ShardNumbers DEF Loops
<1>1. LoopTypes' /\ PartsDisjoint'
  BY DEF CInv, LoopTypes, PartsDisjoint
<1>2. ShardWires'
  BY <1>0 DEF CInv, LoopTypes, ShardWires, Offline
<1>3. Sessions'
  BY <1>0 DEF CInv, LoopTypes, Sessions, Static, Ended
<1> QED BY <1>1, <1>2, <1>3 DEF CInv

\* What a step without a change of pc, part or mode takes off the wire may go.
LEMMA WireStreams ==
  ASSUME CInv, UNCHANGED <<mode, part, pc>>, DOMAIN wire' = Loops,
         \A i \in Loops : wire'[i] \subseteq wire[i]
  PROVE  CInv'
BY QuietStreams DEF CInv, LoopTypes, Sessions

-----------------------------------------------------------------------------
\* The steps of runExchange and of the dynamic connection.
LEMMA MainStreams ==
  ASSUME CInv, Main \/ RefreshFails \/ SendRefused \/ ResubscribeFails \/ Quiet
  PROVE  CInv'
<1> USE DEF envVars, sessionVars, loopVars
<1>0. 0 \in Loops
  BY DEF Loops
<1>1. CASE Refresh
  BY <1>1, RefreshStreams
<1>2. CASE RefreshFails \/ ResubscribeFails \/ Quiet \/ SendFails \/ MainStops
  <2>1. Hangup(0) /\ UNCHANGED <<mode, part>>
    BY <1>2 DEF RefreshFails, ResubscribeFails, Quiet, SendFails, MainStops, EndsWithError, Ends
  <2>2. pc[0] \notin {"watch", "drain"}
    BY <1>2 DEF RefreshFails, ResubscribeFails, Quiet, SendFails, MainStops
  <2>3. \E label \in {"wait", "done"} : pc' = [pc EXCEPT ![0] = label]
    BY <1>2 DEF RefreshFails, ResubscribeFails, Quiet, SendFails, MainStops, EndsWithError, Ends
  <2> QED BY <1>0, <2>1, <2>2, <2>3, HangupStreams
<1>3. CASE Send
  BY <1>3, SendStreams DEF Send
<1>4. CASE SendRefused
  BY <1>4, WireStreams DEF SendRefused, CInv, LoopTypes
<1>5. CASE SendDone
  BY <1>0, <1>5, LabelStreams DEF SendDone, CInv, Sessions
<1>6. CASE Resubscribe
  <2>1. CASE listed = {}
    <3>1. /\ Hangup(0) /\ pc' = [pc EXCEPT ![0] = "wait"] /\ UNCHANGED <<mode, part>>
          /\ pc[0] \notin {"watch", "drain"}
      BY <1>6, <2>1 DEF Resubscribe, EndsWithError
    <3> QED BY <1>0, <3>1, HangupStreams
  <2>2. CASE listed # {}
    <3>1. /\ pc' = [pc EXCEPT ![0] = "send"] /\ UNCHANGED <<mode, part, wire>> /\ pc[0] = "read"
      BY <1>6, <2>2 DEF Resubscribe
    <3> QED BY <1>0, <3>1, LabelStreams DEF CInv, Sessions
  <2> QED BY <2>1, <2>2
<1>7. CASE WatchRefresh \/ WatchStops
  <2>1. /\ pc' = [pc EXCEPT ![0] = "drain"] /\ UNCHANGED <<mode, part, wire>> /\ pc[0] = "watch"
    BY <1>7 DEF WatchRefresh, WatchStops
  <2> QED BY <1>0, <2>1, LabelStreams DEF CInv, Sessions
<1>8. CASE Drained
  <2>1. /\ \E label \in {"done", "refresh"} : pc' = [pc EXCEPT ![0] = label]
        /\ UNCHANGED <<mode, part, wire>>
        /\ \A j \in Shards : pc[j] \in Ended
    BY <1>8 DEF Drained, AllEnded, Ended
  <2> QED BY <1>0, <2>1, LabelStreams
<1> QED BY <1>1, <1>2, <1>3, <1>4, <1>5, <1>6, <1>7, <1>8 DEF Main

\* The steps every loop takes, and the shards'.
LEMMA LoopStreams ==
  ASSUME CInv, NEW i \in Loops,
         \/ Loop(i) \/ DialFails(i) \/ Receive(i) \/ IngestFails(i)
         \/ HeartbeatCloses(i) \/ Drop(i) \/ Ages(i)
         \/ i \in Shards /\ (ShardStops(i) \/ ShardStopsReading(i))
  PROVE  CInv'
<1> USE DEF envVars, sessionVars
<1>1. CASE Dial(i)
  BY <1>1, DialStreams
<1>2. CASE WaitOver(i)
  <2>1. /\ pc[i] = "wait" /\ UNCHANGED <<mode, part, wire>>
        /\ pc' = [pc EXCEPT ![i] = IF i = 0 THEN "refresh" ELSE "dial"]
    BY <1>2 DEF WaitOver
  <2> QED BY <2>1, LabelStreams
<1>3. CASE DialFails(i) \/ IngestFails(i) \/ ReadFails(i)
           \/ (i \in Shards /\ (ShardStops(i) \/ ShardStopsReading(i)))
  <2>1. Hangup(i) /\ UNCHANGED <<mode, part>>
    BY <1>3 DEF DialFails, IngestFails, ReadFails, ShardStops, ShardStopsReading,
                EndsWithError, Ends
  <2>2. pc[i] \in {"dial", "read", "wait"}
    BY <1>3 DEF DialFails, IngestFails, ReadFails, ShardStops, ShardStopsReading
  <2>3. \E label \in {"wait", "done"} : pc' = [pc EXCEPT ![i] = label]
    BY <1>3 DEF DialFails, IngestFails, ReadFails, ShardStops, ShardStopsReading,
                EndsWithError, Ends
  <2> QED BY <2>1, <2>2, <2>3, HangupStreams DEF Ended
<1>4. CASE Receive(i) \/ Ages(i)
  BY <1>4, WireStreams DEF Receive, Ages, CInv, LoopTypes
<1>5. CASE HeartbeatCloses(i) \/ Drop(i)
  <2>1. UNCHANGED <<mode, part, pc>> /\ wire' = [wire EXCEPT ![i] = {}]
    BY <1>5 DEF HeartbeatCloses, Drop
  <2> QED BY <2>1, WireStreams DEF CInv, LoopTypes
<1> QED BY <1>1, <1>2, <1>3, <1>4, <1>5 DEF Loop

\* Every step of the collector and of its environment keeps the invariant.
LEMMA StreamsStep ==
  ASSUME CInv, [Next]_vars
  PROVE  CInv'
<1>1. CASE Main \/ RefreshFails \/ SendRefused \/ ResubscribeFails \/ Quiet
  BY <1>1, MainStreams
<1>2. ASSUME NEW i \in Loops, \/ Loop(i) \/ DialFails(i) \/ Receive(i) \/ IngestFails(i)
                              \/ HeartbeatCloses(i) \/ Drop(i) \/ Ages(i)
      PROVE  CInv'
  BY <1>2, LoopStreams
<1>3. ASSUME NEW i \in Shards, ShardStops(i) \/ ShardStopsReading(i) PROVE CInv'
  BY <1>3, LoopStreams, ShardNumbers
<1>4. CASE (\E s \in Volatile : ListChanges(s)) \/ Stop \/ Terminated \/ UNCHANGED vars
  <2>1. UNCHANGED <<mode, part, pc, wire>>
    BY <1>4 DEF ListChanges, Stop, Terminated, vars, loopVars, sessionVars, envVars
  <2> QED BY <2>1, WireStreams DEF CInv, LoopTypes
<1> QED BY <1>1, <1>2, <1>3, <1>4 DEF Next

\* The invariant leaves no two connections with a symbol in common.
LEMMA StreamsApart ==
  ASSUME CInv
  PROVE  OneStreamPerSymbol
<1> SUFFICES ASSUME NEW i \in Loops, NEW j \in Loops, i # j
             PROVE  wire[i] \cap wire[j] = {}
  BY DEF OneStreamPerSymbol
<1>1. CASE i \in Shards /\ j \in Shards
  BY <1>1 DEF CInv, ShardWires, PartsDisjoint
<1>2. Static => wire[0] = {}
  BY DEF CInv, Sessions
<1>3. ~Static => \A k \in Shards : wire[k] = {}
  BY DEF CInv, Sessions, ShardWires, Ended, Offline
<1>4. CASE i = 0 /\ j \in Shards
  BY <1>2, <1>3, <1>4
<1>5. CASE i \in Shards /\ j = 0
  BY <1>2, <1>3, <1>5
<1> QED BY <1>1, <1>4, <1>5 DEF Loops

\* connectStaticStreams and syncSubscriptions: through rebuilt sessions, reconnects,
\* half-open connections and shutdown, no symbol is streamed on two connections.
THEOREM StreamsNeverOverlap == Spec => []OneStreamPerSymbol
<1>1. Init => CInv
  BY StreamsInit
<1>2. CInv /\ [Next]_vars => CInv'
  BY StreamsStep
<1>3. CInv => OneStreamPerSymbol
  BY StreamsApart
<1> QED BY <1>1, <1>2, <1>3, PTL DEF Spec
-----------------------------------------------------------------------------
(***************************************************************************)
(* shardSymbols and chunkSymbols: the shards and the requests divide the   *)
(* symbols among them, and no shard is larger than a chunk.                *)
(***************************************************************************)
\* Division with remainder.
LEMMA Division ==
  ASSUME NEW a \in Nat, NEW c \in Nat \ {0}
  PROVE  /\ a \div c \in Nat /\ a % c \in 0..(c - 1)
         /\ a = c * (a \div c) + (a % c)
<1>1. a \div c \in Nat /\ a % c \in 0..(c - 1)
  OBVIOUS
<1>2. a = c * (a \div c) + (a % c)
  OBVIOUS
<1> QED BY <1>1, <1>2

LEMMA Multiples ==
  ASSUME NEW c \in Nat \ {0}, NEW d \in Nat, NEW e \in Nat
  PROVE  /\ c * d \in Nat /\ c * d = d * c
         /\ d <= e => c * d <= c * e
         /\ d < e => c * d + c <= c * e
<1>1. d \in Int /\ e \in Int /\ c \in Int
  OBVIOUS
<1>2. c * d \in Nat /\ c * d = d * c
  OBVIOUS
<1>3. d <= e => c * d <= c * e
  OBVIOUS
<1>4. d < e => c * d + c <= c * e
  OBVIOUS
<1> QED BY <1>2, <1>3, <1>4

\* The number of pieces of at most c of n things, of which thing r is in a piece.
LEMMA PieceCount ==
  ASSUME NEW n \in Nat, NEW c \in Nat \ {0}, NEW r \in Nat, r < n
  PROVE  /\ (n + c - 1) \div c \in Nat \ {0}
         /\ r \div c < (n + c - 1) \div c
         /\ n <= c * ((n + c - 1) \div c)
<1> DEFINE a == n + c - 1
           k == a \div c
           d == r \div c
<1>1. a \in Nat
  OBVIOUS
<1>2. k \in Nat /\ a % c \in 0..(c - 1) /\ a = c * k + (a % c)
  BY <1>1, Division
<1>3. d \in Nat /\ r % c \in 0..(c - 1) /\ r = c * d + (r % c)
  BY Division
<1>4. c * k \in Nat /\ c * d \in Nat
  BY <1>2, <1>3, Multiples
<1>5. n <= c * k /\ c * d < c * k
  BY <1>2, <1>3, <1>4
<1>6. d < k
  BY <1>2, <1>3, <1>5, Multiples
<1> HIDE DEF d
<1> QED BY <1>2, <1>3, <1>5, <1>6 DEF d

LEMMA PieceCountGrows ==
  ASSUME NEW n \in Nat, NEW m \in Nat, n <= m, NEW c \in Nat \ {0}
  PROVE  (n + c - 1) \div c <= (m + c - 1) \div c
<1> DEFINE a == n + c - 1
           b == m + c - 1
           k == a \div c
           l == b \div c
<1>1. a \in Nat /\ b \in Nat /\ a <= b
  OBVIOUS
<1>2. k \in Nat /\ a % c \in 0..(c - 1) /\ a = c * k + (a % c)
  BY <1>1, Division
<1>3. l \in Nat /\ b % c \in 0..(c - 1) /\ b = c * l + (b % c)
  BY <1>1, Division
<1>4. c * k \in Nat /\ c * l \in Nat
  BY <1>2, <1>3, Multiples
<1>5. c * k < c * l + c
  BY <1>1, <1>2, <1>3, <1>4
<1>6. l < k => c * l + c <= c * k
  BY <1>2, <1>3, Multiples
<1>7. k <= l
  <2> HIDE DEF k, l
  <2> QED BY <1>2, <1>3, <1>4, <1>5, <1>6
<1> QED BY <1>7

\* A place of a round robin over k shards is at most c deep.
LEMMA RoundRobin ==
  ASSUME NEW k \in Nat \ {0}, NEW c \in Nat \ {0}, NEW n \in Nat, n <= c * k,
         NEW r \in Nat, r < n
  PROVE  r \div k \in 0..(c - 1)
<1> DEFINE d == r \div k
<1>1. d \in Nat /\ r % k \in 0..(k - 1) /\ r = k * d + (r % k)
  BY Division
<1>2. k * d \in Nat /\ k * c = c * k /\ k * c \in Nat
  BY <1>1, Multiples
<1>3. k * d < k * c
  BY <1>1, <1>2
<1>4. c <= d => k * c <= k * d
  BY <1>1, Multiples
<1>5. d < c
  <2> HIDE DEF d
  <2> QED BY <1>1, <1>2, <1>3, <1>4
<1> QED BY <1>1, <1>5

LEMMA Ranks ==
  ASSUME NEW S \in SUBSET Symbol, NEW s \in S
  PROVE  /\ Cardinality(S) \in Nat /\ Rank(s, S) \in Nat /\ Rank(s, S) < Cardinality(S)
         /\ \A t \in S : s # t => Rank(s, S) # Rank(t, S)
<1>1. IsFiniteSet(S) /\ Cardinality(S) \in Nat /\ S \subseteq Nat
  BY CollectorAssumption, FS_Subset, FS_CardinalityType
<1> DEFINE Below(t) == {x \in S : x < t}
<1>2. \A t \in S : IsFiniteSet(Below(t)) /\ Cardinality(Below(t)) \in Nat
  BY <1>1, FS_Subset, FS_CardinalityType
<1>3. Cardinality(Below(s)) < Cardinality(S)
  <2>1. Below(s) \subseteq S /\ Below(s) # S
    BY <1>1
  <2> HIDE DEF Below
  <2> QED BY <1>1, <1>2, <2>1, FS_Subset
<1>4. ASSUME NEW t \in S, NEW u \in S, t < u
      PROVE  Cardinality(Below(t)) < Cardinality(Below(u))
  <2>0. t \in Nat /\ u \in Nat
    BY <1>1
  <2>1. Below(t) \subseteq Below(u)
    <3>1. \A x \in Nat : x < t => x < u
      BY <1>4, <2>0
    <3> QED BY <1>1, <3>1
  <2>2. t \in Below(u) /\ t \notin Below(t)
    BY <1>4, <2>0
  <2> HIDE DEF Below
  <2> QED BY <1>2, <2>1, <2>2, FS_Subset
<1>5. ASSUME NEW t \in S, s # t PROVE Cardinality(Below(s)) # Cardinality(Below(t))
  <2>1. s < t \/ t < s
    BY <1>1, <1>5
  <2> HIDE DEF Below
  <2> QED BY <1>2, <1>4, <2>1
<1> QED BY <1>1, <1>2, <1>3, <1>5 DEF Rank

LEMMA ShardSizes ==
  ASSUME NEW S \in SUBSET Symbol, NEW i \in Nat, S # {}
  PROVE  Cardinality(Shard(S, i)) <= ChunkSize
<1> DEFINE n == Cardinality(S)
           k == ShardCount(S)
           T == Shard(S, i)
           f == [s \in T |-> Rank(s, S) \div k]
<1>0. ChunkSize \in Nat \ {0}
  BY CollectorAssumption
<1>1. PICK s0 \in S : TRUE
  OBVIOUS
<1>2. n \in Nat /\ \A s \in S : Rank(s, S) \in Nat /\ Rank(s, S) < n
  BY <1>1, Ranks
<1>3. k \in Nat \ {0} /\ n <= ChunkSize * k
  BY <1>0, <1>1, <1>2, PieceCount DEF ShardCount
<1>4. T \subseteq S /\ \A s \in T : Rank(s, S) % k = i - 1
  BY DEF Shard
<1> HIDE DEF n, k, T
<1>5. \A s \in T : Rank(s, S) \div k \in 0..(ChunkSize - 1)
  BY <1>0, <1>2, <1>3, <1>4, RoundRobin
<1>6. ASSUME NEW s \in T, NEW t \in T, f[s] = f[t] PROVE s = t
  <2>1. Rank(s, S) = k * (Rank(s, S) \div k) + (Rank(s, S) % k)
    BY <1>2, <1>3, <1>4, Division
  <2>2. Rank(t, S) = k * (Rank(t, S) \div k) + (Rank(t, S) % k)
    BY <1>2, <1>3, <1>4, Division
  <2>3. Rank(s, S) = Rank(t, S)
    BY <1>4, <1>6, <2>1, <2>2
  <2> QED BY <1>4, <2>3, Ranks
<1>7. f \in Injection(T, 0..(ChunkSize - 1))
  BY <1>5, <1>6 DEF Injection, IsInjective
<1>8. IsFiniteSet(0..(ChunkSize - 1)) /\ Cardinality(0..(ChunkSize - 1)) = ChunkSize
  BY <1>0, FS_Interval
<1>9. Cardinality(T) <= ChunkSize
  BY <1>7, <1>8, FS_Injection
<1> QED BY <1>9 DEF T

\* Every symbol of the list is in one of its shards, which are among Shards.
LEMMA ShardsCover ==
  ASSUME NEW S \in SUBSET Symbol, NEW s \in S
  PROVE  \E i \in Shards : i <= ShardCount(S) /\ s \in Shard(S, i)
<1>0. ChunkSize \in Nat \ {0} /\ IsFiniteSet(Symbol)
  BY CollectorAssumption
<1>1. Cardinality(S) \in Nat /\ Rank(s, S) \in Nat /\ Rank(s, S) < Cardinality(S)
  BY Ranks
<1>2. ShardCount(S) \in Nat \ {0}
  BY <1>0, <1>1, PieceCount DEF ShardCount
<1>3. Cardinality(Symbol) \in Nat /\ Cardinality(S) <= Cardinality(Symbol)
  BY <1>0, FS_Subset, FS_CardinalityType
<1>4. ShardCount(S) <= ShardCount(Symbol) /\ ShardCount(Symbol) \in Nat
  <2>1. ShardCount(S) <= ShardCount(Symbol)
    BY <1>0, <1>1, <1>3, PieceCountGrows DEF ShardCount
  <2>2. Cardinality(Symbol) + ChunkSize - 1 \in Nat
    BY <1>0, <1>3
  <2> QED BY <1>0, <2>1, <2>2, Division DEF ShardCount
<1>5. Rank(s, S) % ShardCount(S) \in 0..(ShardCount(S) - 1)
  BY <1>1, <1>2, Division
<1> DEFINE i == (Rank(s, S) % ShardCount(S)) + 1
<1>6. i \in Shards /\ i <= ShardCount(S)
  <2> DEFINE r == Rank(s, S) % ShardCount(S)
  <2>1. r \in 0..(ShardCount(S) - 1) /\ i = r + 1
    BY <1>5
  <2> HIDE DEF r, i
  <2> QED BY <1>2, <1>4, <2>1 DEF Shards
<1>7. s \in Shard(S, i)
  <2>1. i - 1 = Rank(s, S) % ShardCount(S)
    BY <1>5
  <2> QED BY <2>1 DEF Shard
<1> QED BY <1>6, <1>7

Request == [op : {"subscribe", "unsubscribe"}, syms : SUBSET Symbol]

\* chunkSymbols: requests of one kind that divide the symbols among them.
LEMMA ChunksDivide ==
  ASSUME NEW S \in SUBSET Symbol, NEW op \in {"subscribe", "unsubscribe"}
  PROVE  /\ Chunks(op, S) \in Seq(Request)
         /\ \A n \in 1..Len(Chunks(op, S)) :
              /\ Chunks(op, S)[n].op = op /\ Chunks(op, S)[n].syms \subseteq S
              /\ \A m \in 1..Len(Chunks(op, S)) :
                   m # n => Chunks(op, S)[n].syms \cap Chunks(op, S)[m].syms = {}
         /\ \A s \in S : \E n \in 1..Len(Chunks(op, S)) : s \in Chunks(op, S)[n].syms
<1> DEFINE k == (Cardinality(S) + ChunkSize - 1) \div ChunkSize
           Piece(n) == {s \in S : Rank(s, S) \div ChunkSize = n - 1}
           q == Chunks(op, S)
<1>0. ChunkSize \in Nat \ {0} /\ Cardinality(S) \in Nat
  BY CollectorAssumption, FS_Subset, FS_CardinalityType
<1>1. k \in Nat
  <2>1. Cardinality(S) + ChunkSize - 1 \in Nat
    BY <1>0
  <2> QED BY <1>0, <2>1, Division
<1>2. q = [n \in 1..k |-> [op |-> op, syms |-> Piece(n)]]
  BY DEF Chunks
<1>3. \A n \in 1..k : Piece(n) \subseteq S
  OBVIOUS
<1>4. ASSUME NEW n \in 1..k, NEW m \in 1..k, n # m PROVE Piece(n) \cap Piece(m) = {}
  <2>1. n - 1 # m - 1
    BY <1>1, <1>4
  <2> QED BY <2>1
<1>5. ASSUME NEW s \in S PROVE \E n \in 1..k : s \in Piece(n)
  <2> DEFINE d == Rank(s, S) \div ChunkSize
  <2>1. d < k /\ d \in Nat
    BY <1>0, Ranks, PieceCount, Division
  <2>2. d + 1 \in 1..k /\ (d + 1) - 1 = d
    <3> HIDE DEF d, k
    <3> QED BY <1>1, <2>1
  <2>3. s \in Piece(d + 1)
    BY <2>2
  <2> QED BY <2>2, <2>3
<1> HIDE DEF k, Piece
<1>6. q \in Seq(Request) /\ Len(q) = k
  <2>1. \A n \in 1..k : [op |-> op, syms |-> Piece(n)] \in Request
    BY <1>3 DEF Request
  <2> HIDE DEF q
  <2>2. DOMAIN q = 1..k /\ q \in [1..k -> Request]
    BY <1>2, <2>1
  <2> QED BY <1>1, <2>2
<1>7. \A n \in 1..k : q[n].op = op /\ q[n].syms = Piece(n)
  BY <1>2
<1> HIDE DEF q
<1>8. /\ q \in Seq(Request)
      /\ \A n \in 1..Len(q) : /\ q[n].op = op /\ q[n].syms \subseteq S
                              /\ \A m \in 1..Len(q) : m # n => q[n].syms \cap q[m].syms = {}
      /\ \A s \in S : \E n \in 1..Len(q) : s \in q[n].syms
  BY <1>3, <1>4, <1>5, <1>6, <1>7
<1> QED BY <1>8 DEF q

-----------------------------------------------------------------------------
(***************************************************************************)
(* What a session streams.  While the dynamic connection is up, the        *)
(* requests still to be sent are what its stream lacks or has too much.    *)
(***************************************************************************)
SessionTypes ==
  /\ listed \subseteq Symbol /\ want \subseteq Symbol /\ refused \subseteq Symbol
  /\ outbox \in Seq(Request)
  /\ DOMAIN conn = Loops

ShardsCovered ==
  /\ pc[0] = "watch" => UNION {part[i] : i \in Shards} = want
  /\ \A i \in Shards : Cardinality(part[i]) <= ChunkSize
  /\ \A i \in Shards : conn[i] = "up" => wire[i] = part[i] /\ pc[i] = "read"

Connected == conn[0] = "up" /\ pc[0] \in {"send", "read"}
Subscribes(n) == outbox[n].op = "subscribe"

\* A request adds what is wanted, neither streamed nor refused, and takes away
\* what is not wanted; together they make the stream what is wanted.
Requests ==
  /\ \A n \in 1..Len(outbox) :
       /\ Subscribes(n) => outbox[n].syms \subseteq want \ (refused \cup wire[0])
       /\ ~Subscribes(n) => outbox[n].syms \cap want = {}
       /\ \A m \in 1..Len(outbox) :
            Subscribes(n) /\ Subscribes(m) /\ n # m => outbox[n].syms \cap outbox[m].syms = {}
  /\ refused \subseteq want \ wire[0]
  /\ \A s \in want \ (refused \cup wire[0]) :
       \E n \in 1..Len(outbox) : Subscribes(n) /\ s \in outbox[n].syms
  /\ \A s \in wire[0] \ want :
       \E n \in 1..Len(outbox) : ~Subscribes(n) /\ s \in outbox[n].syms
  /\ pc[0] = "read" => outbox = <<>>

SInv == CInv /\ SessionTypes /\ ShardsCovered /\ (Connected => Requests)

LEMMA LoopNumbers == 0 \in Loops /\ \A i \in Shards : i \in Loops /\ i # 0
BY ShardNumbers DEF Loops

LEMMA SessionInit ==
  ASSUME Init
  PROVE  SInv
<1>1. CInv
  BY StreamsInit
<1>2. SessionTypes
  BY DEF Init, SessionTypes
<1>3. ShardsCovered
  <2>1. Cardinality({}) <= ChunkSize
    BY CollectorAssumption, FS_EmptySet
  <2> QED BY <2>1, LoopNumbers DEF Init, ShardsCovered
<1>4. ~Connected
  BY LoopNumbers DEF Init, Connected
<1> QED BY <1>1, <1>2, <1>3, <1>4 DEF SInv

\* A step that brings no shard up and keeps the division of the symbols.
LEMMA ShardsKept ==
  ASSUME ShardsCovered, UNCHANGED part,
         pc'[0] = "watch" => pc[0] = "watch" /\ want' = want,
         \A i \in Shards : conn'[i] = "up" => /\ conn[i] = "up" /\ wire'[i] = wire[i]
                                              /\ pc'[i] = pc[i]
  PROVE  ShardsCovered'
BY DEF ShardsCovered

\* A step that leaves the dynamic connection alone or ends it.
LEMMA RequestsKept ==
  ASSUME Connected => Requests, UNCHANGED <<want, refused>>,
         Connected' => /\ Connected /\ wire'[0] = wire[0] /\ pc'[0] = pc[0]
                       /\ outbox' = outbox
  PROVE  (Connected => Requests)'
<1> SUFFICES ASSUME Connected' PROVE Requests'
  OBVIOUS
<1> QED BY DEF Requests, Subscribes

\* The end of a connection.
LEMMA HangupSession ==
  ASSUME SInv, CInv', NEW i \in Loops, Hangup(i), UNCHANGED <<part, want, listed, refused>>,
         NEW label \in {"wait", "done"}, pc' = [pc EXCEPT ![i] = label],
         outbox' = outbox \/ (i = 0 /\ outbox' = <<>>)
  PROVE  SInv'
<1>1. /\ conn' = [conn EXCEPT ![i] = "none"] /\ wire' = [wire EXCEPT ![i] = {}]
      /\ DOMAIN conn = Loops /\ DOMAIN wire = Loops /\ DOMAIN pc = Loops
  BY DEF Hangup, SInv, SessionTypes, CInv, LoopTypes
<1>2. SessionTypes'
  BY <1>1 DEF SInv, SessionTypes
<1>3. ShardsCovered'
  BY <1>1, ShardsKept, LoopNumbers DEF SInv
<1>4. (Connected => Requests)'
  <2>1. Connected' => /\ i # 0 /\ Connected /\ wire'[0] = wire[0] /\ pc'[0] = pc[0]
    BY <1>1, LoopNumbers DEF Connected
  <2> QED BY <2>1, RequestsKept DEF SInv
<1> QED BY <1>2, <1>3, <1>4 DEF SInv

\* A loop changes its label, or a connection is lost, with nothing else for the session.
LEMMA QuietSession ==
  ASSUME SInv, CInv', UNCHANGED <<part, want, refused, outbox>>, listed' \subseteq Symbol,
         DOMAIN conn' = Loops,
         pc'[0] = "watch" => pc[0] = "watch",
         \A i \in Shards : conn'[i] = "up" => /\ conn[i] = "up" /\ wire'[i] = wire[i]
                                              /\ pc'[i] = pc[i],
         Connected' => Connected /\ wire'[0] = wire[0] /\ pc'[0] = pc[0]
  PROVE  SInv'
<1>1. SessionTypes'
  BY DEF SInv, SessionTypes
<1>2. ShardsCovered'
  BY ShardsKept DEF SInv
<1>3. (Connected => Requests)'
  BY RequestsKept DEF SInv
<1> QED BY <1>1, <1>2, <1>3 DEF SInv

\* A new session divides the list among the shards.
LEMMA RefreshSession ==
  ASSUME SInv, CInv', Refresh
  PROVE  SInv'
<1>1. CASE listed = {}
  <2>1. /\ Hangup(0) /\ pc' = [pc EXCEPT ![0] = "wait"]
        /\ UNCHANGED <<part, want, listed, refused, outbox>>
    BY <1>1 DEF Refresh, EndsWithError, envVars
  <2> QED BY <2>1, HangupSession, LoopNumbers
<1>2. CASE listed # {}
  <2>1. /\ part' = [i \in Shards |-> IF Static /\ i <= ShardCount(listed)
                                     THEN Shard(listed, i) ELSE {}]
        /\ pc' = [i \in Loops |-> IF i = 0 THEN (IF Static THEN "watch" ELSE "dial")
                                  ELSE IF Static /\ i <= ShardCount(listed) THEN "dial"
                                  ELSE "none"]
        /\ want' = listed /\ pc[0] = "refresh"
        /\ UNCHANGED <<conn, wire, refused, outbox, listed>>
    BY <1>2 DEF Refresh, envVars
  <2>2. SessionTypes'
    BY <2>1 DEF SInv, SessionTypes
  <2>3. \A i \in Shards : conn[i] # "up"
    BY <2>1 DEF SInv, CInv, Sessions, ShardsCovered, Ended
  <2>4. listed \in SUBSET Symbol
    BY DEF SInv, SessionTypes
  <2>5. ASSUME NEW i \in Shards PROVE Cardinality(part'[i]) <= ChunkSize
    <3>1. Cardinality({}) <= ChunkSize
      BY CollectorAssumption, FS_EmptySet
    <3>2. Cardinality(Shard(listed, i)) <= ChunkSize
      BY <1>2, <2>4, ShardSizes, ShardNumbers
    <3> QED BY <2>1, <3>1, <3>2
  <2>6. ASSUME Static PROVE UNION {part'[i] : i \in Shards} = listed
    <3>1. \A i \in Shards : part'[i] \subseteq listed
      BY <2>1 DEF Shard
    <3>2. ASSUME NEW s \in listed PROVE \E i \in Shards : s \in part'[i]
      BY <2>1, <2>4, <2>6, ShardsCover
    <3> QED BY <3>1, <3>2
  <2>7. pc'[0] = "watch" => Static
    BY <2>1, LoopNumbers
  <2>8. ShardsCovered'
    BY <2>1, <2>3, <2>5, <2>6, <2>7 DEF ShardsCovered
  <2>9. ~Connected'
    BY <2>1, LoopNumbers DEF Connected
  <2> QED BY <2>2, <2>8, <2>9 DEF SInv
<1> QED BY <1>1, <1>2

\* A shard streams its part from the handshake on, the dynamic connection asks for it all.
LEMMA DialSession ==
  ASSUME SInv, CInv', NEW i \in Loops, Dial(i)
  PROVE  SInv'
<1>1. /\ pc[i] = "dial" /\ UNCHANGED <<part, want, listed>>
      /\ pc' = [pc EXCEPT ![i] = IF i = 0 THEN "send" ELSE "read"]
      /\ conn' = [conn EXCEPT ![i] = "up"]
      /\ wire' = [wire EXCEPT ![i] = IF i = 0 THEN {} ELSE part[i]]
      /\ IF i = 0 THEN outbox' = Chunks("subscribe", want) /\ refused' = {}
                  ELSE UNCHANGED <<outbox, refused>>
  BY DEF Dial, envVars
<1>2. /\ DOMAIN conn = Loops /\ DOMAIN wire = Loops /\ DOMAIN pc = Loops
      /\ want \in SUBSET Symbol
  BY DEF SInv, SessionTypes, CInv, LoopTypes
<1>3. SessionTypes'
  BY <1>1, <1>2, ChunksDivide DEF SInv, SessionTypes
<1>4. ShardsCovered'
  BY <1>1, <1>2, LoopNumbers DEF SInv, ShardsCovered
<1>5. CASE i # 0
  <2>1. (Connected => Requests)'
    <3>1. Connected' => Connected /\ wire'[0] = wire[0] /\ pc'[0] = pc[0]
      BY <1>1, <1>2, <1>5, LoopNumbers DEF Connected
    <3> QED BY <1>1, <1>5, <3>1, RequestsKept DEF SInv
  <2> QED BY <1>3, <1>4, <2>1 DEF SInv
<1>6. CASE i = 0
  <2> DEFINE q == Chunks("subscribe", want)
  <2>1. /\ \A n \in 1..Len(q) :
             /\ q[n].op = "subscribe" /\ q[n].syms \subseteq want
             /\ \A m \in 1..Len(q) : m # n => q[n].syms \cap q[m].syms = {}
        /\ \A s \in want : \E n \in 1..Len(q) : s \in q[n].syms
    BY <1>2, ChunksDivide
  <2>2. outbox' = q /\ refused' = {} /\ wire'[0] = {} /\ pc'[0] = "send"
    BY <1>1, <1>2, <1>6
  <2> HIDE DEF q
  <2>3. Requests'
    BY <1>1, <2>1, <2>2 DEF Requests, Subscribes
  <2> QED BY <1>3, <1>4, <2>3 DEF SInv
<1> QED BY <1>5, <1>6

\* A request sent, or refused by the exchange.
LEMMA SendSession ==
  ASSUME SInv, CInv', Send \/ SendRefused
  PROVE  SInv'
<1> DEFINE request == Head(outbox)
<1>1. /\ pc[0] = "send" /\ outbox # <<>> /\ outbox' = Tail(outbox)
      /\ UNCHANGED <<pc, conn, part, want, listed>>
      /\ \/ /\ wire' = [wire EXCEPT ![0] = IF conn[0] = "dead" THEN wire[0]
                                           ELSE IF request.op = "subscribe" THEN wire[0] \cup request.syms
                                           ELSE wire[0] \ request.syms]
            /\ UNCHANGED refused
         \/ /\ request.op = "subscribe" /\ refused' = refused \cup request.syms
            /\ UNCHANGED wire
  BY DEF Send, SendRefused, envVars, loopVars
<1>2. DOMAIN wire = Loops /\ outbox \in Seq(Request)
  BY DEF SInv, SessionTypes, CInv, LoopTypes
<1>3. request \in Request /\ request = outbox[1] /\ Tail(outbox) \in Seq(Request)
      /\ Len(outbox) \in Nat /\ Len(outbox) > 0 /\ Len(outbox') = Len(outbox) - 1
      /\ \A n \in 1..Len(outbox') : n + 1 \in 1..Len(outbox) /\ outbox'[n] = outbox[n + 1]
      /\ 1 \in 1..Len(outbox)
  BY <1>1, <1>2
<1>4. SessionTypes'
  BY <1>1, <1>3 DEF SInv, SessionTypes, Request
<1>5. ShardsCovered'
  BY <1>1, <1>2, LoopNumbers DEF SInv, ShardsCovered
<1>6. ASSUME conn[0] = "up" PROVE Requests'
  <2>1. Requests
    BY <1>1, <1>6 DEF SInv, Connected
  <2> HIDE DEF request
  <2>2. \/ /\ request.op = "subscribe" /\ wire'[0] = wire[0] \cup request.syms /\ UNCHANGED refused
        \/ /\ request.op # "subscribe" /\ wire'[0] = wire[0] \ request.syms /\ UNCHANGED refused
        \/ /\ request.op = "subscribe" /\ wire'[0] = wire[0] /\ refused' = refused \cup request.syms
    BY <1>1, <1>2, <1>6, LoopNumbers
  <2>3. /\ request.op = "subscribe" => request.syms \subseteq want \ (refused \cup wire[0])
        /\ request.op # "subscribe" => request.syms \cap want = {}
        /\ \A n \in 1..Len(outbox') :
             request.op = "subscribe" /\ outbox'[n].op = "subscribe" =>
               request.syms \cap outbox'[n].syms = {}
    <3>1. \A n \in 1..Len(outbox') : n + 1 # 1
      OBVIOUS
    <3> QED BY <1>3, <2>1, <3>1 DEF Requests, Subscribes
  <2>4. \A n \in 1..Len(outbox') :
          /\ outbox'[n].op = "subscribe" => outbox'[n].syms \subseteq want \ (refused \cup wire[0])
          /\ outbox'[n].op # "subscribe" => outbox'[n].syms \cap want = {}
          /\ \A m \in 1..Len(outbox') :
               outbox'[n].op = "subscribe" /\ outbox'[m].op = "subscribe" /\ n # m =>
                 outbox'[n].syms \cap outbox'[m].syms = {}
    <3> SUFFICES ASSUME NEW n \in 1..Len(outbox')
                 PROVE  /\ outbox'[n].op = "subscribe" => outbox'[n].syms \subseteq want \ (refused \cup wire[0])
                        /\ outbox'[n].op # "subscribe" => outbox'[n].syms \cap want = {}
                        /\ \A m \in 1..Len(outbox') :
                             outbox'[n].op = "subscribe" /\ outbox'[m].op = "subscribe" /\ n # m =>
                               outbox'[n].syms \cap outbox'[m].syms = {}
      OBVIOUS
    <3>1. n + 1 \in 1..Len(outbox) /\ outbox'[n] = outbox[n + 1]
      BY <1>3
    <3>2. /\ outbox'[n].op = "subscribe" => outbox'[n].syms \subseteq want \ (refused \cup wire[0])
          /\ outbox'[n].op # "subscribe" => outbox'[n].syms \cap want = {}
      BY <2>1, <3>1 DEF Requests, Subscribes
    <3>3. ASSUME NEW m \in 1..Len(outbox'), n # m,
                 outbox'[n].op = "subscribe", outbox'[m].op = "subscribe"
          PROVE  outbox'[n].syms \cap outbox'[m].syms = {}
      <4>1. m + 1 \in 1..Len(outbox) /\ outbox'[m] = outbox[m + 1] /\ n + 1 # m + 1
        BY <1>3, <3>3
      <4> QED BY <2>1, <3>1, <3>3, <4>1 DEF Requests, Subscribes
    <3> QED BY <3>2, <3>3
  <2>5. ASSUME NEW n \in 1..Len(outbox), n # 1
        PROVE  \E m \in 1..Len(outbox') : outbox'[m] = outbox[n]
    <3>1. n - 1 \in 1..Len(outbox') /\ (n - 1) + 1 = n
      BY <1>3, <2>5
    <3> QED BY <1>3, <3>1
  <2>6. ASSUME NEW s \in want \ (refused \cup wire[0]), s \notin request.syms
        PROVE  \E n \in 1..Len(outbox') : outbox'[n].op = "subscribe" /\ s \in outbox'[n].syms
    <3>1. PICK n \in 1..Len(outbox) : outbox[n].op = "subscribe" /\ s \in outbox[n].syms
      BY <2>1 DEF Requests, Subscribes
    <3> QED BY <1>3, <2>5, <2>6, <3>1
  <2>7. ASSUME NEW s \in wire[0] \ want, s \notin request.syms
        PROVE  \E n \in 1..Len(outbox') : outbox'[n].op # "subscribe" /\ s \in outbox'[n].syms
    <3>1. PICK n \in 1..Len(outbox) : outbox[n].op # "subscribe" /\ s \in outbox[n].syms
      BY <2>1 DEF Requests, Subscribes
    <3> QED BY <1>3, <2>5, <2>7, <3>1
  <2>8. refused' \subseteq want \ wire'[0]
    BY <2>1, <2>2, <2>3 DEF Requests
  <2>9. \A n \in 1..Len(outbox') :
          outbox'[n].op = "subscribe" => outbox'[n].syms \subseteq want \ (refused' \cup wire'[0])
    BY <2>2, <2>3, <2>4
  <2>10. ASSUME NEW s \in want \ (refused' \cup wire'[0])
         PROVE  \E n \in 1..Len(outbox') : outbox'[n].op = "subscribe" /\ s \in outbox'[n].syms
    BY <2>2, <2>3, <2>6
  <2>11. ASSUME NEW s \in wire'[0] \ want
         PROVE  \E n \in 1..Len(outbox') : outbox'[n].op # "subscribe" /\ s \in outbox'[n].syms
    BY <2>2, <2>3, <2>7
  <2> QED BY <1>1, <2>4, <2>8, <2>9, <2>10, <2>11 DEF Requests, Subscribes
<1> QED BY <1>1, <1>4, <1>5, <1>6 DEF SInv, Connected

\* syncSubscriptions on a live connection: what left the list, then what joined it.
LEMMA ResubscribeSession ==
  ASSUME SInv, CInv', Resubscribe
  PROVE  SInv'
<1>1. CASE listed = {}
  <2>1. /\ Hangup(0) /\ pc' = [pc EXCEPT ![0] = "wait"]
        /\ UNCHANGED <<part, want, listed, refused, outbox>>
    BY <1>1 DEF Resubscribe, EndsWithError, envVars
  <2> QED BY <2>1, HangupSession, LoopNumbers
<1>2. CASE listed # {}
  <2> DEFINE leave == Chunks("unsubscribe", want \ listed)
             join == Chunks("subscribe", listed \ want)
  <2>1. /\ pc[0] = "read" /\ conn[0] = "up" /\ want' = listed /\ refused' = refused \cap listed
        /\ outbox' = leave \o join /\ pc' = [pc EXCEPT ![0] = "send"]
        /\ UNCHANGED <<conn, wire, part, listed>>
    BY <1>2 DEF Resubscribe, SyncSubscriptions, envVars
  <2>2. /\ DOMAIN pc = Loops /\ listed \in SUBSET Symbol /\ want \in SUBSET Symbol
        /\ want \ listed \in SUBSET Symbol /\ listed \ want \in SUBSET Symbol
    BY DEF SInv, SessionTypes, CInv, LoopTypes
  <2>3. /\ leave \in Seq(Request)
        /\ \A n \in 1..Len(leave) : leave[n].op = "unsubscribe" /\ leave[n].syms \subseteq want \ listed
        /\ \A s \in want \ listed : \E n \in 1..Len(leave) : s \in leave[n].syms
    BY <2>2, ChunksDivide
  <2>4. /\ join \in Seq(Request)
        /\ \A n \in 1..Len(join) : /\ join[n].op = "subscribe" /\ join[n].syms \subseteq listed \ want
                                   /\ \A m \in 1..Len(join) : m # n => join[n].syms \cap join[m].syms = {}
        /\ \A s \in listed \ want : \E n \in 1..Len(join) : s \in join[n].syms
    BY <2>2, ChunksDivide
  <2>5. wire[0] = want \ refused /\ refused \subseteq want
    <3>1. Requests /\ outbox = <<>>
      BY <2>1 DEF SInv, Connected, Requests
    <3>2. 1..Len(outbox) = {}
      BY <3>1
    <3> QED BY <3>1, <3>2 DEF Requests
  <2> HIDE DEF leave, join
  <2> DEFINE a == Len(leave)
             b == Len(join)
  <2>6. /\ a \in Nat /\ b \in Nat /\ Len(outbox') = a + b /\ outbox' \in Seq(Request)
        /\ \A n \in 1..a : outbox'[n] = leave[n]
        /\ \A n \in 1..b : outbox'[a + n] = join[n]
    BY <2>1, <2>3, <2>4
  <2> HIDE DEF a, b
  <2>7. ASSUME NEW n \in 1..Len(outbox')
        PROVE  \/ n \in 1..a /\ outbox'[n] = leave[n] /\ outbox'[n].op = "unsubscribe"
               \/ /\ n - a \in 1..b /\ outbox'[n] = join[n - a] /\ outbox'[n].op = "subscribe"
                  /\ n = a + (n - a)
    <3>1. CASE n <= a
      BY <2>3, <2>6, <3>1 DEF a
    <3>2. CASE n > a
      <4>1. n - a \in 1..b /\ n = a + (n - a)
        BY <2>6, <3>2
      <4> QED BY <2>4, <2>6, <4>1 DEF b
    <3> QED BY <2>6, <3>1, <3>2
  <2>8. SessionTypes'
    BY <2>1, <2>2, <2>6 DEF SInv, SessionTypes
  <2>9. ShardsCovered'
    BY <2>1, <2>2, LoopNumbers DEF SInv, ShardsCovered
  <2>10. Requests'
    <3>1. ASSUME NEW n \in 1..Len(outbox'), outbox'[n].op = "subscribe"
          PROVE  outbox'[n].syms \subseteq want' \ (refused' \cup wire'[0])
      BY <2>1, <2>4, <2>5, <2>7, <3>1 DEF b
    <3>2. ASSUME NEW n \in 1..Len(outbox'), outbox'[n].op # "subscribe"
          PROVE  outbox'[n].syms \cap want' = {}
      BY <2>1, <2>3, <2>7, <3>2 DEF a
    <3>3. ASSUME NEW n \in 1..Len(outbox'), NEW m \in 1..Len(outbox'), n # m,
                 outbox'[n].op = "subscribe", outbox'[m].op = "subscribe"
          PROVE  outbox'[n].syms \cap outbox'[m].syms = {}
      <4>1. n - a \in 1..b /\ m - a \in 1..b /\ outbox'[n] = join[n - a] /\ outbox'[m] = join[m - a]
        BY <2>7, <3>3
      <4>2. n - a # m - a
        BY <2>6, <3>3
      <4> QED BY <2>4, <4>1, <4>2 DEF b
    <3>4. refused' \subseteq want' \ wire'[0]
      BY <2>1, <2>5
    <3>5. ASSUME NEW s \in want' \ (refused' \cup wire'[0])
          PROVE  \E n \in 1..Len(outbox') : outbox'[n].op = "subscribe" /\ s \in outbox'[n].syms
      <4>1. s \in listed \ want
        BY <2>1, <2>5
      <4>2. PICK n \in 1..b : s \in join[n].syms
        BY <2>4, <4>1 DEF b
      <4>3. a + n \in 1..Len(outbox') /\ outbox'[a + n] = join[n] /\ join[n].op = "subscribe"
        BY <2>4, <2>6 DEF b
      <4> QED BY <4>2, <4>3
    <3>6. ASSUME NEW s \in wire'[0] \ want'
          PROVE  \E n \in 1..Len(outbox') : outbox'[n].op # "subscribe" /\ s \in outbox'[n].syms
      <4>1. s \in want \ listed
        BY <2>1, <2>5
      <4>2. PICK n \in 1..a : s \in leave[n].syms
        BY <2>3, <4>1 DEF a
      <4>3. n \in 1..Len(outbox') /\ outbox'[n] = leave[n] /\ leave[n].op = "unsubscribe"
        BY <2>3, <2>6 DEF a
      <4> QED BY <4>2, <4>3
    <3>7. pc'[0] # "read"
      BY <2>1, <2>2, LoopNumbers
    <3> QED BY <3>1, <3>2, <3>3, <3>4, <3>5, <3>6, <3>7 DEF Requests, Subscribes
  <2> QED BY <2>8, <2>9, <2>10 DEF SInv
<1> QED BY <1>1, <1>2

\* The steps of runExchange and of the dynamic connection.
LEMMA MainSession ==
  ASSUME SInv, CInv', Main \/ RefreshFails \/ SendRefused \/ ResubscribeFails \/ Quiet
  PROVE  SInv'
<1> USE DEF envVars, sessionVars, loopVars
<1>0. DOMAIN pc = Loops /\ DOMAIN conn = Loops /\ listed \subseteq Symbol
  BY DEF SInv, SessionTypes, CInv, LoopTypes
<1>1. CASE Refresh
  BY <1>1, RefreshSession
<1>2. CASE RefreshFails \/ ResubscribeFails \/ Quiet \/ SendFails \/ MainStops
  <2>1. /\ Hangup(0) /\ UNCHANGED <<part, want, listed, refused>>
        /\ outbox' = outbox \/ outbox' = <<>>
    BY <1>2 DEF RefreshFails, ResubscribeFails, Quiet, SendFails, MainStops, EndsWithError, Ends
  <2>2. \E label \in {"wait", "done"} : pc' = [pc EXCEPT ![0] = label]
    BY <1>2 DEF RefreshFails, ResubscribeFails, Quiet, SendFails, MainStops, EndsWithError, Ends
  <2> QED BY <2>1, <2>2, HangupSession, LoopNumbers
<1>3. CASE Send \/ SendRefused
  BY <1>3, SendSession
<1>4. CASE SendDone
  <2>1. /\ pc[0] = "send" /\ outbox = <<>> /\ pc' = [pc EXCEPT ![0] = "read"]
        /\ UNCHANGED <<conn, wire, part, want, refused, outbox, listed>>
    BY <1>4 DEF SendDone
  <2>2. SessionTypes'
    BY <2>1 DEF SInv, SessionTypes
  <2>3. ShardsCovered'
    BY <1>0, <2>1, LoopNumbers DEF SInv, ShardsCovered
  <2>4. (Connected => Requests)'
    <3> SUFFICES ASSUME Connected' PROVE Requests'
      OBVIOUS
    <3>1. Requests
      BY <2>1 DEF SInv, Connected
    <3> QED BY <2>1, <3>1 DEF Requests, Subscribes
  <2> QED BY <2>2, <2>3, <2>4 DEF SInv
<1>5. CASE Resubscribe
  BY <1>5, ResubscribeSession
<1>6. CASE WatchRefresh \/ WatchStops \/ Drained
  <2>1. /\ pc[0] \in {"watch", "drain"}
        /\ \E label \in {"drain", "done", "refresh"} : pc' = [pc EXCEPT ![0] = label]
        /\ UNCHANGED <<conn, wire, part, want, refused, outbox, listed>>
    BY <1>6 DEF WatchRefresh, WatchStops, Drained
  <2>2. /\ pc'[0] \in {"drain", "done", "refresh"}
        /\ \A i \in Shards : pc'[i] = pc[i]
    BY <1>0, <2>1, LoopNumbers
  <2> QED BY <1>0, <2>1, <2>2, QuietSession DEF Connected
<1> QED BY <1>1, <1>2, <1>3, <1>4, <1>5, <1>6 DEF Main

\* The steps every loop takes, and the shards'.
LEMMA LoopSession ==
  ASSUME SInv, CInv', NEW i \in Loops,
         \/ Loop(i) \/ DialFails(i) \/ Receive(i) \/ IngestFails(i)
         \/ HeartbeatCloses(i) \/ Drop(i) \/ Ages(i)
         \/ ShardStops(i) \/ ShardStopsReading(i)
  PROVE  SInv'
<1> USE DEF envVars, sessionVars
<1>0. DOMAIN pc = Loops /\ DOMAIN conn = Loops /\ DOMAIN wire = Loops /\ listed \subseteq Symbol
  BY DEF SInv, SessionTypes, CInv, LoopTypes
<1>1. CASE Dial(i)
  BY <1>1, DialSession
<1>2. CASE WaitOver(i)
  <2>1. /\ pc[i] = "wait" /\ pc' = [pc EXCEPT ![i] = IF i = 0 THEN "refresh" ELSE "dial"]
        /\ UNCHANGED <<conn, wire, part, want, refused, outbox, listed>>
    BY <1>2 DEF WaitOver
  <2>2. \A j \in Shards : conn[j] = "up" => pc[j] = "read"
    BY DEF SInv, ShardsCovered
  <2>3. /\ \A j \in Shards : conn[j] = "up" => pc'[j] = pc[j]
        /\ pc'[0] \in {pc[0], "refresh"}
    BY <1>0, <2>1, <2>2, LoopNumbers
  <2> QED BY <1>0, <2>1, <2>3, QuietSession DEF Connected
<1>3. CASE DialFails(i) \/ IngestFails(i) \/ ReadFails(i) \/ ShardStops(i) \/ ShardStopsReading(i)
  <2>1. Hangup(i) /\ UNCHANGED <<part, want, listed, refused, outbox>>
    BY <1>3 DEF DialFails, IngestFails, ReadFails, ShardStops, ShardStopsReading,
                EndsWithError, Ends
  <2>2. \E label \in {"wait", "done"} : pc' = [pc EXCEPT ![i] = label]
    BY <1>3 DEF DialFails, IngestFails, ReadFails, ShardStops, ShardStopsReading,
                EndsWithError, Ends
  <2> QED BY <2>1, <2>2, HangupSession
<1>4. CASE Receive(i) \/ Ages(i)
  <2>1. UNCHANGED <<pc, conn, wire, part, want, refused, outbox, listed>>
    BY <1>4 DEF Receive, Ages
  <2> QED BY <1>0, <2>1, QuietSession DEF Connected
<1>5. CASE HeartbeatCloses(i) \/ Drop(i)
  <2>1. /\ UNCHANGED <<pc, part, want, refused, outbox, listed>>
        /\ wire' = [wire EXCEPT ![i] = {}]
        /\ \E c \in {"dead", "closed"} : conn' = [conn EXCEPT ![i] = c]
    BY <1>5 DEF HeartbeatCloses, Drop
  <2>2. /\ DOMAIN conn' = Loops
        /\ \A j \in Loops : conn'[j] = "up" => conn[j] = "up" /\ wire'[j] = wire[j]
    BY <1>0, <2>1
  <2> QED BY <1>0, <2>1, <2>2, QuietSession, LoopNumbers DEF Connected
<1> QED BY <1>1, <1>2, <1>3, <1>4, <1>5 DEF Loop

\* Every step of the collector and of its environment keeps the session covered.
LEMMA SessionStep ==
  ASSUME SInv, [Next]_vars
  PROVE  SInv'
<1>0. CInv'
  BY StreamsStep DEF SInv
<1>1. CASE Main \/ RefreshFails \/ SendRefused \/ ResubscribeFails \/ Quiet
  BY <1>0, <1>1, MainSession
<1>2. ASSUME NEW i \in Loops, \/ Loop(i) \/ DialFails(i) \/ Receive(i) \/ IngestFails(i)
                              \/ HeartbeatCloses(i) \/ Drop(i) \/ Ages(i)
      PROVE  SInv'
  BY <1>0, <1>2, LoopSession
<1>3. ASSUME NEW i \in Shards, ShardStops(i) \/ ShardStopsReading(i) PROVE SInv'
  BY <1>0, <1>3, LoopSession, LoopNumbers
<1>4. CASE (\E s \in Volatile : ListChanges(s)) \/ Stop \/ Terminated \/ UNCHANGED vars
  <2>1. UNCHANGED <<part, pc, wire, conn, want, refused, outbox>>
    BY <1>4 DEF ListChanges, Stop, Terminated, vars, loopVars, sessionVars, envVars
  <2>2. listed \subseteq Symbol /\ DOMAIN conn = Loops
    BY DEF SInv, SessionTypes
  <2>3. listed' \subseteq Symbol
    BY <1>4, <2>2, CollectorAssumption
       DEF ListChanges, Stop, Terminated, vars, loopVars, sessionVars, envVars
  <2> QED BY <1>0, <2>1, <2>2, <2>3, QuietSession DEF Connected
<1> QED BY <1>1, <1>2, <1>3, <1>4 DEF Next

\* The invariant says what each connection streams.
LEMMA SessionStreams ==
  ASSUME SInv
  PROVE  SessionCovers
<1>1. ASSUME pc[0] = "read", conn[0] = "up" PROVE wire[0] = want \ refused
  <2>1. Requests /\ outbox = <<>>
    BY <1>1 DEF SInv, Connected, Requests
  <2>2. 1..Len(outbox) = {}
    BY <2>1
  <2> QED BY <2>1, <2>2 DEF Requests
<1> QED BY <1>1 DEF SInv, ShardsCovered, SessionCovers

\* shardSymbols, chunkSymbols and syncSubscriptions: the shards of a session cover its
\* list, in shards that fit a subscription, and a live connection whose requests were sent
\* streams exactly what its loop stands for, less what the exchange refused.
THEOREM SessionsAlwaysCover == Spec => []SessionCovers
<1>1. Init => SInv
  BY SessionInit
<1>2. SInv /\ [Next]_vars => SInv'
  BY SessionStep
<1>3. SInv => SessionCovers
  BY SessionStreams
<1> QED BY <1>1, <1>2, <1>3, PTL DEF Spec

-----------------------------------------------------------------------------
(***************************************************************************)
(* The delay before a reconnect.  A connection counts as stable only when  *)
(* it reached the age that resets the delay.                               *)
(***************************************************************************)
Ripe ==
  /\ DOMAIN age = Loops /\ DOMAIN stable = Loops
  /\ \A i \in Loops : age[i] \in Nat /\ (stable[i] => age[i] >= ResetAfter)
  /\ delay \in [Loops -> 1..MaxDelay]

\* What BackoffKept says of one step.
DelayStep == \A i \in Loops : delay'[i] < delay[i] =>
               age[i] >= ResetAfter \/ pc[0] = IF i = 0 THEN "drain" ELSE "refresh"

\* min(2 * delay, max) is a delay, and not a smaller one.
LEMMA Doubled ==
  ASSUME NEW d \in 1..MaxDelay
  PROVE  Min({2 * d, MaxDelay}) \in 1..MaxDelay /\ Min({2 * d, MaxDelay}) >= d
<1>0. MaxDelay \in Nat
  BY CollectorAssumption
<1>1. \E x \in {2 * d, MaxDelay} : \A y \in {2 * d, MaxDelay} : x <= y
  BY <1>0
<1>2. Min({2 * d, MaxDelay}) \in {2 * d, MaxDelay}
      /\ \A y \in {2 * d, MaxDelay} : Min({2 * d, MaxDelay}) <= y
  BY <1>1 DEF Min
<1> QED BY <1>0, <1>2

LEMMA RipeInit ==
  ASSUME Init
  PROVE  Ripe
<1>1. 0 \in Nat /\ 1 \in 1..MaxDelay
  BY CollectorAssumption
<1> QED BY <1>1 DEF Init, Ripe

\* The end of a connection of loop i.
LEMMA HangupRipe ==
  ASSUME Ripe, NEW i \in Loops, Hangup(i),
         \/ UNCHANGED delay
         \/ delay' = [delay EXCEPT ![i] = 1] /\ age[i] >= ResetAfter
  PROVE  Ripe' /\ DelayStep
<1>1. age' = [age EXCEPT ![i] = 0] /\ stable' = [stable EXCEPT ![i] = FALSE]
  BY DEF Hangup
<1>2. DOMAIN age' = Loops /\ DOMAIN stable' = Loops
  BY <1>1 DEF Ripe
<1>3. \A j \in Loops : age'[j] \in Nat /\ (stable'[j] => age'[j] >= ResetAfter)
  BY <1>1 DEF Ripe
<1>4. delay' \in [Loops -> 1..MaxDelay]
  <2>1. 1 \in 1..MaxDelay
    BY CollectorAssumption
  <2> QED BY <2>1 DEF Ripe
<1>5. DelayStep
  <2>1. \A j \in Loops : ~(delay[j] < delay[j])
    BY CollectorAssumption DEF Ripe
  <2> QED BY <2>1 DEF Ripe, DelayStep
<1> QED BY <1>2, <1>3, <1>4, <1>5 DEF Ripe

\* A session that ended with an error: the base delay follows a stable one.
LEMMA ErrorRipe ==
  ASSUME Ripe, NEW i \in Loops, NEW wasStable, EndsWithError(i, wasStable),
         wasStable => age[i] >= ResetAfter
  PROVE  Ripe' /\ DelayStep
<1>1. Hangup(i) /\ delay' = [delay EXCEPT ![i] = IF wasStable THEN 1 ELSE delay[i]]
  BY DEF EndsWithError
<1>2. CASE wasStable
  BY <1>1, <1>2, HangupRipe
<1>3. CASE ~wasStable
  <2>1. UNCHANGED delay
    BY <1>1, <1>3 DEF Ripe
  <2> QED BY <1>1, <2>1, HangupRipe
<1> QED BY <1>2, <1>3

\* A step that touches neither the delays nor what is counted.
LEMMA SameRipe ==
  ASSUME Ripe, UNCHANGED <<age, stable, delay>>
  PROVE  Ripe' /\ DelayStep
<1>1. \A j \in Loops : ~(delay[j] < delay[j])
  BY CollectorAssumption DEF Ripe
<1> QED BY <1>1 DEF Ripe, DelayStep

LEMMA MainRipe ==
  ASSUME Ripe, Main \/ RefreshFails \/ SendRefused \/ ResubscribeFails \/ Quiet
  PROVE  Ripe' /\ DelayStep
<1> USE DEF loopVars
<1>0. /\ 0 \in Loops /\ 1 \in 1..MaxDelay
      /\ stable[0] => age[0] >= ResetAfter
      /\ \A j \in Loops : delay[j] \in 1..MaxDelay /\ ~(delay[j] < delay[j])
  BY LoopNumbers, CollectorAssumption DEF Ripe
<1>1. CASE Refresh
  <2>1. CASE listed = {}
    BY <1>0, <1>1, <2>1, ErrorRipe DEF Refresh
  <2>2. CASE listed # {}
    <3>1. /\ delay' = [i \in Loops |-> IF i = 0 THEN delay[0] ELSE 1]
          /\ pc[0] = "refresh" /\ UNCHANGED <<age, stable>>
      BY <1>1, <2>2 DEF Refresh
    <3>2. Ripe'
      BY <1>0, <3>1 DEF Ripe
    <3>3. DelayStep
      BY <1>0, <3>1 DEF DelayStep
    <3> QED BY <3>2, <3>3
  <2> QED BY <2>1, <2>2
<1>2. CASE RefreshFails \/ ResubscribeFails \/ Quiet \/ SendFails
  BY <1>0, <1>2, ErrorRipe DEF RefreshFails, ResubscribeFails, Quiet, SendFails
<1>3. CASE MainStops
  BY <1>0, <1>3, HangupRipe DEF MainStops, Ends
<1>4. CASE Send \/ SendRefused \/ SendDone \/ WatchRefresh \/ WatchStops
  <2>1. UNCHANGED <<age, stable, delay>>
    BY <1>4 DEF Send, SendRefused, SendDone, WatchRefresh, WatchStops
  <2> QED BY <2>1, SameRipe
<1>5. CASE Resubscribe
  <2>1. CASE listed = {}
    BY <1>0, <1>5, <2>1, ErrorRipe DEF Resubscribe
  <2>2. CASE listed # {}
    BY <1>5, <2>2, SameRipe DEF Resubscribe
  <2> QED BY <2>1, <2>2
<1>6. CASE Drained
  <2>1. delay' = [delay EXCEPT ![0] = 1] /\ UNCHANGED <<age, stable>> /\ pc[0] = "drain"
    BY <1>6 DEF Drained
  <2>2. Ripe'
    BY <1>0, <2>1 DEF Ripe
  <2>3. DelayStep
    BY <1>0, <2>1 DEF DelayStep, Ripe
  <2> QED BY <2>2, <2>3
<1> QED BY <1>1, <1>2, <1>3, <1>4, <1>5, <1>6 DEF Main

LEMMA LoopRipe ==
  ASSUME Ripe, NEW i \in Loops,
         \/ Loop(i) \/ DialFails(i) \/ Receive(i) \/ IngestFails(i)
         \/ HeartbeatCloses(i) \/ Drop(i) \/ Ages(i)
         \/ ShardStops(i) \/ ShardStopsReading(i)
  PROVE  Ripe' /\ DelayStep
<1>0. /\ stable[i] => age[i] >= ResetAfter
      /\ \A j \in Loops : delay[j] \in 1..MaxDelay /\ ~(delay[j] < delay[j])
  BY CollectorAssumption DEF Ripe
<1>1. CASE WaitOver(i)
  <2> DEFINE next == Min({2 * delay[i], MaxDelay})
  <2>1. delay' = [delay EXCEPT ![i] = next] /\ UNCHANGED <<age, stable>>
    BY <1>1 DEF WaitOver
  <2>2. next \in 1..MaxDelay /\ next >= delay[i]
    BY <1>0, Doubled
  <2> HIDE DEF next
  <2>3. Ripe'
    BY <2>1, <2>2 DEF Ripe
  <2>4. DelayStep
    <3>1. ~(next < delay[i])
      BY <1>0, <2>2, CollectorAssumption
    <3> QED BY <1>0, <2>1, <3>1 DEF DelayStep, Ripe
  <2> QED BY <2>3, <2>4
<1>2. CASE DialFails(i) \/ IngestFails(i)
  BY <1>0, <1>2, ErrorRipe DEF DialFails, IngestFails, RecordActivity
<1>3. CASE ReadFails(i)
  <2>1. CASE Cancelled(i)
    BY <1>3, <2>1, HangupRipe DEF ReadFails, Ends
  <2>2. CASE ~Cancelled(i)
    BY <1>0, <1>3, <2>2, ErrorRipe DEF ReadFails
  <2> QED BY <2>1, <2>2
<1>4. CASE ShardStops(i) \/ ShardStopsReading(i)
  BY <1>4, HangupRipe DEF ShardStops, ShardStopsReading, Ends
<1>5. CASE Dial(i) \/ HeartbeatCloses(i) \/ Drop(i)
  <2>1. UNCHANGED <<age, stable, delay>>
    BY <1>5 DEF Dial, HeartbeatCloses, Drop
  <2> QED BY <2>1, SameRipe
<1>6. CASE Receive(i)
  <2>1. stable' = [stable EXCEPT ![i] = RecordActivity(i)] /\ UNCHANGED <<age, delay>>
    BY <1>6 DEF Receive
  <2>2. RecordActivity(i) => age[i] >= ResetAfter
    BY <1>0 DEF RecordActivity
  <2>3. Ripe'
    BY <2>1, <2>2 DEF Ripe
  <2> QED BY <1>0, <2>1, <2>3 DEF DelayStep
<1>7. CASE Ages(i)
  <2>1. age' = [age EXCEPT ![i] = age[i] + 1] /\ UNCHANGED <<stable, delay>>
    BY <1>7 DEF Ages
  <2>2. age[i] + 1 \in Nat /\ (age[i] >= ResetAfter => age[i] + 1 >= ResetAfter)
    BY CollectorAssumption DEF Ripe
  <2>3. Ripe'
    BY <2>1, <2>2 DEF Ripe
  <2> QED BY <1>0, <2>1, <2>3 DEF DelayStep
<1> QED BY <1>1, <1>2, <1>3, <1>4, <1>5, <1>6, <1>7 DEF Loop

LEMMA RipeStep ==
  ASSUME Ripe, Next
  PROVE  Ripe' /\ DelayStep
<1>1. CASE Main \/ RefreshFails \/ SendRefused \/ ResubscribeFails \/ Quiet
  BY <1>1, MainRipe
<1>2. ASSUME NEW i \in Loops, \/ Loop(i) \/ DialFails(i) \/ Receive(i) \/ IngestFails(i)
                              \/ HeartbeatCloses(i) \/ Drop(i) \/ Ages(i)
      PROVE  Ripe' /\ DelayStep
  BY <1>2, LoopRipe
<1>3. ASSUME NEW i \in Shards, ShardStops(i) \/ ShardStopsReading(i) PROVE Ripe' /\ DelayStep
  BY <1>3, LoopRipe, LoopNumbers
<1>4. CASE (\E s \in Volatile : ListChanges(s)) \/ Stop \/ Terminated
  <2>1. UNCHANGED <<age, stable, delay>>
    BY <1>4 DEF ListChanges, Stop, Terminated, vars, loopVars
  <2> QED BY <2>1, SameRipe
<1> QED BY <1>1, <1>2, <1>3, <1>4 DEF Next

\* runExchange and the shards: "a successful handshake alone must not erase repeated short
\* connection failures".  The delay of a loop falls only at the end of a connection that
\* reached the age of a reset, or when a session ends because the list changed.
THEOREM BackoffNeverErased == Spec => BackoffKept
<1>1. Init => Ripe
  BY RipeInit
<1>2. Ripe /\ [Next]_vars => Ripe' /\ [DelayStep]_vars
  <2> SUFFICES ASSUME Ripe, [Next]_vars PROVE Ripe' /\ [DelayStep]_vars
    OBVIOUS
  <2>1. CASE Next
    BY <2>1, RipeStep
  <2>2. CASE UNCHANGED vars
    BY <2>2, SameRipe DEF vars, loopVars
  <2> QED BY <2>1, <2>2
<1>3. BackoffKept <=> [][DelayStep]_vars
  BY PTL DEF BackoffKept, DelayStep
<1> QED BY <1>1, <1>2, <1>3, PTL DEF Spec

============================================================================
