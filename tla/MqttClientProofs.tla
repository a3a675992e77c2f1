-------------------------- MODULE MqttClientProofs --------------------------
(***************************************************************************)
(* Proofs about MqttClient for every number of topics, queue size, delay   *)
(* policy and number of messages.                                          *)
(***************************************************************************)
EXTENDS MqttClient, TLAPS

USE DEF Topics, NoHash, queueVars, workerVars, netVars

(***************************************************************************)
(* The inductive invariant.                                                *)
(***************************************************************************)

\* A queue holds accepted messages in the order of their acceptance.
Ordered(q, n) ==
  /\ \A i \in 1..Len(q) : q[i] \in 1..n
  /\ \A i, j \in 1..Len(q) : i < j => q[i] < q[j]

QueueInv == \A t \in Topics : Ordered(queue[t], accepted[t])

\* The front that run() is about to pop because libmosquitto took it.
Taken(t, i) ==
  /\ published
  /\ topic = t
  /\ i = 1
  /\ queue[t][1] = payload

\* Everything queued is newer than what libmosquitto took last.
FreshInv ==
  \A t \in Topics :
    /\ handed[t] <= accepted[t]
    /\ \A i \in 1..Len(queue[t]) : queue[t][i] > handed[t] \/ Taken(t, i)

\* While run() is without mutex_, the message it copied is still the front,
\* or the queue overflowed and is full of newer messages.
WindowInv ==
  /\ workerPc \in {"publish", "relock"} =>
       /\ topic \in Topics
       /\ Len(queue[topic]) >= 1
       /\ payload \in 1..accepted[topic]
       /\ \/ queue[topic][1] = payload
          \/ Len(queue[topic]) = QueueSize /\ queue[topic][1] > payload
  /\ workerPc = "publish" => payload > handed[topic]
  /\ published => workerPc = "relock" /\ handed[topic] = payload

\* The newest message is at the back of its queue, or taken.
NewestInv ==
  QueueSize > 1 =>
    \A t \in Topics :
      \/ handed[t] = accepted[t]
      \/ Len(queue[t]) >= 1 /\ queue[t][Len(queue[t])] = accepted[t]

\* The part of the invariant about the queues and the worker: it does not
\* depend on who holds mutex_, because publish() preserves it at any point
\* of run().
DataInv ==
  /\ QueueType
  /\ WorkerType
  /\ QueueInv
  /\ FreshInv
  /\ WindowInv
  /\ NewestInv

\* Without exponential backoff the delay never leaves its minimum.
NetInv ==
  /\ NetType
  /\ ~Exponential => backoff = MinDelay

-----------------------------------------------------------------------------

\* What publish()'s drop-oldest and push do to a queue within its bound: the
\* message is last, and the others keep their order, shifted by one when the
\* queue was full.
LEMMA PushedFacts ==
  ASSUME NEW q \in Seq(Nat), NEW m \in Nat, Len(q) <= QueueSize
  PROVE  /\ Pushed(q, m) \in Seq(Nat)
         /\ Len(Pushed(q, m)) \in 1..QueueSize
         /\ Pushed(q, m)[Len(Pushed(q, m))] = m
         /\ Len(q) < QueueSize =>
              /\ Len(Pushed(q, m)) = Len(q) + 1
              /\ \A i \in 1..Len(q) : Pushed(q, m)[i] = q[i]
         /\ Len(q) = QueueSize =>
              /\ Len(Pushed(q, m)) = QueueSize
              /\ \A i \in 1..(Len(q) - 1) : Pushed(q, m)[i] = q[i + 1]
  <1>1. QueueSize \in Nat \ {0}
    BY ConfigAssumption
  <1>2. CASE Len(q) < QueueSize
    <2>1. Pushed(q, m) = Append(q, m)
      BY <1>1, <1>2 DEF Pushed
    <2>2. QED
      BY <1>1, <1>2, <2>1
  <1>3. CASE Len(q) = QueueSize
    <2>1. Pushed(q, m) = Append(Tail(q), m)
      BY <1>1, <1>3 DEF Pushed
    <2>2. q # <<>> /\ Tail(q) \in Seq(Nat) /\ Len(Tail(q)) = Len(q) - 1
      BY <1>1, <1>3
    <2>3. \A i \in 1..(Len(q) - 1) : Tail(q)[i] = q[i + 1]
      BY <2>2
    <2>4. QED
      BY <1>1, <1>3, <2>1, <2>2, <2>3
  <1>4. QED
    BY <1>1, <1>2, <1>3

\* Pushing the next message keeps the order; a front that changed is newer.
LEMMA PushedOrdered ==
  ASSUME NEW q \in Seq(Nat), NEW n \in Nat, Len(q) <= QueueSize, Ordered(q, n)
  PROVE  /\ Ordered(Pushed(q, n + 1), n + 1)
         /\ Len(q) >= 1 =>
              \/ Pushed(q, n + 1)[1] = q[1]
              \/ Len(Pushed(q, n + 1)) = QueueSize /\ Pushed(q, n + 1)[1] > q[1]
         /\ \A h \in Nat, k \in {1, 2} :
              h <= n /\ (\A i \in k..Len(q) : q[i] > h)
                => \A i \in k..Len(Pushed(q, n + 1)) : Pushed(q, n + 1)[i] > h
  <1> DEFINE r == Pushed(q, n + 1)
             L == Len(q)
  <1>1. /\ QueueSize \in Nat /\ QueueSize >= 1
        /\ L \in Nat
        /\ L < QueueSize \/ L = QueueSize
    BY ConfigAssumption
  <1>2. n + 1 \in Nat
    OBVIOUS
  <1>3. /\ r \in Seq(Nat)
        /\ Len(r) \in 1..QueueSize
        /\ r[Len(r)] = n + 1
        /\ L < QueueSize => Len(r) = L + 1 /\ \A i \in 1..L : r[i] = q[i]
        /\ L = QueueSize =>
              Len(r) = L /\ \A i \in 1..(L - 1) : r[i] = q[i + 1]
    BY <1>2, PushedFacts
  <1>4. /\ \A i \in 1..L : q[i] \in 1..n
        /\ \A i, j \in 1..L : i < j => q[i] < q[j]
    BY DEF Ordered
  <1> HIDE DEF r, L
  <1>5. CASE L < QueueSize
    <2>1. Len(r) = L + 1 /\ r[L + 1] = n + 1 /\ \A i \in 1..L : r[i] = q[i]
      BY <1>3, <1>5
    <2>2. \A i \in 1..Len(r) : r[i] \in 1..(n + 1)
      BY <1>1, <1>4, <2>1
    <2>3. \A i, j \in 1..Len(r) : i < j => r[i] < r[j]
      BY <1>1, <1>4, <2>1
    <2>4. L >= 1 => r[1] = q[1]
      BY <1>1, <2>1
    <2>5. ASSUME NEW h \in Nat, NEW k \in {1, 2}, h <= n,
                 \A i \in k..L : q[i] > h
          PROVE  \A i \in k..Len(r) : r[i] > h
      BY <1>1, <2>1, <2>5
    <2>6. QED
      BY <2>2, <2>3, <2>4, <2>5 DEF Ordered, r, L
  <1>6. CASE L = QueueSize
    <2>1. /\ Len(r) = L /\ r[L] = n + 1 /\ L >= 1
          /\ \A i \in 1..(L - 1) : r[i] = q[i + 1]
      BY <1>1, <1>3, <1>6
    <2>2. ASSUME NEW i \in 1..(L - 1)
          PROVE  i + 1 \in 1..L /\ r[i] = q[i + 1] /\ r[i] \in 1..n
      <3>1. i + 1 \in 1..L
        BY <1>1
      <3>2. QED
        BY <1>4, <2>1, <3>1
    <2>3. \A i \in 1..Len(r) : i = L \/ i \in 1..(L - 1)
      BY <1>1, <2>1
    <2>4. \A i \in 1..Len(r) : r[i] \in 1..(n + 1)
      BY <2>1, <2>2, <2>3
    <2>5. ASSUME NEW i \in 1..Len(r), NEW j \in 1..Len(r), i < j
          PROVE  r[i] < r[j]
      <3>1. i \in 1..(L - 1)
        BY <1>1, <2>1, <2>5
      <3>2. CASE j = L
        BY <2>1, <2>2, <3>1, <3>2
      <3>3. CASE j \in 1..(L - 1)
        <4>1. i + 1 < j + 1
          BY <1>1, <2>5, <3>1, <3>3
        <4>2. q[i + 1] < q[j + 1]
          BY <1>4, <2>2, <3>1, <3>3, <4>1
        <4>3. QED
          BY <2>2, <3>1, <3>3, <4>2
      <3>4. QED
        BY <2>3, <3>2, <3>3
    <2>6. Len(r) = QueueSize /\ r[1] > q[1]
      <3>1. CASE L = 1
        BY <1>1, <1>4, <1>6, <2>1, <3>1
      <3>2. CASE L # 1
        BY <1>1, <1>4, <1>6, <2>1, <3>2
      <3>3. QED
        BY <3>1, <3>2
    <2>7. ASSUME NEW h \in Nat, NEW k \in {1, 2}, h <= n,
                 \A i \in k..L : q[i] > h,
                 NEW i \in k..Len(r)
          PROVE  r[i] > h
      <3>1. CASE i = L
        BY <2>1, <2>7, <3>1
      <3>2. CASE i # L
        <4>1. i \in 1..(L - 1) /\ i + 1 \in k..L
          BY <1>1, <2>1, <2>7, <3>2
        <4>2. QED
          BY <2>1, <2>7, <4>1
      <3>3. QED
        BY <3>1, <3>2
    <2>8. QED
      BY <2>4, <2>5, <2>6, <2>7 DEF Ordered, r, L
  <1>7. QED
    BY <1>1, <1>5, <1>6

\* What a pop leaves of a queue that is not empty.
LEMMA TailOrdered ==
  ASSUME NEW q \in Seq(Nat), NEW n \in Nat, Len(q) >= 1, Ordered(q, n)
  PROVE  /\ Tail(q) \in Seq(Nat)
         /\ Len(Tail(q)) = Len(q) - 1
         /\ Ordered(Tail(q), n)
         /\ Len(q) >= 2 => Tail(q)[Len(q) - 1] = q[Len(q)]
         /\ \A h \in Nat : (\A i \in 2..Len(q) : q[i] > h)
              => \A i \in 1..Len(Tail(q)) : Tail(q)[i] > h
  <1> DEFINE r == Tail(q)
             L == Len(q)
  <1>1. /\ r \in Seq(Nat) /\ L \in Nat
        /\ Len(r) = L - 1
        /\ \A i \in 1..(L - 1) : r[i] = q[i + 1]
    OBVIOUS
  <1>2. /\ \A i \in 1..L : q[i] \in 1..n
        /\ \A i, j \in 1..L : i < j => q[i] < q[j]
    BY DEF Ordered
  <1> HIDE DEF r, L
  <1>3. ASSUME NEW i \in 1..Len(r)
        PROVE  i + 1 \in 2..L /\ i + 1 \in 1..L /\ r[i] = q[i + 1]
    BY <1>1
  <1>4. \A i \in 1..Len(r) : r[i] \in 1..n
    BY <1>2, <1>3
  <1>5. ASSUME NEW i \in 1..Len(r), NEW j \in 1..Len(r), i < j
        PROVE  r[i] < r[j]
    <2>1. i + 1 < j + 1
      BY <1>1, <1>5
    <2>2. QED
      BY <1>2, <1>3, <1>5, <2>1
  <1>6. L >= 2 => r[L - 1] = q[L]
    <2>1. ASSUME L >= 2
          PROVE  L - 1 \in 1..(L - 1) /\ (L - 1) + 1 = L
      BY <1>1, <2>1
    <2>2. QED
      BY <1>1, <2>1
  <1>7. ASSUME NEW h \in Nat, \A i \in 2..L : q[i] > h
        PROVE  \A i \in 1..Len(r) : r[i] > h
    BY <1>3, <1>7
  <1>8. QED
    BY <1>1, <1>4, <1>5, <1>6, <1>7 DEF Ordered, r, L

\* The delay networkLoop() computes stays within the configured bounds, and
\* never shrinks in exponential mode.
LEMMA NextBackoffBounds ==
  ASSUME NEW b \in MinDelay..MaxDelay
  PROVE  /\ NextBackoff(b) \in MinDelay..MaxDelay
         /\ Exponential => NextBackoff(b) >= b
         /\ ~Exponential => NextBackoff(b) = MinDelay
  BY ConfigAssumption DEF NextBackoff

LEMMA SizeFacts == NumTopics \in Nat /\ QueueSize \in Nat \ {0}
  BY ConfigAssumption

-----------------------------------------------------------------------------
(* The queues and the worker.                                              *)

dataVars == <<queue, accepted, handed, workerPc, topic, payload, published>>

\* Only an accepted publish and the worker's own steps touch the queues and
\* the worker's state.
LEMMA DataSteps ==
  ASSUME [Next]_vars
  PROVE  \/ \E t \in Topics, p \in Payloads : Enqueue(t, p)
         \/ Worker
         \/ UNCHANGED <<dataVars, lastHash>>
  <1>1. CASE \E t \in Topics, p \in Payloads : Publish(t, p)
    BY <1>1 DEF Publish, vars, dataVars
  <1>2. CASE Network
    BY <1>2 DEF Network, NetTop, NetIterate, OnConnect, OnDisconnect,
                NetReturned, NetPred, NetBlock, NetTimeout, NetRearm, dataVars
  <1>3. CASE Shutdown \/ Destroy
    BY <1>3 DEF Shutdown, Destroy, dataVars
  <1>4. CASE UNCHANGED vars
    BY <1>4 DEF vars, dataVars
  <1>5. QED
    BY <1>1, <1>2, <1>3, <1>4 DEF Next

LEMMA EnqueuePreserves ==
  ASSUME DataInv, NEW t \in Topics, NEW p \in Payloads, Enqueue(t, p)
  PROVE  DataInv'
  <1> DEFINE o == queue[t]
             n == accepted[t]
             h == handed[t]
             q == Pushed(o, n + 1)
  <1>1. /\ queue \in [Topics -> Seq(Nat)] /\ accepted \in [Topics -> Nat]
        /\ handed \in [Topics -> Nat]
        /\ o \in Seq(Nat) /\ Len(o) \in Nat /\ Len(o) <= QueueSize
        /\ n \in Nat /\ h \in Nat
    BY DEF DataInv, QueueType
  <1>2. Ordered(o, n) /\ h <= n
    BY DEF DataInv, QueueInv, FreshInv
  <1>3. /\ queue' = [queue EXCEPT ![t] = q]
        /\ accepted' = [accepted EXCEPT ![t] = n + 1]
        /\ UNCHANGED <<handed, workerPc, topic, payload, published>>
    BY DEF Enqueue
  <1>4. /\ \A u \in Topics \ {t} : queue'[u] = queue[u]
        /\ \A u \in Topics \ {t} : accepted'[u] = accepted[u]
        /\ queue'[t] = q /\ accepted'[t] = n + 1
    BY <1>1, <1>3
  <1>5. \A i \in 1..Len(o) : o[i] > h \/ Taken(t, i)
    BY DEF DataInv, FreshInv
  <1> HIDE DEF o, n, h
  <1>6. /\ q \in Seq(Nat)
        /\ Len(q) \in 1..QueueSize
        /\ q[Len(q)] = n + 1
    BY <1>1, PushedFacts
  <1>7. /\ Ordered(q, n + 1)
        /\ Len(o) >= 1 =>
              q[1] = o[1] \/ (Len(q) = QueueSize /\ q[1] > o[1])
        /\ \A g \in Nat, k \in {1, 2} :
              g <= n /\ (\A i \in k..Len(o) : o[i] > g)
                => \A i \in k..Len(q) : q[i] > g
    BY <1>1, <1>2, PushedOrdered
  <1> HIDE DEF q
  <1>8. QueueType'
    <2>1. lastHash' \in [Topics -> Nat \union {NoHash}]
      BY ConfigAssumption DEF Enqueue, DataInv, QueueType
    <2>2. /\ queue' \in [Topics -> Seq(Nat)]
          /\ accepted' \in [Topics -> Nat]
          /\ handed' \in [Topics -> Nat]
      BY <1>1, <1>3, <1>6
    <2>3. \A u \in Topics : Len(queue'[u]) <= QueueSize
      <3>1. Len(q) <= QueueSize
        BY <1>6, SizeFacts
      <3>2. \A u \in Topics : Len(queue[u]) <= QueueSize
        BY DEF DataInv, QueueType
      <3>3. QED
        BY <1>4, <3>1, <3>2
    <2>4. QED
      BY <2>1, <2>2, <2>3 DEF QueueType
  <1>9. WorkerType'
    BY <1>3 DEF DataInv, WorkerType
  <1>10. QueueInv'
    BY <1>4, <1>7 DEF DataInv, QueueInv, Ordered
  <1>11. FreshInv'
    <2>1. ASSUME NEW i \in 1..Len(q)
          PROVE  q[i] > h \/ (published /\ topic = t /\ i = 1 /\ q[1] = payload)
      <3>1. CASE Len(o) >= 1 /\ Taken(t, 1)
        <4>1. o[1] = payload /\ payload = h /\ published /\ topic = t
          BY <3>1 DEF Taken, DataInv, WindowInv, o, h
        <4>2. \A j \in 2..Len(o) : o[j] > h
          BY <1>1, <1>5 DEF Taken
        <4>3. \A j \in 2..Len(q) : q[j] > h
          BY <1>1, <1>2, <1>7, <4>2
        <4>4. CASE i = 1
          BY <1>7, <3>1, <4>1, <4>4
        <4>5. CASE i # 1
          <5>1. i \in 2..Len(q)
            BY <1>6, <4>5
          <5>2. QED
            BY <4>3, <5>1
        <4>6. QED
          BY <4>4, <4>5
      <3>2. CASE ~(Len(o) >= 1 /\ Taken(t, 1))
        <4>1. \A j \in 1..Len(o) : o[j] > h
          BY <1>1, <1>5, <3>2 DEF Taken
        <4>2. QED
          BY <1>1, <1>2, <1>7, <4>1
      <3>3. QED
        BY <3>1, <3>2
    <2>2. h <= n + 1
      BY <1>1, <1>2
    <2>3. handed'[t] = h
      BY <1>3 DEF h
    <2>4. handed'[t] <= accepted'[t]
          /\ \A i \in 1..Len(queue'[t]) : queue'[t][i] > handed'[t] \/ Taken(t, i)'
      BY <1>3, <1>4, <2>1, <2>2, <2>3 DEF Taken
    <2>5. ASSUME NEW u \in Topics \ {t}
          PROVE  handed'[u] <= accepted'[u]
                 /\ \A i \in 1..Len(queue'[u]) :
                       queue'[u][i] > handed'[u] \/ Taken(u, i)'
      BY <1>3, <1>4 DEF DataInv, FreshInv, Taken
    <2>6. QED
      BY <2>4, <2>5 DEF FreshInv
  <1>12. WindowInv'
    <2>1. CASE workerPc \in {"publish", "relock"} /\ topic = t
      <3>1. /\ Len(o) >= 1 /\ payload \in 1..n
            /\ o[1] = payload \/ (Len(o) = QueueSize /\ o[1] > payload)
        BY <2>1 DEF DataInv, WindowInv, o, n
      <3>2. o[1] \in Nat /\ q[1] \in Nat
        BY <1>1, <1>6, <3>1
      <3>3. q[1] = payload \/ (Len(q) = QueueSize /\ q[1] > payload)
        <4>1. CASE q[1] = o[1] /\ o[1] = payload
          BY <4>1
        <4>2. CASE q[1] = o[1] /\ Len(o) = QueueSize /\ o[1] > payload
          <5>1. Len(q) = QueueSize
            BY <1>1, <4>2, PushedFacts DEF q
          <5>2. QED
            BY <4>2, <5>1
        <4>3. CASE Len(q) = QueueSize /\ q[1] > o[1]
          BY <3>1, <3>2, <4>3
        <4>4. QED
          BY <1>7, <3>1, <4>1, <4>2, <4>3
      <3>4. payload \in 1..(n + 1) /\ Len(q) >= 1
        BY <1>1, <1>6, <3>1, SizeFacts
      <3>5. QED
        BY <1>3, <1>4, <2>1, <3>3, <3>4 DEF DataInv, WindowInv
    <2>2. CASE ~(workerPc \in {"publish", "relock"} /\ topic = t)
      BY <1>3, <1>4, <2>2 DEF DataInv, WindowInv
    <2>3. QED
      BY <2>1, <2>2
  <1>13. NewestInv'
    BY <1>3, <1>4, <1>6, SizeFacts DEF DataInv, NewestInv
  <1>14. QED
    BY <1>8, <1>9, <1>10, <1>11, <1>12, <1>13 DEF DataInv

\* run() taking the front of a queue: the copy is the front, and newer than
\* what libmosquitto has.
LEMMA WorkerPassPreserves ==
  ASSUME DataInv, WorkerPass
  PROVE  DataInv'
  <1>1. UNCHANGED <<queue, lastHash, accepted, handed, published>>
    BY DEF WorkerPass
  <1>2. QueueType' /\ QueueInv' /\ NewestInv'
    BY <1>1 DEF DataInv, QueueType, QueueInv, Ordered, NewestInv
  <1>3. ~published
    BY DEF WorkerPass, DataInv, WindowInv
  <1>4. FreshInv'
    BY <1>1, <1>3 DEF DataInv, FreshInv, Taken
  <1>5. WorkerType'
    <2>1. CASE topic \in Topics /\ queue[topic] # <<>> /\ payload' = Head(queue[topic])
               /\ workerPc' = "publish" /\ UNCHANGED topic
      <3>1. Head(queue[topic]) \in Nat
        BY <2>1 DEF DataInv, QueueType
      <3>2. QED
        BY <1>1, <2>1, <3>1 DEF DataInv, WorkerType
    <2>2. CASE topic \in Topics /\ topic' = topic + 1 /\ UNCHANGED <<workerPc, payload>>
      BY <1>1, <2>2, SizeFacts DEF DataInv, WorkerType
    <2>3. CASE topic' = 1 /\ workerPc' = "top" /\ UNCHANGED payload
      BY <1>1, <2>3, SizeFacts DEF DataInv, WorkerType
    <2>4. QED
      BY <2>1, <2>2, <2>3 DEF WorkerPass
  <1>6. WindowInv'
    <2>1. CASE /\ topic \in Topics /\ queue[topic] # <<>> /\ payload' = Head(queue[topic])
               /\ workerPc' = "publish" /\ UNCHANGED topic
      <3>1. queue[topic] \in Seq(Nat) /\ Len(queue[topic]) \in Nat
        BY <2>1 DEF DataInv, QueueType
      <3>2. Len(queue[topic]) >= 1 /\ payload' = queue[topic][1]
        BY <2>1, <3>1
      <3>3. queue[topic][1] \in 1..accepted[topic] /\ queue[topic][1] > handed[topic]
        BY <1>3, <2>1, <3>1, <3>2 DEF DataInv, QueueInv, Ordered, FreshInv, Taken
      <3>4. QED
        BY <1>1, <1>3, <2>1, <3>2, <3>3 DEF WindowInv
    <2>2. CASE workerPc' \in {"pass", "top"}
      BY <1>1, <1>3, <2>2 DEF WindowInv
    <2>3. QED
      BY <2>1, <2>2 DEF WorkerPass
  <1>7. QED
    BY <1>2, <1>4, <1>5, <1>6 DEF DataInv

\* mosquitto_publish(): taking the copy makes everything that is still queued
\* newer than what libmosquitto has, except the front if it is the copy.
LEMMA WorkerPublishPreserves ==
  ASSUME DataInv, WorkerPublish
  PROVE  DataInv'
  <1>1. UNCHANGED <<queue, lastHash, accepted, topic, payload>>
        /\ workerPc = "publish" /\ workerPc' = "relock"
    BY DEF WorkerPublish
  <1>2. /\ topic \in Topics /\ Len(queue[topic]) >= 1
        /\ payload \in 1..accepted[topic]
        /\ payload > handed[topic]
        /\ ~published
        /\ \/ queue[topic][1] = payload
           \/ Len(queue[topic]) = QueueSize /\ queue[topic][1] > payload
    BY <1>1 DEF DataInv, WindowInv
  <1>3. QueueInv'
    BY <1>1 DEF DataInv, QueueInv, Ordered
  <1>4. CASE published' = FALSE /\ UNCHANGED handed
    <2>1. QueueType' /\ WorkerType' /\ NewestInv'
      BY <1>1, <1>4 DEF DataInv, QueueType, WorkerType, NewestInv
    <2>2. FreshInv'
      BY <1>1, <1>2, <1>4 DEF DataInv, FreshInv, Taken
    <2>3. WindowInv'
      BY <1>1, <1>2, <1>4 DEF WindowInv
    <2>4. QED
      BY <1>3, <2>1, <2>2, <2>3 DEF DataInv
  <1>5. CASE published' = TRUE /\ handed' = [handed EXCEPT ![topic] = payload]
    <2>1. /\ queue \in [Topics -> Seq(Nat)] /\ accepted \in [Topics -> Nat]
          /\ handed \in [Topics -> Nat] /\ payload \in Nat
      BY DEF DataInv, QueueType, WorkerType
    <2>2. handed'[topic] = payload /\ \A u \in Topics \ {topic} : handed'[u] = handed[u]
      BY <1>2, <1>5, <2>1
    <2>3. QueueType'
      BY <1>1, <1>5, <2>1 DEF DataInv, QueueType
    <2>4. WorkerType'
      BY <1>1, <1>5 DEF DataInv, WorkerType
    <2>5. \A i \in 1..Len(queue[topic]) :
            queue[topic][i] > payload \/ (i = 1 /\ queue[topic][1] = payload)
      <3> DEFINE q == queue[topic]
      <3>1. /\ q \in Seq(Nat) /\ Len(q) \in Nat /\ Len(q) >= 1
            /\ q[1] \in Nat /\ q[1] >= payload
            /\ \A i, j \in 1..Len(q) : i < j => q[i] < q[j]
        BY <1>2, <2>1 DEF DataInv, QueueInv, Ordered
      <3> HIDE DEF q
      <3>2. ASSUME NEW i \in 1..Len(q)
            PROVE  q[i] > payload \/ (i = 1 /\ q[1] = payload)
        <4>1. q[i] \in Nat
          BY <3>1
        <4>2. CASE i = 1
          BY <2>1, <3>1, <4>1, <4>2
        <4>3. CASE i # 1
          BY <2>1, <3>1, <4>1, <4>3
        <4>4. QED
          BY <4>2, <4>3
      <3>3. QED
        BY <3>2 DEF q
    <2>6. FreshInv'
      <3>1. ASSUME NEW u \in Topics \ {topic}
            PROVE  handed'[u] <= accepted'[u]
                   /\ \A i \in 1..Len(queue'[u]) :
                         queue'[u][i] > handed'[u] \/ Taken(u, i)'
        BY <1>1, <1>2, <2>2 DEF DataInv, FreshInv, Taken
      <3>2. payload <= accepted[topic]
        BY <1>2, <2>1
      <3>3. QED
        BY <1>1, <1>2, <1>5, <2>2, <2>5, <3>1, <3>2 DEF FreshInv, Taken
    <2>7. WindowInv'
      BY <1>1, <1>2, <1>5, <2>2 DEF WindowInv
    <2>8. NewestInv'
      <3>1. SUFFICES ASSUME QueueSize > 1, NEW u \in Topics
                     PROVE  \/ handed'[u] = accepted[u]
                            \/ Len(queue[u]) >= 1 /\ queue[u][Len(queue[u])] = accepted[u]
        BY <1>1 DEF NewestInv
      <3>2. CASE u # topic
        BY <2>2, <3>1, <3>2 DEF DataInv, NewestInv
      <3>3. CASE u = topic
        <4>1. handed[topic] # accepted[topic]
          BY <1>2, <2>1
        <4>2. QED
          BY <3>1, <3>3, <4>1 DEF DataInv, NewestInv
      <3>4. QED
        BY <3>2, <3>3
    <2>9. QED
      BY <1>3, <2>3, <2>4, <2>6, <2>7, <2>8 DEF DataInv
  <1>6. QED
    BY <1>4, <1>5 DEF WorkerPublish

\* The pop after a successful publish: it removes the copy, or, when the queue
\* overflowed meanwhile, an untaken message of a full queue - never the newest
\* one if the queue holds two.
LEMMA WorkerRelockPreserves ==
  ASSUME DataInv, WorkerRelock
  PROVE  DataInv'
  <1>1. /\ UNCHANGED <<lastHash, accepted, handed>>
        /\ workerPc = "relock" /\ workerPc' = "pass"
        /\ payload' = 0 /\ published' = FALSE
    BY DEF WorkerRelock
  <1>2. /\ topic \in Topics /\ Len(queue[topic]) >= 1
        /\ payload \in 1..accepted[topic]
        /\ published => handed[topic] = payload
        /\ \/ queue[topic][1] = payload
           \/ Len(queue[topic]) = QueueSize /\ queue[topic][1] > payload
    BY <1>1 DEF DataInv, WindowInv
  <1>3. /\ queue \in [Topics -> Seq(Nat)] /\ accepted \in [Topics -> Nat]
        /\ handed \in [Topics -> Nat] /\ payload \in Nat
    BY DEF DataInv, QueueType, WorkerType
  <1>4. WindowInv'
    BY <1>1 DEF WindowInv
  <1>5. WorkerType'
    <2>1. topic' \in 1..(NumTopics + 1)
      BY <1>2, SizeFacts DEF WorkerRelock
    <2>2. QED
      BY <1>1, <2>1 DEF WorkerType
  <1>6. CASE ~published /\ UNCHANGED queue
    <2>1. QueueType' /\ QueueInv' /\ NewestInv'
      BY <1>1, <1>6 DEF DataInv, QueueType, QueueInv, Ordered, NewestInv
    <2>2. FreshInv'
      BY <1>1, <1>6 DEF DataInv, FreshInv, Taken
    <2>3. QED
      BY <1>4, <1>5, <2>1, <2>2 DEF DataInv
  <1>7. CASE published /\ queue' = [queue EXCEPT ![topic] = Tail(queue[topic])]
    <2> DEFINE o == queue[topic]
               n == accepted[topic]
               h == handed[topic]
               q == Tail(o)
    <2>1. /\ o \in Seq(Nat) /\ Len(o) \in Nat /\ Len(o) >= 1 /\ Len(o) <= QueueSize
          /\ n \in Nat /\ h \in Nat /\ h = payload /\ Ordered(o, n)
          /\ o[1] = h \/ (Len(o) = QueueSize /\ o[1] > h)
      BY <1>2, <1>3, <1>7 DEF DataInv, QueueInv, QueueType
    <2>2. queue'[topic] = q /\ \A u \in Topics \ {topic} : queue'[u] = queue[u]
      BY <1>2, <1>3, <1>7
    <2>3. \A i \in 2..Len(o) : o[i] > h
      BY <1>2, <2>1 DEF DataInv, FreshInv, Taken
    <2>4. QueueSize > 1 => h = n \/ o[Len(o)] = n
      BY <1>2 DEF DataInv, NewestInv
    <2>5. queue' = [queue EXCEPT ![topic] = q]
      BY <1>7
    <2> HIDE DEF o, n, h
    <2>6. /\ q \in Seq(Nat) /\ Len(q) = Len(o) - 1 /\ Ordered(q, n)
          /\ Len(o) >= 2 => q[Len(o) - 1] = o[Len(o)]
          /\ \A i \in 1..Len(q) : q[i] > h
      BY <2>1, <2>3, TailOrdered
    <2> HIDE DEF q
    <2>7. QueueType'
      <3>1. Len(q) <= QueueSize
        BY <2>1, <2>6, SizeFacts
      <3>2. queue' \in [Topics -> Seq(Nat)]
        BY <1>3, <2>5, <2>6
      <3>3. \A u \in Topics : Len(queue'[u]) <= QueueSize
        BY <2>2, <3>1 DEF DataInv, QueueType
      <3>4. QED
        BY <1>1, <3>2, <3>3 DEF DataInv, QueueType
    <2>8. QueueInv'
      <3>1. \A u \in Topics \ {topic} : Ordered(queue'[u], accepted'[u])
        BY <1>1, <2>2 DEF DataInv, QueueInv
      <3>2. Ordered(queue'[topic], accepted'[topic])
        BY <1>1, <2>2, <2>6 DEF n
      <3>3. QED
        BY <3>1, <3>2 DEF QueueInv, Ordered
    <2>9. FreshInv'
      <3>1. ASSUME NEW u \in Topics \ {topic}
            PROVE  handed'[u] <= accepted'[u]
                   /\ \A i \in 1..Len(queue'[u]) : queue'[u][i] > handed'[u]
        BY <1>1, <2>2 DEF DataInv, FreshInv, Taken
      <3>2. handed'[topic] <= accepted'[topic]
            /\ \A i \in 1..Len(queue'[topic]) : queue'[topic][i] > handed'[topic]
        BY <1>1, <1>2, <2>2, <2>6 DEF DataInv, FreshInv, h
      <3>3. QED
        BY <3>1, <3>2 DEF FreshInv
    <2>10. NewestInv'
      <3>1. SUFFICES ASSUME QueueSize > 1, NEW u \in Topics
                     PROVE  \/ handed[u] = accepted[u]
                            \/ Len(queue'[u]) >= 1
                               /\ queue'[u][Len(queue'[u])] = accepted[u]
        BY <1>1 DEF NewestInv
      <3>2. CASE u # topic
        BY <2>2, <3>1, <3>2 DEF DataInv, NewestInv
      <3>3. CASE u = topic
        <4>1. h = n \/ (Len(q) >= 1 /\ q[Len(q)] = n)
          <5>1. CASE Len(o) >= 2
            BY <2>1, <2>4, <2>6, <3>1, <5>1
          <5>2. CASE Len(o) < 2
            <6>a. Len(o) \in Nat /\ Len(o) >= 1
              BY <2>1
            <6>1. Len(o) = 1
              BY <5>2, <6>a
            <6>2. Len(o) # QueueSize
              BY <3>1, <6>1, SizeFacts
            <6>3. QED
              BY <2>1, <2>4, <3>1, <6>1, <6>2
          <5>3. QED
            BY <2>1, <5>1, <5>2
        <4>2. QED
          BY <2>2, <3>3, <4>1 DEF h, n
      <3>4. QED
        BY <3>2, <3>3
    <2>11. QED
      BY <1>4, <1>5, <2>7, <2>8, <2>9, <2>10 DEF DataInv
  <1>8. QED
    BY <1>6, <1>7 DEF WorkerRelock

\* The worker's other steps leave the queues alone, and happen outside the
\* window between the copy and the pop.
LEMMA WorkerOtherPreserves ==
  ASSUME DataInv,
         WorkerTop \/ WorkerPred \/ WorkerBlock \/ WorkerWake \/ WorkerAwake
  PROVE  DataInv'
  <1>1. /\ UNCHANGED <<queue, lastHash, accepted, handed, payload, published>>
        /\ workerPc \notin {"publish", "relock"}
        /\ workerPc' \in {"pred", "done", "awake", "block", "asleep", "pass"}
        /\ topic' \in {topic, 1}
    BY DEF WorkerTop, WorkerPred, WorkerBlock, WorkerWake, WorkerAwake
  <1>2. ~published
    BY <1>1 DEF DataInv, WindowInv
  <1>3. QueueType' /\ QueueInv' /\ NewestInv'
    BY <1>1 DEF DataInv, QueueType, QueueInv, Ordered, NewestInv
  <1>4. FreshInv' /\ WindowInv'
    BY <1>1, <1>2 DEF DataInv, FreshInv, Taken, WindowInv
  <1>5. WorkerType'
    BY <1>1, SizeFacts DEF DataInv, WorkerType
  <1>6. QED
    BY <1>3, <1>4, <1>5 DEF DataInv

LEMMA DataInvariant == Spec => []DataInv
  <1>1. Init => DataInv
    <2> SUFFICES ASSUME Init PROVE DataInv
      OBVIOUS
    <2>1. QueueType
      BY SizeFacts DEF Init, QueueType
    <2>2. WorkerType
      <3>1. 1 \in 1..(NumTopics + 1)
        BY SizeFacts
      <3>2. QED
        BY <3>1 DEF Init, WorkerType
    <2>3. \A t \in Topics : queue[t] = <<>> /\ accepted[t] = 0 /\ handed[t] = 0
      BY DEF Init
    <2>4. QueueInv /\ FreshInv /\ NewestInv
      BY <2>3 DEF QueueInv, Ordered, FreshInv, NewestInv
    <2>5. WindowInv
      BY DEF Init, WindowInv
    <2>6. QED
      BY <2>1, <2>2, <2>4, <2>5 DEF DataInv
  <1>2. DataInv /\ [Next]_vars => DataInv'
    <2> SUFFICES ASSUME DataInv, [Next]_vars PROVE DataInv'
      OBVIOUS
    <2>1. CASE \E t \in Topics, p \in Payloads : Enqueue(t, p)
      BY <2>1, EnqueuePreserves
    <2>2. CASE Worker
      BY <2>2, WorkerOtherPreserves, WorkerPassPreserves,
         WorkerPublishPreserves, WorkerRelockPreserves DEF Worker
    <2>3. CASE UNCHANGED <<dataVars, lastHash>>
      <3>1. QueueType' /\ WorkerType'
        BY <2>3 DEF DataInv, dataVars, QueueType, WorkerType
      <3>2. QueueInv' /\ NewestInv'
        BY <2>3 DEF DataInv, dataVars, QueueInv, Ordered, NewestInv
      <3>3. FreshInv' /\ WindowInv'
        BY <2>3 DEF DataInv, dataVars, FreshInv, Taken, WindowInv
      <3>4. QED
        BY <3>1, <3>2, <3>3 DEF DataInv
    <2>4. QED
      BY <2>1, <2>2, <2>3, DataSteps
  <1>3. QED
    BY <1>1, <1>2, PTL DEF Spec

-----------------------------------------------------------------------------
(* The theorems about the queues.                                          *)

\* The newest message of a topic is never lost, for every queue of two
\* messages and more: publish()'s duplicate suppression may rely on it.
THEOREM NewestIsKept == Spec => []NewestKept
  <1>1. DataInv => NewestKept
    <2> SUFFICES ASSUME DataInv, QueueSize > 1, NEW t \in Topics
                 PROVE  \/ handed[t] = accepted[t]
                        \/ queue[t] # <<>> /\ queue[t][Len(queue[t])] = accepted[t]
      BY DEF NewestKept
    <2>1. queue[t] \in Seq(Nat)
      BY DEF DataInv, QueueType
    <2>2. QED
      BY <2>1 DEF DataInv, NewestInv
  <1>2. QED
    BY <1>1, DataInvariant, PTL

\* run() never pops an empty std::queue, whatever producers do while it is
\* without mutex_.
THEOREM PopIsSafe == Spec => []PopFindsMessage
  <1>1. DataInv => PopFindsMessage
    <2> SUFFICES ASSUME DataInv, workerPc \in {"publish", "relock"}
                 PROVE  queue[topic] # <<>>
      BY DEF PopFindsMessage
    <2>1. topic \in Topics /\ Len(queue[topic]) >= 1
      BY DEF DataInv, WindowInv
    <2>2. QED
      BY <2>1
  <1>2. QED
    BY <1>1, DataInvariant, PTL

-----------------------------------------------------------------------------
(* The network thread and the shared flags.                                *)

\* The network thread's own state changes only in its own steps.
LEMMA NetSteps ==
  ASSUME [Next]_vars
  PROVE  Network \/ UNCHANGED <<netPc, rc, backoff>>
  <1>1. CASE \E t \in Topics, p \in Payloads : Publish(t, p)
    BY <1>1 DEF Publish, Enqueue, vars
  <1>2. CASE Worker
    BY <1>2 DEF Worker, WorkerTop, WorkerPred, WorkerBlock, WorkerWake,
                WorkerAwake, WorkerPass, WorkerPublish, WorkerRelock
  <1>3. CASE Shutdown \/ Destroy
    BY <1>3 DEF Shutdown, Destroy
  <1>4. CASE UNCHANGED vars
    BY <1>4 DEF vars
  <1>5. QED
    BY <1>1, <1>2, <1>3, <1>4 DEF Next

\* What each of the network thread's steps does to its delay.
LEMMA BackoffSteps ==
  ASSUME Network
  PROVE  \/ UNCHANGED backoff
         \/ connected /\ backoff' = MinDelay
         \/ backoff' = NextBackoff(backoff)
  BY DEF Network, NetTop, NetIterate, OnConnect, OnDisconnect, NetReturned,
         NetPred, NetBlock, NetTimeout, NetRearm

LEMMA NetInvariant == Spec => []NetInv
  <1>1. Init => NetInv
    <2>1. MinDelay \in MinDelay..MaxDelay
      BY ConfigAssumption
    <2>2. QED
      BY <2>1 DEF Init, NetInv, NetType
  <1>2. NetInv /\ [Next]_vars => NetInv'
    <2> SUFFICES ASSUME NetInv, [Next]_vars PROVE NetInv'
      OBVIOUS
    <2>1. CASE Network
      <3>1. backoff' \in MinDelay..MaxDelay /\ (~Exponential => backoff' = MinDelay)
        <4>1. MinDelay \in MinDelay..MaxDelay
          BY ConfigAssumption
        <4>2. QED
          BY <2>1, <4>1, BackoffSteps, NextBackoffBounds DEF NetInv, NetType
      <3>2. /\ netPc' \in {"loop", "calling", "returned", "lock", "block",
                          "asleep", "rearm", "done"}
            /\ rc' \in {"success", "transient", "fatal"}
        BY <2>1 DEF NetInv, NetType, Network, NetTop, NetIterate, OnConnect,
                    OnDisconnect, NetReturned, NetPred, NetBlock, NetTimeout,
                    NetRearm
      <3>3. QED
        BY <3>1, <3>2 DEF NetInv, NetType
    <2>2. CASE UNCHANGED <<netPc, rc, backoff>>
      BY <2>2 DEF NetInv, NetType
    <2>3. QED
      BY <2>1, <2>2, NetSteps
  <1>3. QED
    BY <1>1, <1>2, PTL DEF Spec

\* The reconnect delay grows through failures and is reset only by an
\* established connection, for every delay policy the configuration allows.
THEOREM BackoffFollowsSchedule == Spec => BackoffSchedule
  <1>1. NetInv /\ [Next]_vars
          => [backoff' < backoff => connected /\ backoff' = MinDelay]_vars
    <2> SUFFICES ASSUME NetInv, [Next]_vars, backoff' < backoff
                 PROVE  connected /\ backoff' = MinDelay
      OBVIOUS
    <2>1. backoff \in Int /\ ~(backoff < backoff)
      BY ConfigAssumption DEF NetInv, NetType
    <2>2. CASE UNCHANGED backoff
      BY <2>1, <2>2
    <2>3. CASE backoff' = NextBackoff(backoff)
      <3>1. backoff \in MinDelay..MaxDelay /\ MinDelay \in Nat
        BY ConfigAssumption DEF NetInv, NetType
      <3>2. CASE Exponential
        BY <2>3, <3>1, <3>2, NextBackoffBounds
      <3>3. CASE ~Exponential
        BY <2>3, <3>1, <3>3, NextBackoffBounds DEF NetInv
      <3>4. QED
        BY <3>2, <3>3
    <2>4. QED
      BY <2>2, <2>3, NetSteps, BackoffSteps
  <1>2. QED
    BY <1>1, NetInvariant, PTL DEF Spec, BackoffSchedule

\* Neither thread leaves its loop while the bridge runs.
THEOREM ThreadsStayAlive == Spec => []ThreadsOutliveRun
  <1>1. Init => ThreadsOutliveRun
    BY DEF Init, ThreadsOutliveRun
  <1>2. ThreadsOutliveRun /\ [Next]_vars => ThreadsOutliveRun'
    <2> SUFFICES ASSUME ThreadsOutliveRun, [Next]_vars, running'
                 PROVE  workerPc' # "done" /\ netPc' # "done"
      BY DEF ThreadsOutliveRun
    <2>1. CASE \E t \in Topics, p \in Payloads : Publish(t, p)
      BY <2>1 DEF ThreadsOutliveRun, Publish, Enqueue, vars
    <2>2. CASE Worker
      BY <2>2 DEF ThreadsOutliveRun, Worker, WorkerTop, WorkerPred,
                  WorkerBlock, WorkerWake, WorkerAwake, WorkerPass,
                  WorkerPublish, WorkerRelock
    <2>3. CASE Network
      BY <2>3 DEF ThreadsOutliveRun, Network, NetTop, NetIterate, OnConnect,
                  OnDisconnect, NetReturned, NetPred, NetBlock, NetTimeout,
                  NetRearm
    <2>4. CASE Shutdown \/ Destroy \/ UNCHANGED vars
      BY <2>4 DEF ThreadsOutliveRun, Shutdown, Destroy, vars
    <2>5. QED
      BY <2>1, <2>2, <2>3, <2>4 DEF Next
  <1>3. QED
    BY <1>1, <1>2, PTL DEF Spec

\* Every variable keeps its type: in particular no queue outgrows queueSize
\* and the delay stays within the configured bounds.
THEOREM TypeCorrect == Spec => []TypeOK
  <1>1. Init => SharedType
    BY DEF Init, SharedType
  <1>2. DataInv /\ SharedType /\ [Next]_vars => SharedType'
    <2> SUFFICES ASSUME DataInv, SharedType, [Next]_vars PROVE SharedType'
      OBVIOUS
    <2>1. ASSUME NEW t \in Topics, NEW p \in Payloads, Publish(t, p)
          PROVE  SharedType'
      BY <2>1 DEF SharedType, Publish, Enqueue, NotifyOne, vars
    <2>2. CASE WorkerPublish
      <3>1. topic \in Topics
        BY <2>2 DEF WorkerPublish, DataInv, WindowInv
      <3>2. QED
        BY <2>2, <3>1 DEF SharedType, WorkerPublish
    <2>3. CASE WorkerTop \/ WorkerPred \/ WorkerBlock \/ WorkerWake
               \/ WorkerAwake \/ WorkerPass \/ WorkerRelock
      BY <2>3 DEF SharedType, WorkerTop, WorkerPred, WorkerBlock, WorkerWake,
                  WorkerAwake, WorkerPass, WorkerRelock
    <2>4. CASE NetTop \/ NetIterate \/ NetReturned \/ NetPred \/ NetBlock
               \/ NetTimeout \/ NetRearm
      BY <2>4 DEF SharedType, NetTop, NetIterate, NetReturned, NetPred,
                  NetBlock, NetTimeout, NetRearm
    <2>5. ASSUME NEW connack \in {"accepted", "unavailable", "misconfigured"},
                 OnConnect(connack)
          PROVE  SharedType'
      BY <2>5 DEF SharedType, OnConnect, NotifyOne
    <2>6. ASSUME NEW err \in {"transient", "fatal"}, OnDisconnect(err)
          PROVE  SharedType'
      BY <2>6 DEF SharedType, OnDisconnect
    <2>7. CASE Shutdown \/ Destroy \/ UNCHANGED vars
      BY <2>7 DEF SharedType, Shutdown, Destroy, vars
    <2>8. QED
      BY <2>1, <2>2, <2>3, <2>4, <2>5, <2>6, <2>7 DEF Next, Worker, Network
  <1>3. DataInv /\ NetInv /\ SharedType => TypeOK
    BY DEF DataInv, NetInv, TypeOK
  <1>4. QED
    BY <1>1, <1>2, <1>3, DataInvariant, NetInvariant, PTL DEF Spec

-----------------------------------------------------------------------------
(* The client implements the abstract channel.                             *)

\* A message that may still be delivered is queued and newer than what
\* libmosquitto took, or is the worker's copy; and the newest message is
\* pending until it is taken.
PendingInv ==
  \A t \in Topics :
    /\ \A m : m \in Pending(t) <=>
         \/ \E i \in 1..Len(queue[t]) : queue[t][i] = m /\ m > handed[t]
         \/ workerPc = "publish" /\ topic = t /\ m = payload
    /\ QueueSize > 1 => accepted[t] = handed[t] \/ accepted[t] \in Pending(t)

LEMMA PendingFacts == DataInv => PendingInv
  <1> SUFFICES ASSUME DataInv, NEW t \in Topics
               PROVE  /\ \A m : m \in Pending(t) <=>
                           \/ \E i \in 1..Len(queue[t]) :
                                queue[t][i] = m /\ m > handed[t]
                           \/ workerPc = "publish" /\ topic = t /\ m = payload
                      /\ QueueSize > 1 =>
                           accepted[t] = handed[t] \/ accepted[t] \in Pending(t)
    BY DEF PendingInv
  <1>1. DOMAIN queue[t] = 1..Len(queue[t])
    BY DEF DataInv, QueueType
  <1>2. \A m : m \in Pending(t) <=>
           \/ \E i \in 1..Len(queue[t]) : queue[t][i] = m /\ m > handed[t]
           \/ workerPc = "publish" /\ topic = t /\ m = payload
    BY <1>1 DEF Pending
  <1>3. ASSUME QueueSize > 1, accepted[t] # handed[t]
        PROVE  accepted[t] \in Pending(t)
    <2>1. /\ accepted[t] \in Nat /\ handed[t] \in Nat /\ handed[t] <= accepted[t]
          /\ queue[t] \in Seq(Nat)
      BY DEF DataInv, QueueType, FreshInv
    <2>2. Len(queue[t]) >= 1 /\ queue[t][Len(queue[t])] = accepted[t]
      BY <1>3 DEF DataInv, NewestInv
    <2>3. Len(queue[t]) \in 1..Len(queue[t]) /\ accepted[t] > handed[t]
      BY <1>3, <2>1, <2>2
    <2>4. QED
      BY <1>2, <2>2, <2>3
  <1>4. QED
    BY <1>2, <1>3

\* When the other topics' pending messages stay and topic t's come from a
\* given set, the step keeps what the abstract channel must keep.
LEMMA KeepStep ==
  ASSUME QueueSize > 1, PendingInv', NEW t \in Topics, NEW from,
         \A u \in Topics \ {t} : Pending(u)' = Pending(u),
         Pending(t)' \subseteq from
  PROVE  Latest!Keep(t, from)
  <1> DEFINE P == [u \in Topics |-> Pending(u)]
             Q == [u \in Topics |-> Pending(u)']
  <1>1. Q = [P EXCEPT ![t] = Q[t]]
    OBVIOUS
  <1>2. Q[t] = Pending(t)'
    OBVIOUS
  <1>3. accepted'[t] = handed'[t] \/ accepted'[t] \in Pending(t)'
    BY DEF PendingInv
  <1>4. QED
    BY <1>1, <1>2, <1>3 DEF Latest!Keep

\* A step that drops some of topic t's pending messages, and only those.
LEMMA LoseStep ==
  ASSUME QueueSize > 1, PendingInv', NEW t \in Topics,
         UNCHANGED <<accepted, handed>>,
         \A u \in Topics \ {t} : Pending(u)' = Pending(u),
         Pending(t)' \subseteq Pending(t)
  PROVE  Latest!Lose(t)
  <1>1. ASSUME NEW from, from = Pending(t) PROVE Latest!Keep(t, from)
    BY <1>1, KeepStep
  <1>2. Latest!Keep(t, Pending(t))
    BY <1>1
  <1>3. QED
    BY <1>2 DEF Latest!Lose

\* A step that leaves every topic's messages alone stutters.
LEMMA StutterStep ==
  ASSUME UNCHANGED <<accepted, handed>>,
         \A u \in Topics : Pending(u)' = Pending(u)
  PROVE  UNCHANGED Latest!vars
  BY DEF Latest!vars

\* A topic's pending messages depend only on its queue, what was taken of it,
\* and whether the worker is about to publish one of it.
LEMMA SamePending ==
  ASSUME NEW u \in Topics, queue'[u] = queue[u], handed'[u] = handed[u],
         (workerPc' = "publish" /\ topic' = u)
           <=> (workerPc = "publish" /\ topic = u),
         workerPc = "publish" /\ topic = u => payload' = payload
  PROVE  Pending(u)' = Pending(u)
  BY DEF Pending

\* The step of the abstract channel that each step of the client makes.
LEMMA StepRefines ==
  ASSUME QueueSize > 1, DataInv, PendingInv, PendingInv', [Next]_vars
  PROVE  [Latest!Next]_(Latest!vars)
  <1>1. ASSUME NEW t \in Topics, NEW p \in Payloads, Enqueue(t, p)
        PROVE  Latest!Accept(t)
    <2> DEFINE o == queue[t]
               n == accepted[t]
               q == Pushed(o, n + 1)
    <2>1. /\ queue' = [queue EXCEPT ![t] = q]
          /\ accepted' = [accepted EXCEPT ![t] = @ + 1]
          /\ UNCHANGED <<handed, workerPc, topic, payload>>
      BY <1>1 DEF Enqueue
    <2>2. /\ queue \in [Topics -> Seq(Nat)] /\ o \in Seq(Nat) /\ n \in Nat
          /\ Len(o) \in Nat /\ Len(o) <= QueueSize
      BY DEF DataInv, QueueType
    <2>3. queue'[t] = q /\ \A u \in Topics \ {t} : queue'[u] = queue[u]
      BY <2>1, <2>2
    <2>4. \A u \in Topics \ {t} : Pending(u)' = Pending(u)
      BY <2>1, <2>3, SamePending
    <2>5. ASSUME NEW i \in 1..Len(q)
          PROVE  q[i] = n + 1 \/ \E j \in 1..Len(o) : q[i] = o[j]
      <3> HIDE DEF o, n
      <3>1. /\ Len(q) \in 1..QueueSize /\ q[Len(q)] = n + 1
            /\ Len(o) < QueueSize =>
                 Len(q) = Len(o) + 1 /\ \A j \in 1..Len(o) : q[j] = o[j]
            /\ Len(o) = QueueSize =>
                 /\ Len(q) = QueueSize
                 /\ \A j \in 1..(Len(o) - 1) : q[j] = o[j + 1]
        BY <2>2, PushedFacts
      <3> HIDE DEF q
      <3>2. CASE i = Len(q)
        BY <3>1, <3>2
      <3>3. CASE i # Len(q) /\ Len(o) < QueueSize
        BY <2>2, <3>1, <3>3
      <3>4. CASE i # Len(q) /\ Len(o) = QueueSize
        <4>1. i \in 1..(Len(o) - 1) /\ i + 1 \in 1..Len(o)
          BY <2>2, <3>1, <3>4, SizeFacts
        <4>2. QED
          BY <3>1, <3>4, <4>1
      <3>5. QED
        BY <2>2, <3>2, <3>3, <3>4, SizeFacts
    <2>6. Pending(t)' \subseteq Pending(t) \union {accepted[t] + 1}
      <3> SUFFICES ASSUME NEW m, m \in Pending(t)', m # n + 1
                   PROVE  m \in Pending(t)
        OBVIOUS
      <3>1. CASE \E i \in 1..Len(q) : q[i] = m /\ m > handed[t]
        <4>1. \E j \in 1..Len(o) : m = o[j]
          BY <2>5, <3>1
        <4>2. QED
          BY <3>1, <4>1 DEF PendingInv
      <3>2. CASE workerPc = "publish" /\ topic = t /\ m = payload
        BY <3>2 DEF PendingInv
      <3>3. QED
        BY <2>1, <2>3, <3>1, <3>2 DEF PendingInv
    <2>7. Latest!Keep(t, Pending(t) \union {accepted[t] + 1})
      BY <2>4, <2>6, KeepStep
    <2>8. QED
      BY <2>1, <2>7 DEF Latest!Accept
  <1>2. CASE WorkerPass
    <2>1. UNCHANGED <<queue, accepted, handed>> /\ workerPc = "pass"
      BY <1>2 DEF WorkerPass
    <2>2. CASE workerPc' = "publish"
      <3>1. PICK t \in Topics : t = topic
        BY <1>2, <2>2 DEF WorkerPass
      <3>2. /\ topic' = t /\ queue[t] # <<>> /\ payload' = Head(queue[t])
        BY <1>2, <2>2, <3>1 DEF WorkerPass
      <3>3. \A u \in Topics \ {t} : Pending(u)' = Pending(u)
        BY <2>1, <3>1, <3>2, SamePending
      <3>4. ~published /\ queue[t] \in Seq(Nat)
        BY <2>1 DEF DataInv, WindowInv, QueueType
      <3>5. 1 \in 1..Len(queue[t]) /\ payload' = queue[t][1]
        BY <3>2, <3>4
      <3>6. queue[t][1] > handed[t]
        BY <3>4, <3>5 DEF DataInv, FreshInv, Taken
      <3>7. \A m : m \in Pending(t)' <=> m \in Pending(t)
        BY <2>1, <2>2, <3>2, <3>5, <3>6 DEF PendingInv
      <3>8. Pending(t)' \subseteq Pending(t) /\ Pending(t) \subseteq Pending(t)'
        BY <3>7
      <3>9. \A u \in Topics : Pending(u)' = Pending(u)
        BY <3>3, <3>8
      <3>10. QED
        BY <2>1, <3>9, StutterStep
    <2>3. CASE workerPc' # "publish"
      BY <2>1, <2>3, SamePending, StutterStep
    <2>4. QED
      BY <2>2, <2>3
  <1>3. CASE WorkerPublish
    <2>1. /\ UNCHANGED <<queue, accepted, topic, payload>>
          /\ workerPc = "publish" /\ workerPc' = "relock"
          /\ \/ handed' = [handed EXCEPT ![topic] = payload]
             \/ UNCHANGED handed
      BY <1>3 DEF WorkerPublish
    <2>2. PICK t \in Topics : t = topic
      BY <2>1 DEF DataInv, WindowInv
    <2>3. /\ payload > handed[t] /\ payload \in Nat
          /\ handed \in [Topics -> Nat]
      BY <2>1, <2>2 DEF DataInv, WindowInv, WorkerType, QueueType
    <2>4. \A u \in Topics \ {t} : Pending(u)' = Pending(u)
      BY <2>1, <2>2, <2>3, SamePending
    <2>5. CASE handed' = [handed EXCEPT ![topic] = payload]
      <3>1. handed'[t] = payload
        BY <2>2, <2>3, <2>5
      <3>2. payload \in Pending(t)
        BY <2>1, <2>2 DEF PendingInv
      <3>3. \A i \in 1..Len(queue[t]) : queue[t][i] \in Nat
        BY DEF DataInv, QueueType
      <3>4. Pending(t)' \subseteq {m \in Pending(t) : m > payload}
        <4> SUFFICES ASSUME NEW m, m \in Pending(t)'
                     PROVE  m \in Pending(t) /\ m > payload
          OBVIOUS
        <4>1. PICK i \in 1..Len(queue[t]) : queue[t][i] = m /\ m > payload
          BY <2>1, <3>1 DEF PendingInv
        <4>2. m > handed[t]
          BY <2>3, <3>3, <4>1
        <4>3. QED
          BY <4>1, <4>2 DEF PendingInv
      <3>5. \A d \in Nat : payload = d =>
              Latest!Keep(t, {m \in Pending(t) : m > d})
        BY <2>4, <3>4, KeepStep
      <3>6. Latest!Keep(t, {m \in Pending(t) : m > payload})
        BY <2>3, <3>5
      <3>7. Latest!Deliver(t, payload)
        BY <2>1, <2>2, <2>3, <2>5, <3>6 DEF Latest!Deliver
      <3>8. QED
        BY <3>2, <3>7 DEF Latest!Next
    <2>6. CASE UNCHANGED handed
      <3>1. Pending(t)' \subseteq Pending(t)
        BY <2>1, <2>6 DEF PendingInv
      <3>2. Latest!Lose(t)
        BY <2>1, <2>4, <2>6, <3>1, LoseStep
      <3>3. QED
        BY <3>2 DEF Latest!Next
    <2>7. QED
      BY <2>1, <2>5, <2>6
  <1>4. CASE WorkerRelock
    <2>1. /\ UNCHANGED <<accepted, handed>>
          /\ workerPc = "relock" /\ workerPc' = "pass"
          /\ \/ queue' = [queue EXCEPT ![topic] = Tail(@)]
             \/ UNCHANGED queue
      BY <1>4 DEF WorkerRelock
    <2>2. PICK t \in Topics : t = topic
      BY <2>1 DEF DataInv, WindowInv
    <2>3. Len(queue[t]) >= 1 /\ queue \in [Topics -> Seq(Nat)]
      BY <2>1, <2>2 DEF DataInv, WindowInv, QueueType
    <2>4. CASE UNCHANGED queue
      BY <2>1, <2>4, SamePending, StutterStep
    <2>5. CASE queue' = [queue EXCEPT ![topic] = Tail(@)]
      <3> DEFINE o == queue[t]
                 q == Tail(o)
      <3>1. /\ queue'[t] = q /\ o \in Seq(Nat) /\ Len(o) >= 1
            /\ \A u \in Topics \ {t} : queue'[u] = queue[u]
        BY <2>2, <2>3, <2>5
      <3>2. \A i \in 1..Len(q) : i + 1 \in 1..Len(o) /\ q[i] = o[i + 1]
        BY <3>1
      <3>3. \A u \in Topics \ {t} : Pending(u)' = Pending(u)
        BY <2>1, <3>1, SamePending
      <3>4. Pending(t)' \subseteq Pending(t)
        <4> SUFFICES ASSUME NEW m, m \in Pending(t)'
                     PROVE  m \in Pending(t)
          OBVIOUS
        <4>1. \E i \in 1..Len(queue'[t]) : queue'[t][i] = m /\ m > handed[t]
          BY <2>1 DEF PendingInv
        <4>2. PICK i \in 1..Len(q) : q[i] = m /\ m > handed[t]
          BY <3>1, <4>1
        <4>3. QED
          BY <3>2, <4>2 DEF PendingInv
      <3>5. Latest!Lose(t)
        BY <2>1, <3>3, <3>4, LoseStep
      <3>6. QED
        BY <3>5 DEF Latest!Next
    <2>6. QED
      BY <2>1, <2>4, <2>5
  <1>5. CASE WorkerTop \/ WorkerPred \/ WorkerBlock \/ WorkerWake
             \/ WorkerAwake
    <2>1. /\ UNCHANGED <<queue, accepted, handed>>
          /\ workerPc # "publish" /\ workerPc' # "publish"
      BY <1>5 DEF WorkerTop, WorkerPred, WorkerBlock, WorkerWake, WorkerAwake
    <2>2. QED
      BY <2>1, SamePending, StutterStep
  <1>6. CASE UNCHANGED dataVars
    BY <1>6, SamePending, StutterStep DEF dataVars
  <1>7. QED
    <2>1. ASSUME NEW t \in Topics, NEW p \in Payloads, Enqueue(t, p)
          PROVE  Latest!Next
      BY <1>1, <2>1 DEF Latest!Next
    <2>2. QED
      BY <1>2, <1>3, <1>4, <1>5, <1>6, <2>1, DataSteps DEF Worker

\* For queues of two messages and more, the queues, the worker and what
\* libmosquitto takes implement the ordered channel that never loses the
\* newest message.
THEOREM Refinement ==
  ASSUME QueueSize > 1
  PROVE  Spec => ImplementsLatestWins
  <1>1. Init => Latest!Init
    <2> SUFFICES ASSUME Init PROVE Latest!Init
      OBVIOUS
    <2>1. \A t \in Topics : Pending(t) = {}
      BY DEF Init, Pending
    <2>2. QED
      BY <2>1 DEF Init, Latest!Init
  <1>2. DataInv /\ PendingInv /\ PendingInv' /\ [Next]_vars
          => [Latest!Next]_(Latest!vars)
    BY StepRefines
  <1>3. Spec => []PendingInv
    BY DataInvariant, PendingFacts, PTL
  <1>4. QED
    BY <1>1, <1>2, <1>3, DataInvariant, PTL
    DEF Spec, ImplementsLatestWins, Latest!Spec
=============================================================================
