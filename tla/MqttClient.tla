----------------------------- MODULE MqttClient -----------------------------
(***************************************************************************)
(* The MQTT consumer of fronius-bridge (src/mqtt_client.cpp): producers    *)
(* call publish() from the masters' threads, a worker thread (run) hands   *)
(* queued messages to libmosquitto, a network thread (networkLoop) drives  *)
(* mosquitto_loop() with its own reconnect backoff, and the destructor     *)
(* joins both.                                                             *)
(*                                                                         *)
(* A message is the number of its acceptance on its topic: the payload     *)
(* matters only through its hash, which duplicate suppression compares.    *)
(* A topic without an entry in topicQueues_ and one with an empty queue    *)
(* behave alike, so queue is a total function.  Everything between a lock  *)
(* and the next unlock of mutex_ that touches only guarded state is one    *)
(* step; connected_ and the handler's running_ are atomics written without *)
(* mutex_, so evaluating a wait predicate and going to sleep are two.      *)
(***************************************************************************)
EXTENDS Integers, Sequences

CONSTANTS
  NumTopics,    \* topics are 1..NumTopics, in the key order of topicQueues_
  Payloads,     \* what a producer may publish
  Hash,         \* std::hash of a payload
  QueueSize,    \* cfg_.queueSize, per topic
  MinDelay,     \* cfg_.reconnectDelay.min
  MaxDelay,     \* cfg_.reconnectDelay.max
  Exponential,  \* cfg_.reconnectDelay.exponential
  MaxMessages   \* bound: messages accepted per topic in one behaviour

\* parsePositiveSize() rejects a zero queue, parseReconnectDelay() a delay
\* that is not positive and a minimum that is not below the maximum.
ASSUME ConfigAssumption ==
  /\ NumTopics \in Nat
  /\ Hash \in [Payloads -> Nat]
  /\ QueueSize \in Nat \ {0}
  /\ MinDelay \in Nat \ {0}
  /\ MaxDelay \in Nat
  /\ MinDelay < MaxDelay
  /\ Exponential \in BOOLEAN
  /\ MaxMessages \in [1..NumTopics -> Nat]

Topics == 1..NumTopics

\* No entry for the topic in lastPayloadHashes_.
NoHash == -1

VARIABLES
  queue,      \* topicQueues_
  lastHash,   \* lastPayloadHashes_
  connected,  \* connected_
  running,    \* handler_.isRunning()
  mutex,      \* the owner of mutex_: "free", "worker" or "network"
  sleepers,   \* the threads blocked on cv_ and not yet notified
  workerPc,   \* where run() stands
  topic,      \* the topic run()'s iteration is at
  payload,    \* the message run() copied before unlocking
  published,  \* whether mosquitto_publish() returned MOSQ_ERR_SUCCESS
  netPc,      \* where networkLoop() stands
  rc,         \* what mosquitto_loop() returned
  backoff,    \* networkLoop()'s current delay
  mainPc,     \* whether the client is alive, and how far its destructor is
  accepted,   \* history: number of messages accepted per topic
  handed,     \* history: last message per topic that libmosquitto took
  unwritten   \* topics whose last message libmosquitto has not yet written

queueVars  == <<queue, lastHash, accepted>>
workerVars == <<workerPc, topic, payload, published>>
netVars    == <<netPc, rc, backoff>>
vars == <<queueVars, connected, running, mutex, sleepers, workerVars, netVars,
          mainPc, handed, unwritten>>

Init ==
  /\ queue = [t \in Topics |-> <<>>]
  /\ lastHash = [t \in Topics |-> NoHash]
  /\ connected = FALSE
  /\ running = TRUE
  /\ mutex = "free"
  /\ sleepers = {}
  /\ workerPc = "top"
  /\ topic = 1
  /\ payload = 0
  /\ published = FALSE
  /\ netPc = "loop"
  /\ rc = "success"
  /\ backoff = MinDelay
  /\ mainPc = "alive"
  /\ accepted = [t \in Topics |-> 0]
  /\ handed = [t \in Topics |-> 0]
  /\ unwritten = {}

-----------------------------------------------------------------------------
(* Producers: publish(), called by the masters' callbacks.                 *)

\* cv_.notify_one(): any one of the threads blocked on cv_ wakes.
NotifyOne ==
  \/ sleepers = {} /\ UNCHANGED sleepers
  \/ \E th \in sleepers : sleepers' = sleepers \ {th}

\* Plausible faults of the code, which the properties below must exclude, are
\* named ...Bug; no specification uses them. Here: the bound is off by one,
\* or the new message is dropped instead of the oldest.
PushedOffByOneBug(q, m) == Append(IF Len(q) > QueueSize THEN Tail(q) ELSE q, m)
PushedDropNewBug(q, m) == IF Len(q) >= QueueSize THEN q ELSE Append(q, m)

\* The queue after the drop-oldest rule and the push of message m.
Pushed(q, m) == Append(IF Len(q) >= QueueSize THEN Tail(q) ELSE q, m)

\* The payload differs from the topic's last one: record its hash, make
\* room, push and notify, all under mutex_.
Enqueue(t, p) ==
  /\ accepted[t] < MaxMessages[t]
  /\ lastHash' = [lastHash EXCEPT ![t] = Hash[p]]
  /\ accepted' = [accepted EXCEPT ![t] = @ + 1]
  /\ queue' = [queue EXCEPT ![t] = Pushed(@, accepted[t] + 1)]
  /\ NotifyOne
  /\ UNCHANGED <<connected, running, mutex, workerVars, netVars, mainPc,
                 handed, unwritten>>

\* The masters publish as long as the client is not being destroyed, final
\* availabilities from their own destructors (after shutdown) included.
Publish(t, p) ==
  /\ mainPc = "alive"
  /\ mutex = "free"
  /\ IF Hash[p] = lastHash[t] THEN UNCHANGED vars ELSE Enqueue(t, p)

-----------------------------------------------------------------------------
(* The worker thread: run().                                               *)

hasQueuedMessages == \E t \in Topics : queue[t] # <<>>

WorkerTop ==
  /\ workerPc = "top"
  /\ \/ /\ running
        /\ mutex = "free"
        /\ mutex' = "worker"
        /\ workerPc' = "pred"
     \/ /\ ~running
        /\ workerPc' = "done"
        /\ UNCHANGED mutex
  /\ UNCHANGED <<queueVars, connected, running, sleepers, topic, payload,
                 published, netVars, mainPc, handed, unwritten>>

\* cv_.wait evaluates its predicate with mutex_ held ...
WorkerPred ==
  /\ workerPc = "pred"
  /\ workerPc' = IF (connected /\ hasQueuedMessages) \/ ~running
                 THEN "awake" ELSE "block"
  /\ UNCHANGED <<queueVars, connected, running, mutex, sleepers, topic,
                 payload, published, netVars, mainPc, handed, unwritten>>

\* ... and only then sleeps, releasing mutex_.
WorkerBlock ==
  /\ workerPc = "block"
  /\ workerPc' = "asleep"
  /\ mutex' = "free"
  /\ sleepers' = sleepers \union {"worker"}
  /\ UNCHANGED <<queueVars, connected, running, topic, payload, published,
                 netVars, mainPc, handed, unwritten>>

WorkerWake ==
  /\ workerPc = "asleep"
  /\ "worker" \notin sleepers
  /\ mutex = "free"
  /\ mutex' = "worker"
  /\ workerPc' = "pred"
  /\ UNCHANGED <<queueVars, connected, running, sleepers, topic, payload,
                 published, netVars, mainPc, handed, unwritten>>

\* After the wait: leave when stopping without a connection, else (also for
\* the flush at shutdown) make one pass over the topics.
WorkerAwake ==
  /\ workerPc = "awake"
  /\ \/ /\ ~running /\ ~connected
        /\ mutex' = "free"
        /\ workerPc' = "done"
        /\ UNCHANGED topic
     \/ /\ running \/ connected
        /\ workerPc' = "pass"
        /\ topic' = 1
        /\ UNCHANGED mutex
  /\ UNCHANGED <<queueVars, connected, running, sleepers, payload, published,
                 netVars, mainPc, handed, unwritten>>

\* The loop over the topics: copy the front and unlock, go on to the next
\* topic, or release mutex_ at the end of the pass.
WorkerPass ==
  /\ workerPc = "pass"
  /\ \/ /\ topic \in Topics
        /\ queue[topic] # <<>> /\ connected
        /\ payload' = Head(queue[topic])
        /\ mutex' = "free"
        /\ workerPc' = "publish"
        /\ UNCHANGED topic
     \/ /\ topic \in Topics
        /\ queue[topic] = <<>> \/ ~connected
        /\ topic' = topic + 1
        /\ UNCHANGED <<mutex, workerPc, payload>>
     \/ /\ topic \notin Topics
        /\ mutex' = "free"
        /\ workerPc' = "top"
        /\ topic' = 1
        /\ UNCHANGED payload
  /\ UNCHANGED <<queueVars, connected, running, sleepers, published, netVars,
                 mainPc, handed, unwritten>>

\* mosquitto_publish(), without mutex_: libmosquitto takes the message for
\* the loop thread to write, or refuses it.
WorkerPublish ==
  /\ workerPc = "publish"
  /\ workerPc' = "relock"
  /\ \/ /\ published' = TRUE
        /\ handed' = [handed EXCEPT ![topic] = payload]
        /\ unwritten' = unwritten \union {topic}
     \/ /\ published' = FALSE
        /\ UNCHANGED <<handed, unwritten>>
  /\ UNCHANGED <<queueVars, connected, running, mutex, sleepers, topic,
                 payload, netVars, mainPc>>

\* Fault: the message is popped whether or not libmosquitto took it.
PopUnpublishedBug ==
  /\ workerPc = "relock"
  /\ mutex = "free"
  /\ mutex' = "worker"
  /\ workerPc' = "pass"
  /\ payload' = 0
  /\ published' = FALSE
  /\ queue' = [queue EXCEPT ![topic] = Tail(@)]
  /\ topic' = IF published THEN topic ELSE topic + 1
  /\ UNCHANGED <<lastHash, accepted, connected, running, sleepers, netVars,
                 mainPc, handed, unwritten>>

\* With mutex_ again (and the copy out of scope): pop the front, whatever it
\* is by now, and stay at the topic; after a refusal leave the topic.
WorkerRelock ==
  /\ workerPc = "relock"
  /\ mutex = "free"
  /\ mutex' = "worker"
  /\ workerPc' = "pass"
  /\ payload' = 0
  /\ published' = FALSE
  /\ \/ /\ published
        /\ queue' = [queue EXCEPT ![topic] = Tail(@)]
        /\ UNCHANGED topic
     \/ /\ ~published
        /\ topic' = topic + 1
        /\ UNCHANGED queue
  /\ UNCHANGED <<lastHash, accepted, connected, running, sleepers, netVars,
                 mainPc, handed, unwritten>>

Worker ==
  \/ WorkerTop \/ WorkerPred \/ WorkerBlock \/ WorkerWake \/ WorkerAwake
  \/ WorkerPass \/ WorkerPublish \/ WorkerRelock

-----------------------------------------------------------------------------
(* The network thread: networkLoop(), and the callbacks mosquitto_loop()   *)
(* makes on it.  The connection is up exactly while connected_ is set;     *)
(* without it, a loop iteration works on the handshake.                    *)

NetTop ==
  /\ netPc = "loop"
  /\ netPc' = IF running THEN "calling" ELSE "done"
  /\ UNCHANGED <<queueVars, connected, running, mutex, sleepers, workerVars,
                 rc, backoff, mainPc, handed, unwritten>>

\* mosquitto_loop() without a callback: with a connection it writes the
\* pending packets, all or some.
NetIterate ==
  /\ netPc = "calling"
  /\ netPc' = "returned"
  /\ rc' = "success"
  /\ unwritten' \in IF connected THEN SUBSET unwritten ELSE {unwritten}
  /\ UNCHANGED <<queueVars, connected, running, mutex, sleepers, workerVars,
                 backoff, mainPc, handed>>

\* onConnect(): the broker's CONNACK. A refusal ends the connection attempt;
\* unless it is "server unavailable" it also shuts the bridge down.
OnConnect(connack) ==
  /\ netPc = "calling"
  /\ ~connected
  /\ connected' = (connack = "accepted")
  /\ NotifyOne
  /\ running' = (running /\ connack # "misconfigured")
  /\ rc' = IF connack = "accepted" THEN "success" ELSE "transient"
  /\ netPc' = "returned"
  /\ UNCHANGED <<queueVars, mutex, workerVars, backoff, mainPc, handed,
                 unwritten>>

\* Fault: a lost connection also clears the queues.
ClearOnDisconnectBug(err) ==
  /\ netPc = "calling"
  /\ connected' = FALSE
  /\ queue' = [t \in Topics |-> <<>>]
  /\ rc' = err
  /\ netPc' = "returned"
  /\ UNCHANGED <<lastHash, accepted, running, mutex, sleepers, workerVars,
                 backoff, mainPc, handed, unwritten>>

\* onDisconnect(), or a handshake that fails: mosquitto_loop() returns an
\* error that isFatalLoopError() classifies.
OnDisconnect(err) ==
  /\ netPc = "calling"
  /\ connected' = FALSE
  /\ rc' = err
  /\ netPc' = "returned"
  /\ UNCHANGED <<queueVars, running, mutex, sleepers, workerVars, backoff,
                 mainPc, handed, unwritten>>

\* Fault: a fatal error ends the thread without handler_.shutdown().
SilentFatalBug ==
  /\ netPc = "returned"
  /\ netPc' = CASE rc = "success" -> "loop"
                [] rc = "transient" /\ running -> "lock"
                [] OTHER -> "done"
  /\ backoff' = IF rc = "success" /\ connected THEN MinDelay ELSE backoff
  /\ rc' = "success"
  /\ UNCHANGED <<queueVars, connected, running, mutex, sleepers, workerVars,
                 mainPc, handed, unwritten>>

\* What networkLoop() does with the return code (out of scope afterwards).
NetReturned ==
  /\ netPc = "returned"
  /\ \/ /\ rc = "success"
        /\ backoff' = IF connected THEN MinDelay ELSE backoff
        /\ netPc' = "loop"
        /\ UNCHANGED running
     \/ /\ rc # "success" /\ ~running
        /\ netPc' = "done"
        /\ UNCHANGED <<backoff, running>>
     \/ /\ rc = "fatal" /\ running
        /\ running' = FALSE
        /\ netPc' = "done"
        /\ UNCHANGED backoff
     \/ /\ rc = "transient" /\ running
        /\ netPc' = "lock"
        /\ UNCHANGED <<backoff, running>>
  /\ rc' = "success"
  /\ UNCHANGED <<queueVars, connected, mutex, sleepers, workerVars, mainPc,
                 handed, unwritten>>

\* cv_.wait_for: take mutex_ (first, or again when notified), evaluate the
\* predicate ...
NetPred ==
  /\ netPc = "lock" \/ (netPc = "asleep" /\ "network" \notin sleepers)
  /\ mutex = "free"
  /\ \/ /\ running
        /\ mutex' = "network"
        /\ netPc' = "block"
     \/ /\ ~running
        /\ netPc' = "rearm"
        /\ UNCHANGED mutex
  /\ UNCHANGED <<queueVars, connected, running, sleepers, workerVars, rc,
                 backoff, mainPc, handed, unwritten>>

\* ... sleep ...
NetBlock ==
  /\ netPc = "block"
  /\ netPc' = "asleep"
  /\ mutex' = "free"
  /\ sleepers' = sleepers \union {"network"}
  /\ UNCHANGED <<queueVars, connected, running, workerVars, rc, backoff,
                 mainPc, handed, unwritten>>

\* Fault: the wait is not timed, only a notification ends it.
UntimedWaitBug ==
  /\ netPc = "asleep"
  /\ "network" \notin sleepers
  /\ mutex = "free"
  /\ netPc' = "rearm"
  /\ UNCHANGED <<queueVars, connected, running, mutex, sleepers, workerVars,
                 rc, backoff, mainPc, handed, unwritten>>

\* ... until the delay has passed.
NetTimeout ==
  /\ netPc = "asleep"
  /\ mutex = "free"
  /\ sleepers' = sleepers \ {"network"}
  /\ netPc' = "rearm"
  /\ UNCHANGED <<queueVars, connected, running, mutex, workerVars, rc,
                 backoff, mainPc, handed, unwritten>>

\* Fault: past the maximum the delay starts again.
BackoffWrapsBug(b) ==
  IF Exponential /\ 2 * b <= MaxDelay THEN 2 * b ELSE MinDelay

NextBackoff(b) ==
  IF Exponential THEN (IF 2 * b < MaxDelay THEN 2 * b ELSE MaxDelay)
  ELSE MinDelay

\* The next delay, then stop or mosquitto_reconnect_async().
NetRearm ==
  /\ netPc = "rearm"
  /\ backoff' = NextBackoff(backoff)
  /\ netPc' = IF running THEN "loop" ELSE "done"
  /\ UNCHANGED <<queueVars, connected, running, mutex, sleepers, workerVars,
                 rc, mainPc, handed, unwritten>>

Network ==
  \/ NetTop \/ NetIterate
  \/ \E connack \in {"accepted", "unavailable", "misconfigured"} :
       OnConnect(connack)
  \/ \E err \in {"transient", "fatal"} : OnDisconnect(err)
  \/ NetReturned \/ NetPred \/ NetBlock \/ NetTimeout \/ NetRearm

-----------------------------------------------------------------------------
(* The rest of the bridge: shutdown, then main()'s destructors.            *)

\* A signal, or a fatal error of another component.
Shutdown ==
  /\ running
  /\ running' = FALSE
  /\ UNCHANGED <<queueVars, connected, mutex, sleepers, workerVars, netVars,
                 mainPc, handed, unwritten>>

\* ~MqttClient: notify_all (without mutex_), join the network thread, then
\* the worker, then drop the connection and what libmosquitto still holds.
Destroy ==
  /\ \/ /\ mainPc = "alive" /\ ~running
        /\ sleepers' = {}
        /\ mainPc' = "joinNetwork"
     \/ /\ mainPc = "joinNetwork" /\ netPc = "done"
        /\ mainPc' = "joinWorker"
        /\ UNCHANGED sleepers
     \/ /\ mainPc = "joinWorker" /\ workerPc = "done"
        /\ mainPc' = "destroyed"
        /\ UNCHANGED sleepers
  /\ UNCHANGED <<queueVars, connected, running, mutex, workerVars, netVars,
                 handed, unwritten>>

Next ==
  \/ \E t \in Topics, p \in Payloads : Publish(t, p)
  \/ Worker
  \/ Network
  \/ Shutdown
  \/ Destroy

\* The scheduler runs each thread; nothing obliges producers to publish or
\* anyone to request the shutdown.
Fairness == WF_vars(Worker) /\ WF_vars(Network) /\ WF_vars(Destroy)

Spec == Init /\ [][Next]_vars /\ Fairness

-----------------------------------------------------------------------------
(* What the client promises.                                               *)

QueueType ==
  /\ queue \in [Topics -> Seq(Nat)]
  /\ \A t \in Topics : Len(queue[t]) <= QueueSize
  /\ lastHash \in [Topics -> Nat \union {NoHash}]
  /\ accepted \in [Topics -> Nat]
  /\ handed \in [Topics -> Nat]

WorkerType ==
  /\ workerPc \in {"top", "pred", "block", "asleep", "awake", "pass",
                   "publish", "relock", "done"}
  /\ topic \in 1..(NumTopics + 1)
  /\ payload \in Nat
  /\ published \in BOOLEAN

NetType ==
  /\ netPc \in {"loop", "calling", "returned", "lock", "block", "asleep",
                "rearm", "done"}
  /\ rc \in {"success", "transient", "fatal"}
  /\ backoff \in MinDelay..MaxDelay

SharedType ==
  /\ connected \in BOOLEAN
  /\ running \in BOOLEAN
  /\ mutex \in {"free", "worker", "network"}
  /\ sleepers \subseteq {"worker", "network"}
  /\ mainPc \in {"alive", "joinNetwork", "joinWorker", "destroyed"}
  /\ unwritten \subseteq Topics

\* The types, with two bounds: no queue is longer than queueSize and the
\* delay stays between the configured minimum and maximum.
TypeOK == QueueType /\ WorkerType /\ NetType /\ SharedType

\* run() drops mutex_ around mosquitto_publish() and pops afterwards: however
\* many producers overflow the queue meanwhile, the pop (undefined behaviour
\* on an empty std::queue) always finds a message.
PopFindsMessage ==
  workerPc \in {"publish", "relock"} => queue[topic] # <<>>

\* Duplicate suppression silences a producer that repeats the newest payload
\* of a topic, so that payload must never be lost: it is still queued, being
\* published, or libmosquitto has it. Drop-oldest racing run()'s pop keeps
\* this promise only for queues of two messages and more.
NewestKept ==
  QueueSize > 1 =>
    \A t \in Topics :
      lastHash[t] # NoHash =>
        \/ handed[t] = accepted[t]
        \/ queue[t] # <<>> /\ queue[t][Len(queue[t])] = accepted[t]

\* Neither thread leaves its loop while the bridge runs: whatever mosquitto
\* reports, the network thread retries or shuts the whole bridge down.
ThreadsOutliveRun ==
  running => workerPc # "done" /\ netPc # "done"

\* The delay grows up to its maximum through any run of failures, and falls
\* back to the minimum only once a connection is established.
BackoffSchedule ==
  [][backoff' < backoff => connected /\ backoff' = MinDelay]_vars

\* The messages of a topic that can still be delivered: what is queued and
\* newer than what libmosquitto took last, and the worker's copy.
Pending(t) ==
  {queue[t][i] : i \in {j \in DOMAIN queue[t] : queue[t][j] > handed[t]}}
    \union (IF workerPc = "publish" /\ topic = t THEN {payload} ELSE {})

Latest == INSTANCE LatestWins WITH
  newest    <- accepted,
  delivered <- handed,
  pending   <- [t \in Topics |-> Pending(t)]

\* What the queue, the worker and libmosquitto's intake together promise (for
\* queues of two messages and more): an ordered channel that may lose old
\* messages but not the newest one.
ImplementsLatestWins == Latest!Spec

\* Once the bridge is shutting down the network thread ends, so the
\* destructor's first join returns: its wait is timed, and survives a
\* notify_all that comes between the predicate and the sleep.
NetworkStops == ~running ~> netPc = "done"

\* After a transient failure the network thread always comes back to arm a
\* new connection attempt (or to stop), whatever producers and the worker do
\* with the mutex and the condition variable it shares with them.
RetryRearmed == netPc = "lock" ~> netPc \in {"loop", "done"}

\* README.md:202 and the comment at src/mqtt_client.cpp:205: the messages a
\* topic loses are the oldest ones, dropped when a publish overflows the
\* queue. So a message that leaves the queue in any other step has been
\* taken by libmosquitto.
OnlyOverflowDrops ==
  [][\A t \in Topics :
       (queue'[t] # queue[t] /\ accepted'[t] = accepted[t])
         => Head(queue[t]) <= handed[t]]_vars

\* The comment at src/main.cpp:120: the client is destroyed last so that the
\* final availability publishes land. With a connection that is still up,
\* what libmosquitto took has reached the broker before it is destroyed.
FinalPublishesLand ==
  (mainPc = "destroyed" /\ connected) => unwritten = {}
=============================================================================
