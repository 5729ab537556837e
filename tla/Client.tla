------------------------------- MODULE Client -------------------------------
(***************************************************************************)
(* RabbitMQClient of client.go together with its ConnectionManager: the    *)
(* startup, the reconnect callback that rebuilds channels and dispatch     *)
(* loops, Subscribe, the dispatch goroutines and the cleanup, interleaved  *)
(* with lost connections.                                                  *)
(*                                                                         *)
(* An AMQP channel is represented by the connection it was opened on.  A   *)
(* critical section, or a stretch of code that touches no shared state, is *)
(* one action; every read of shared state that is used later is kept in a  *)
(* local of its goroutine (newConn, target, cur, todo).                    *)
(***************************************************************************)
EXTENDS ConnectionManager, FiniteSets

CONSTANTS Startup,    \* the goroutine that runs startupWithContext
          Watcher,    \* the watcher goroutine, when it runs the callback
          Subs,       \* the Subscribe / SubscribeWith calls
          Producers,  \* names of the enabled producers
          Consumers,  \* names of the enabled consumers
          NoName,     \* no name
          Loops       \* slots for dispatch goroutines that run at once

Builders == {Startup, Watcher} \cup Forcers
Procs == Builders \cup Subs
Names == Producers \cup Consumers \cup Subs

ASSUME ClientAssumption ==
    /\ Startup # Watcher
    /\ Startup \notin Forcers \cup Subs
    /\ Watcher \notin Forcers \cup Subs
    /\ Forcers \cap Subs = {}
    /\ NoName \notin Names

VARIABLES connection,   \* r.connection
          producers,    \* r.producers: the connection of the channel, or NoConn
          consumers,    \* r.consumers, likewise
          subs,         \* r.subscriptions: the consumer name of each entry
          closing,      \* r.closed is set and closeChan is closed
          pc,           \* control state of each process
          newConn,      \* local: connection a builder has dialled
          todo,         \* local: names a for loop has still to visit
          cur,          \* local: name the loop body works on
          target,       \* local: connection read for the channel being opened
          loops,        \* the dispatch goroutines
          cancelled,    \* Subscribe calls whose context the caller cancelled
          revoked,      \* subscriptions whose channel the broker has closed
          cpc,          \* control state of each cleanup call
          lateDials     \* history: watcher dials begun after stopChan closed

regVars == <<connection, producers, consumers>>
locVars == <<newConn, todo, cur, target>>
subVars == <<subs, loops, cancelled, revoked>>
endVars == <<closing, cpc>>
vars == <<cmVars, regVars, pc, locVars, subVars, endVars, lateDials>>

\* A dispatch goroutine: its subscription, the connection of its channel, whether
\* it was started before closeChan was closed, and whether its context is the one
\* given to Subscribe.
Goroutine == [pc : {"select", "handling"}, sub : Subs, conn : Conns,
              early : BOOLEAN, user : BOOLEAN]
NoLoop == [pc |-> "none", sub |-> NoName, conn |-> NoConn, early |-> FALSE, user |-> FALSE]

RegTypeOK ==
    /\ connection \in Conns \cup {NoConn}
    /\ producers \in [Producers -> Conns \cup {NoConn}]
    /\ consumers \in [Consumers -> Conns \cup {NoConn}]

LocTypeOK ==
    /\ pc \in [Procs -> {"idle", "dial", "set", "wire", "clear", "clearConsumers", "producers",
                         "regProducer", "consumers", "regConsumer", "snapshot", "start",
                         "finish", "health", "record", "loops", "open", "consume", "ok",
                         "fail"}]
    /\ newConn \in [Builders -> Conns \cup {NoConn}]
    /\ todo \in [Procs -> SUBSET Names]
    /\ cur \in [Procs -> Names \cup {NoName}]
    /\ target \in [Procs -> Conns \cup {NoConn}]

SubTypeOK ==
    /\ subs \in [Subs -> Consumers \cup {NoName}]
    /\ loops \in [Loops -> Goroutine \cup {NoLoop}]
    /\ cancelled \in SUBSET Subs
    /\ revoked \in SUBSET Subs

EndTypeOK ==
    /\ closing \in BOOLEAN
    /\ cpc \in [Stoppers -> {"idle", "stop", "stopping", "wait", "blocked", "woken",
                             "consumers", "producers", "conn", "done"}]
    /\ lateDials \in Nat

TypeOK == CMTypeOK /\ RegTypeOK /\ LocTypeOK /\ SubTypeOK /\ EndTypeOK

Init ==
    /\ CMInit
    /\ connection = NoConn
    /\ producers = [x \in Producers |-> NoConn]
    /\ consumers = [x \in Consumers |-> NoConn]
    /\ subs = [s \in Subs |-> NoName]
    /\ closing = FALSE
    /\ pc = [p \in Procs |-> IF p = Startup THEN "dial" ELSE "idle"]
    /\ newConn = [p \in Builders |-> NoConn]
    /\ todo = [p \in Procs |-> {}]
    /\ cur = [p \in Procs |-> NoName]
    /\ target = [p \in Procs |-> NoConn]
    /\ loops = [l \in Loops |-> NoLoop]
    /\ cancelled = {}
    /\ revoked = {}
    /\ cpc = [s \in Stoppers |-> "idle"]
    /\ lateDials = 0

\* Process p moves from one control state to another.
Step(p, from, to) ==
    /\ pc[p] = from
    /\ pc' = [pc EXCEPT ![p] = to]

\* The loop body of p ends: its locals go out of scope.
DropBody(p) ==
    /\ cur' = [cur EXCEPT ![p] = NoName]
    /\ target' = [target EXCEPT ![p] = NoConn]

-----------------------------------------------------------------------------
(* Dialling: connect() and the reconnect callback                          *)

CountDial(p) ==
    lateDials' = IF p = Watcher /\ stopClosed THEN lateDials + 1 ELSE lateDials

DialOk(p, c) ==
    /\ Step(p, "dial", "set")
    /\ DialConfig(c)
    /\ newConn' = [newConn EXCEPT ![p] = c]
    /\ CountDial(p)
    /\ UNCHANGED <<mgrVars, regVars, todo, cur, target, subVars, endVars>>

DialFail(p) ==
    /\ Step(p, "dial", "fail")
    /\ CountDial(p)
    /\ UNCHANGED <<cmVars, regVars, locVars, subVars, endVars>>

SetConnection(p) ==
    /\ Step(p, "set", IF p = Startup THEN "wire" ELSE "clear")
    /\ connection' = newConn[p]
    /\ UNCHANGED <<cmVars, producers, consumers, locVars, subVars, endVars, lateDials>>

\* connect(): callback and notify channel are handed to the manager.
WireManager ==
    /\ Step(Startup, "wire", "producers")
    /\ Wire(newConn[Startup])
    /\ todo' = [todo EXCEPT ![Startup] = Producers]
    /\ newConn' = [newConn EXCEPT ![Startup] = NoConn]
    /\ UNCHANGED <<regVars, cur, target, subVars, endVars, lateDials>>

-----------------------------------------------------------------------------
(* Channels: initializeProducers, initializeConsumers and                  *)
(* rebuildAfterReconnect                                                   *)

\* The rebuild drops the producer channels of the old connection.
DiscardProducers(p) ==
    /\ Step(p, "clear", "clearConsumers")
    /\ producers' = [x \in Producers |-> NoConn]
    /\ UNCHANGED <<cmVars, connection, consumers, locVars, subVars, endVars, lateDials>>

\* Mutated form: the rebuild goes on to the consumers without the producers.
DiscardConsumersOnly(p) ==
    /\ Step(p, "clearConsumers", "producers")
    /\ consumers' = [x \in Consumers |-> NoConn]
    /\ UNCHANGED <<cmVars, connection, producers, locVars, subVars, endVars, lateDials>>

\* It drops the consumer channels, and turns to the producers.
DiscardConsumers(p) ==
    /\ Step(p, "clearConsumers", "producers")
    /\ consumers' = [x \in Consumers |-> NoConn]
    /\ todo' = [todo EXCEPT ![p] = Producers]
    /\ UNCHANGED <<cmVars, connection, producers, newConn, cur, target, subVars, endVars, lateDials>>

\* createProducer / createConsumer open a channel on r.connection, which they
\* read without holding connectionMutex.
OpenChannel(p, x) ==
    /\ x \in todo[p]
    /\ \/ Step(p, "producers", "regProducer")
       \/ Step(p, "consumers", "regConsumer")
    /\ IsOpen(connection)
    /\ target' = [target EXCEPT ![p] = connection]
    /\ cur' = [cur EXCEPT ![p] = x]
    /\ todo' = [todo EXCEPT ![p] = @ \ {x}]
    /\ UNCHANGED <<cmVars, regVars, newConn, subVars, endVars, lateDials>>

\* The same read when r.connection is nil: Channel() dereferences it.
OpenChannelPanics(p) ==
    /\ pc[p] \in {"producers", "consumers"}
    /\ todo[p] # {}
    /\ connection = NoConn
    /\ crashed' = "nilConn"
    /\ UNCHANGED <<amqpVars, connected, stopped, stopClosed, reconnect, connNotify,
                   wpc, wconn, backoff, fpc, spc, regVars, pc, locVars, subVars,
                   endVars, lateDials>>

\* The channel, with its exchange or queue declared, enters the registry.
RegisterChannel(p) ==
    /\ \/ /\ Step(p, "regProducer", "producers")
          /\ producers' = [producers EXCEPT ![cur[p]] = target[p]]
          /\ UNCHANGED consumers
       \/ /\ Step(p, "regConsumer", "consumers")
          /\ consumers' = [consumers EXCEPT ![cur[p]] = target[p]]
          /\ UNCHANGED producers
    /\ DropBody(p)
    /\ UNCHANGED <<cmVars, connection, newConn, todo, subVars, endVars, lateDials>>

ProducersDone(p) ==
    /\ Step(p, "producers", "consumers")
    /\ todo[p] = {}
    /\ todo' = [todo EXCEPT ![p] = Consumers]
    /\ UNCHANGED <<cmVars, regVars, newConn, cur, target, subVars, endVars, lateDials>>

ConsumersDone(p) ==
    /\ Step(p, "consumers", IF p = Startup THEN "start" ELSE "snapshot")
    /\ todo[p] = {}
    /\ UNCHANGED <<cmVars, regVars, locVars, subVars, endVars, lateDials>>

\* Any failure on the way (a name that does not validate, a refused channel,
\* declaration, QoS, confirm or consume, a cancelled startup context) returns
\* the error; what has been opened so far stays open.
BuildFails(p) ==
    /\ \/ pc[p] \in {"regProducer", "regConsumer", "open", "consume"}
       \/ pc[p] \in {"producers", "consumers"} /\ todo[p] # {}
       \/ pc[p] = "producers" /\ p = Startup
    /\ pc' = [pc EXCEPT ![p] = "fail"]
    /\ todo' = [todo EXCEPT ![p] = {}]
    /\ DropBody(p)
    /\ UNCHANGED <<cmVars, regVars, newConn, subVars, endVars, lateDials>>

-----------------------------------------------------------------------------
(* The end of startupWithContext                                           *)

StartManagers ==
    /\ Step(Startup, "start", "finish")
    /\ Start
    /\ UNCHANGED <<regVars, locVars, subVars, endVars, lateDials>>

\* The resources are registered, which may fail.  CheckHealth then finds
\* r.connection open or not, ...
FinishStartup ==
    /\ \/ Step(Startup, "finish", "health") /\ IsOpen(connection)
       \/ Step(Startup, "finish", "fail")
    /\ UNCHANGED <<cmVars, regVars, locVars, subVars, endVars, lateDials>>

\* ... and the manager connected and the health checker healthy or not.  Channels
\* in the registries are never nil, so that its look at them finds nothing.
CheckHealth ==
    /\ \/ Step(Startup, "health", "ok") /\ connected
       \/ Step(Startup, "health", "fail")
    /\ UNCHANGED <<cmVars, regVars, locVars, subVars, endVars, lateDials>>

-----------------------------------------------------------------------------
(* Subscriptions                                                           *)

\* Subscribe and SubscribeWith find a registered consumer.  Without one they
\* return an error and change nothing.
Subscribe(s, x) ==
    /\ pc[Startup] = "ok"
    /\ Step(s, "idle", "record")
    /\ consumers[x] # NoConn
    /\ cur' = [cur EXCEPT ![s] = x]
    /\ UNCHANGED <<cmVars, regVars, newConn, todo, target, subVars, endVars, lateDials>>

\* Mutated form: the subscription is started but not remembered.
RecordSubscriptionForgets(s) ==
    /\ Step(s, "record", "open")
    /\ cur' = [cur EXCEPT ![s] = s]
    /\ UNCHANGED <<cmVars, regVars, newConn, todo, target, subVars, endVars, lateDials>>

\* Mutated form: the subscription is remembered under its own tag.
RecordSubscriptionByTag(s) ==
    /\ Step(s, "record", "open")
    /\ subs' = [subs EXCEPT ![s] = s]
    /\ cur' = [cur EXCEPT ![s] = s]
    /\ UNCHANGED <<cmVars, regVars, newConn, todo, target, loops, cancelled, revoked,
                   endVars, lateDials>>

\* subscribeWithChannel remembers the subscription before it starts the loop.
RecordSubscription(s) ==
    /\ Step(s, "record", "open")
    /\ subs' = [subs EXCEPT ![s] = cur[s]]
    /\ cur' = [cur EXCEPT ![s] = s]
    /\ UNCHANGED <<cmVars, regVars, newConn, todo, target, loops, cancelled, revoked,
                   endVars, lateDials>>

\* rebuildAfterReconnect copies the recorded subscriptions.
Snapshot(p) ==
    /\ Step(p, "snapshot", "loops")
    /\ todo' = [todo EXCEPT ![p] = {s \in Subs : subs[s] # NoName}]
    /\ UNCHANGED <<cmVars, regVars, newConn, cur, target, subVars, endVars, lateDials>>

\* Mutated form: the subscription is not ticked off.
PickSubscriptionKeeps(p, s) ==
    /\ Step(p, "loops", "open")
    /\ s \in todo[p] /\ consumers[subs[s]] # NoConn
    /\ cur' = [cur EXCEPT ![p] = s]
    /\ UNCHANGED <<cmVars, regVars, newConn, todo, target, subVars, endVars, lateDials>>

\* The rebuild takes up a subscription whose consumer is registered ...
PickSubscription(p, s) ==
    /\ Step(p, "loops", "open")
    /\ s \in todo[p] /\ consumers[subs[s]] # NoConn
    /\ cur' = [cur EXCEPT ![p] = s]
    /\ todo' = [todo EXCEPT ![p] = @ \ {s}]
    /\ UNCHANGED <<cmVars, regVars, newConn, target, subVars, endVars, lateDials>>

\* ... and passes over one whose consumer is not.
SkipSubscription(p, s) ==
    /\ pc[p] = "loops"
    /\ s \in todo[p] /\ consumers[subs[s]] = NoConn
    /\ todo' = [todo EXCEPT ![p] = @ \ {s}]
    /\ UNCHANGED <<cmVars, regVars, pc, newConn, cur, target, subVars, endVars, lateDials>>

LoopsDone(p) ==
    /\ Step(p, "loops", "ok")
    /\ todo[p] = {}
    /\ UNCHANGED <<cmVars, regVars, locVars, subVars, endVars, lateDials>>

\* startDispatchLoop reads r.connection, which must be open.
StartDispatchLoop(p) ==
    /\ Step(p, "open", "consume")
    /\ IsOpen(connection)
    /\ target' = [target EXCEPT ![p] = connection]
    /\ UNCHANGED <<cmVars, regVars, newConn, todo, cur, subVars, endVars, lateDials>>

\* It opens a channel on that connection, consumes, adds to subscriptionWG and
\* starts the goroutine.  A rebuild passes context.Background().
Consume(p, l) ==
    /\ Step(p, "consume", IF p \in Subs THEN "ok" ELSE "loops")
    /\ IsOpen(target[p])
    /\ loops[l].pc = "none"
    /\ loops' = [loops EXCEPT ![l] = [pc |-> "select", sub |-> cur[p], conn |-> target[p],
                                      early |-> ~closing, user |-> p \in Subs]]
    /\ DropBody(p)
    /\ UNCHANGED <<cmVars, regVars, newConn, todo, subs, cancelled, revoked, endVars, lateDials>>

-----------------------------------------------------------------------------
(* The dispatch goroutine                                                  *)

\* subscriptionWG counts the goroutines that have not ended.
Active == {l \in Loops : loops[l].pc # "none"}

\* The goroutine ends: its channel is closed and subscriptionWG.Done, if it is
\* the last one, releases whoever waits for the group.
EndLoop(l) ==
    /\ loops[l].pc = "select"
    /\ loops' = [loops EXCEPT ![l] = NoLoop]
    /\ cpc' = [s \in Stoppers |-> IF Active = {l} /\ cpc[s] = "blocked" THEN "woken" ELSE cpc[s]]

\* A delivery is received and the handler called.  A channel that has ended
\* may still hand over what it had buffered.
Receive(l) ==
    /\ loops[l].pc = "select"
    /\ loops' = [loops EXCEPT ![l].pc = "handling"]
    /\ UNCHANGED <<cmVars, regVars, pc, locVars, subs, cancelled, revoked, endVars, lateDials>>

\* The handler returns, fails or panics, and the delivery is settled.
Settle(l) ==
    /\ loops[l].pc = "handling"
    /\ loops' = [loops EXCEPT ![l].pc = "select"]
    /\ UNCHANGED <<cmVars, regVars, pc, locVars, subs, cancelled, revoked, endVars, lateDials>>

\* Mutated form: the select does not look at closeChan.
LoopReturnsIgnoresClose(l) ==
    /\ ~IsOpen(loops[l].conn) \/ (loops[l].user /\ loops[l].sub \in cancelled)
    /\ EndLoop(l)
    /\ UNCHANGED <<cmVars, regVars, pc, locVars, subs, cancelled, revoked, closing, lateDials>>

\* The select finds its context done, closeChan closed, or the deliveries
\* closed because the connection ended.
LoopReturns(l) ==
    /\ closing \/ ~IsOpen(loops[l].conn) \/ (loops[l].user /\ loops[l].sub \in cancelled)
    /\ EndLoop(l)
    /\ UNCHANGED <<cmVars, regVars, pc, locVars, subs, cancelled, revoked, closing, lateDials>>

\* The broker closes the channel or cancels the consumer of one loop.
LoopRevoked(l) ==
    /\ EndLoop(l)
    /\ revoked' = revoked \cup {loops[l].sub}
    /\ UNCHANGED <<cmVars, regVars, pc, locVars, subs, cancelled, closing, lateDials>>

\* The application cancels the context it gave to Subscribe.  Only the dispatch
\* goroutine looks at it.
CancelContext(s) ==
    /\ pc[s] = "ok"
    /\ s \notin cancelled
    /\ cancelled' = cancelled \cup {s}
    /\ UNCHANGED <<cmVars, regVars, pc, locVars, subs, loops, revoked, endVars, lateDials>>

-----------------------------------------------------------------------------
(* cleanupWithContext                                                      *)

\* External: the plugin runtime lets startup return before it calls cleanup.
StartupReturned == pc[Startup] \in {"ok", "fail"}

CleanupGoto(s, from, to) ==
    /\ cpc[s] = from
    /\ cpc' = [cpc EXCEPT ![s] = to]

\* Mutated form: the manager is not stopped.
CleanupSignalSkipsStop(s) ==
    /\ StartupReturned
    /\ CleanupGoto(s, "idle", "wait")
    /\ closing' = TRUE
    /\ UNCHANGED <<cmVars, regVars, pc, locVars, subVars, lateDials>>

\* The contract is withdrawn, closed is set and closeChan closed.
CleanupSignal(s) ==
    /\ StartupReturned
    /\ CleanupGoto(s, "idle", "stop")
    /\ closing' = TRUE
    /\ UNCHANGED <<cmVars, regVars, pc, locVars, subVars, lateDials>>

\* connectionManager.Stop().
CleanupStop(s) ==
    /\ \/ /\ StopLock(s)
          /\ CleanupGoto(s, "stop", IF stopped THEN "wait" ELSE "stopping")
       \/ /\ StopCheck(s)
          /\ CleanupGoto(s, "stopping", IF stopClosed THEN "wait" ELSE "stopping")
       \/ /\ StopClose(s)
          /\ CleanupGoto(s, "stopping", "wait")
    /\ UNCHANGED <<regVars, pc, locVars, subVars, closing, lateDials>>

\* Mutated form: the dispatch goroutines are not waited for.
CleanupWaitSkipped(s) ==
    /\ CleanupGoto(s, "wait", "consumers")
    /\ UNCHANGED <<cmVars, regVars, pc, locVars, subVars, closing, lateDials>>

\* subscriptionWG.Wait(): returns at once on a zero counter, else blocks.  The
\* goroutine pool, waited for next, has no task: nothing in the plugin submits
\* one.
CleanupWait(s) ==
    /\ CleanupGoto(s, "wait", IF Active = {} THEN "consumers" ELSE "blocked")
    /\ UNCHANGED <<cmVars, regVars, pc, locVars, subVars, closing, lateDials>>

\* A waiter that was released panics if the group is already in use again.
CleanupWoken(s) ==
    /\ \/ /\ Active = {}
          /\ CleanupGoto(s, "woken", "consumers")
          /\ UNCHANGED crashed
       \/ /\ Active # {}
          /\ cpc[s] = "woken"
          /\ crashed' = "waitGroup"
          /\ UNCHANGED cpc
    /\ UNCHANGED <<amqpVars, connected, stopped, stopClosed, reconnect, connNotify,
                   wpc, wconn, backoff, fpc, spc, regVars, pc, locVars, subVars,
                   closing, lateDials>>

CleanupConsumers(s) ==
    /\ CleanupGoto(s, "consumers", "producers")
    /\ consumers' = [x \in Consumers |-> NoConn]
    /\ UNCHANGED <<cmVars, connection, producers, pc, locVars, subVars, closing, lateDials>>

CleanupProducers(s) ==
    /\ CleanupGoto(s, "producers", "conn")
    /\ producers' = [x \in Producers |-> NoConn]
    /\ UNCHANGED <<cmVars, connection, consumers, pc, locVars, subVars, closing, lateDials>>

\* The connection is closed and forgotten.  If Close reports an error, which it
\* does for a connection that has ended, cleanup returns it and keeps r.connection.
CleanupConnection(s) ==
    /\ CleanupGoto(s, "conn", "done")
    /\ IF IsOpen(connection) THEN CloseConn(connection) ELSE UNCHANGED amqpVars
    /\ connection' \in (IF IsOpen(connection) THEN {NoConn, connection} ELSE {connection})
    /\ UNCHANGED <<mgrVars, producers, consumers, pc, locVars, subVars, closing, lateDials>>

-----------------------------------------------------------------------------
(* The manager's goroutines, with the callback they call                   *)

clientVars == <<regVars, locVars, subVars, endVars, lateDials>>

\* The callback that p called has returned.
CallbackReturned(p) ==
    /\ newConn' = [newConn EXCEPT ![p] = NoConn]
    /\ UNCHANGED <<regVars, todo, cur, target, subVars, endVars, lateDials>>

WatcherBegins ==
    /\ CallReconnect
    /\ Step(Watcher, "idle", "dial")
    /\ UNCHANGED clientVars

WatcherReturns ==
    /\ \/ Step(Watcher, "ok", "idle") /\ ReconnectOk(newConn[Watcher])
       \/ Step(Watcher, "fail", "idle") /\ ReconnectFail
    /\ CallbackReturned(Watcher)

\* Steps of the watcher outside the callback.
WatcherAlone ==
    /\ \/ WatchNotified \/ WatchShut \/ WatchStopped \/ MarkDisconnected
       \/ Rewatch \/ BackoffElapsed
    /\ UNCHANGED <<pc, clientVars>>

ForcerBegins(f) ==
    /\ pc[Startup] = "ok"
    /\ ForceBegin(f)
    /\ Step(f, "idle", "dial")
    /\ UNCHANGED clientVars

ForcerReturns(f) ==
    /\ \/ ForceEnd(f, TRUE) /\ Step(f, "ok", "idle")
       \/ ForceEnd(f, FALSE) /\ Step(f, "fail", "idle")
    /\ CallbackReturned(f)

\* External: the broker or the network ends a connection.
Drop(c) ==
    /\ BrokerDrop(c)
    /\ UNCHANGED <<mgrVars, pc, clientVars>>

-----------------------------------------------------------------------------
(* The specification                                                       *)

BuilderStep(p) ==
    \/ (\E c \in Conns : DialOk(p, c)) \/ DialFail(p) \/ SetConnection(p)
    \/ DiscardProducers(p) \/ DiscardConsumers(p)
    \/ (\E x \in Producers \cup Consumers : OpenChannel(p, x))
    \/ OpenChannelPanics(p) \/ RegisterChannel(p)
    \/ ProducersDone(p) \/ ConsumersDone(p) \/ Snapshot(p)
    \/ (\E s \in Subs : PickSubscription(p, s) \/ SkipSubscription(p, s))
    \/ LoopsDone(p)

DispatchStep(p) ==
    \/ StartDispatchLoop(p)
    \/ \E l \in Loops : Consume(p, l)
    \/ BuildFails(p)

StartupStep == WireManager \/ StartManagers \/ FinishStartup \/ CheckHealth

WatcherRuns == WatcherBegins \/ WatcherReturns \/ WatcherAlone

\* What goroutine p does of its own accord once it has been started.
GoroutineStep(p) ==
    \/ p \in Builders /\ BuilderStep(p)
    \/ DispatchStep(p)
    \/ p = Startup /\ StartupStep
    \/ p = Watcher /\ WatcherRuns
    \/ p \in Forcers /\ ForcerReturns(p)
    \/ p \in Subs /\ RecordSubscription(p)

CleanupStep(s) ==
    \/ CleanupStop(s) \/ CleanupWait(s) \/ CleanupWoken(s)
    \/ CleanupConsumers(s) \/ CleanupProducers(s) \/ CleanupConnection(s)

LoopStep(l) == Receive(l) \/ Settle(l) \/ LoopReturns(l) \/ LoopRevoked(l)

\* What the application calls.
Calls ==
    \/ \E f \in Forcers : ForcerBegins(f)
    \/ \E s \in Subs : (\E x \in Consumers : Subscribe(s, x)) \/ CancelContext(s)
    \/ \E s \in Stoppers : CleanupSignal(s)

Next ==
    /\ crashed = "no"
    /\ \/ \E p \in Procs : GoroutineStep(p)
       \/ \E l \in Loops : LoopStep(l)
       \/ \E s \in Stoppers : CleanupStep(s)
       \/ Calls
       \/ \E c \in Conns : Drop(c)

\* Goroutines that can run do run; a dial ends within its timeout; a handler
\* returns (cleanup has no timeout of its own, so this is required of the
\* application).  The select of a dispatch goroutine chooses at random among
\* its ready cases, so a closed channel is not passed over for ever.  Nothing
\* obliges the broker to drop a connection or the application to call.
Fairness ==
    /\ \A p \in Procs : WF_vars(crashed = "no" /\ GoroutineStep(p))
    /\ \A l \in Loops : /\ WF_vars(crashed = "no" /\ Settle(l))
                        /\ SF_vars(crashed = "no" /\ LoopReturns(l))
    /\ \A s \in Stoppers : WF_vars(crashed = "no" /\ CleanupStep(s))

Safety == Init /\ [][Next]_vars
Spec == Safety /\ Fairness

-----------------------------------------------------------------------------
(* Properties                                                              *)

\* Cleanup has returned from subscriptionWG.Wait and is tearing channels and
\* connection down.
TearingDown(s) == cpc[s] \in {"consumers", "producers", "conn"}

\* Every dispatch goroutine that was counted by subscriptionWG before closeChan
\* was closed has ended, its last delivery settled, before cleanup closes a
\* channel or the connection.
EarlyLoopsDrained ==
    \A s \in Stoppers : TearingDown(s) => \A l \in Loops : ~loops[l].early

\* Whenever the manager reports a live connection, every producer and every
\* consumer channel in the registries belongs to r.connection: a reconnect
\* never ends with a channel of an older connection left behind.  ForceReconnect
\* is left out: it runs the same callback concurrently with the watcher.
RegistryIsCurrent ==
    Forcers = {} /\ connected /\ ~closing =>
        /\ connection # NoConn
        /\ \A x \in Producers : producers[x] = connection
        /\ \A x \in Consumers : consumers[x] = connection

\* Subscription s has a dispatch goroutine on r.connection.
Served(s) == \E l \in Loops : loops[l].sub = s /\ loops[l].conn = connection

\* Whenever the manager reports a live connection and it is open, every
\* Subscribe that returned without an error has a dispatch goroutine on it,
\* unless its context was cancelled or the broker closed its channel.
SubscriptionsServed ==
    Forcers = {} /\ connected /\ ~closing /\ IsOpen(connection) =>
        \A s \in Subs : pc[s] = "ok" => Served(s) \/ s \in cancelled \cup revoked

\* The connection the watcher waits on is r.connection, so that its loss is
\* noticed.  ForceReconnect is left out: what it dials is not watched.
MonitorsConnection ==
    Forcers = {} /\ ~closing /\ wpc \in {"rewatch", "watch"} => wconn = connection

\* However many attempts a rebuild takes, and although one that fails half-way
\* leaves its dispatch goroutines behind, no subscription is restarted twice on
\* the same connection, where its handler would run in two goroutines at once.
RestartedOnce ==
    \A k, l \in Loops :
        /\ Forcers = {} /\ k # l
        /\ loops[k].sub = loops[l].sub /\ loops[k].conn = loops[l].conn
        => loops[k] = NoLoop \/ loops[k].user \/ loops[l].user

\* After stopChan is closed the watcher dials at most once more: the call that
\* was already past the check at the head of its loop.
AtMostOneLateDial == lateDials <= 1

\* The client drives the manager only through its operations, in an order the
\* manager allows: its steps are steps of ConnectionManager.
ImplementsManager == CMSafety

\* A cleanup that has begun returns, or the process has crashed.
CleanupReturns ==
    \A s \in Stoppers : cpc[s] = "stop" ~> (cpc[s] = "done" \/ crashed # "no")

-----------------------------------------------------------------------------
(* What comments, documentation and tests of the plugin say and the code   *)
(* does not do; each is refuted by a run of its own.                       *)

\* cleanupWithContext on subscriptionWG.Wait: "so we never Ack/Nack on a channel
\* that is being torn down underneath them".
NoHandlerDuringTeardown ==
    \A s \in Stoppers : TearingDown(s) => \A l \in Loops : loops[l].pc # "handling"

\* watchConnection on a notify channel closed without an error: "plugin is
\* shutting down".
WatcherEndsOnlyOnShutdown == wpc = "exit" => closing

\* README on "Graceful Shutdown": a shutdown during a reconnect does not make
\* createProducer or createConsumer dereference the nil r.connection.
NoNilConnection == crashed # "nilConn"

\* RabbitMQClient on subscriptions: it "records active subscriptions so they can
\* be re-established after a reconnect".  A rebuild starts no dispatch goroutine
\* for a subscription whose context the application has cancelled.
RestartsOnlyActive ==
    [][\A l \in Loops :
          loops[l] = NoLoop /\ loops'[l] # NoLoop => loops'[l].sub \notin cancelled]_vars

=============================================================================
