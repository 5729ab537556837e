---------------------------- MODULE ClientProofs ----------------------------
(***************************************************************************)
(* Proofs about Client, for any number of connections, callers, names and  *)
(* dispatch goroutines.                                                    *)
(***************************************************************************)
EXTENDS Client, ConnectionManagerProofs

-----------------------------------------------------------------------------
(* The client drives the manager through its operations                    *)

\* Builder p holds the connection it has dialled.
Dialled(p) ==
    IF p = Startup
      THEN pc[p] \in {"set", "wire"}
      ELSE pc[p] \in {"set", "clear", "clearConsumers", "producers", "regProducer", "consumers",
                      "regConsumer", "snapshot", "loops", "open", "consume", "ok"}

\* What the locals hold in the control states that use them.
LocInv ==
    /\ \A p \in Builders : Dialled(p) => newConn[p] \in Conns
    /\ \A p \in Procs : pc[p] \in {"open", "consume"} => cur[p] \in Subs
    /\ \A s \in Subs : pc[s] = "record" => cur[s] \in Consumers
    /\ \A p \in Builders : pc[p] # "record"

\* Cleanup closes the connection only after it has stopped the manager.
StopFirst == \A s \in Stoppers : cpc[s] \notin {"idle", "stop"} => stopped

\* Every step of a builder is one of the environment of the manager, or leaves
\* the manager and the connections alone.
LEMMA BuilderImplements ==
    ASSUME NEW p \in Builders, BuilderStep(p), crashed = "no"
    PROVE  [CMNext]_cmVars
<1>1. CASE \E c \in Conns : DialOk(p, c)
  BY <1>1 DEF DialOk, CMNext, Environment
<1>2. CASE OpenChannelPanics(p)
  BY <1>2 DEF OpenChannelPanics, CMNext, Environment
<1>3. CASE \E x \in Producers \cup Consumers : OpenChannel(p, x)
  BY <1>3 DEF OpenChannel
<1>4. CASE DialFail(p) \/ SetConnection(p) \/ DiscardProducers(p) \/ DiscardConsumers(p)
           \/ RegisterChannel(p) \/ ProducersDone(p) \/ ConsumersDone(p) \/ Snapshot(p)
           \/ LoopsDone(p) \/ \E s \in Subs : PickSubscription(p, s) \/ SkipSubscription(p, s)
  BY <1>4 DEF DialFail, SetConnection, DiscardProducers, DiscardConsumers, RegisterChannel,
     ProducersDone, ConsumersDone, Snapshot, LoopsDone, PickSubscription, SkipSubscription
<1> QED
  BY <1>1, <1>2, <1>3, <1>4 DEF BuilderStep

\* A step of the client is a step of the manager, of its environment, or leaves
\* both alone: the client calls Start, Stop and the callback only where the manager
\* allows it, and closes a connection only after Stop.
LEMMA StepImplements ==
    TypeOK /\ LocInv /\ StopFirst /\ [Next]_vars => [CMNext]_cmVars
<1> SUFFICES ASSUME TypeOK, LocInv, StopFirst, Next PROVE [CMNext]_cmVars
  BY DEF vars
<1>0. crashed = "no"
  BY DEF Next
<1>1. ASSUME NEW p \in Procs, GoroutineStep(p) PROVE [CMNext]_cmVars
  <2>1. CASE p \in Builders /\ BuilderStep(p)
    BY <2>1, <1>0, BuilderImplements
  <2>2. CASE DispatchStep(p)
    BY <2>2 DEF DispatchStep, StartDispatchLoop, Consume, BuildFails
  <2>3. CASE StartupStep
    <3>1. CASE WireManager
      <4>1. newConn[Startup] \in Conns
        BY <3>1 DEF WireManager, Step, LocInv, Dialled, Builders
      <4> QED
        BY <1>0, <3>1, <4>1 DEF WireManager, CMNext
    <3>2. CASE StartManagers
      BY <1>0, <3>2 DEF StartManagers, CMNext
    <3>3. CASE FinishStartup \/ CheckHealth
      BY <3>3 DEF FinishStartup, CheckHealth
    <3> QED
      BY <2>3, <3>1, <3>2, <3>3 DEF StartupStep
  <2>4. CASE WatcherRuns
    <3>1. CASE WatcherBegins \/ WatcherAlone
      BY <1>0, <3>1 DEF WatcherBegins, WatcherAlone, CMNext, WatcherStep
    <3>2. CASE WatcherReturns
      <4>1. CASE Step(Watcher, "ok", "idle") /\ ReconnectOk(newConn[Watcher])
        <5>1. newConn[Watcher] \in Conns
          BY <4>1, ClientAssumption DEF ClientAssumption, Step, LocInv, Dialled, Builders
        <5> QED
          BY <1>0, <4>1, <5>1 DEF CMNext, WatcherStep
      <4>2. CASE ReconnectFail
        BY <1>0, <4>2 DEF CMNext, WatcherStep
      <4> QED
        BY <3>2, <4>1, <4>2 DEF WatcherReturns
    <3> QED
      BY <2>4, <3>1, <3>2 DEF WatcherRuns
  <2>5. CASE p \in Forcers /\ ForcerReturns(p)
    BY <1>0, <2>5 DEF ForcerReturns, CMNext, ForceReturn
  <2>6. CASE RecordSubscription(p)
    BY <2>6 DEF RecordSubscription
  <2> QED
    BY <1>1, <2>1, <2>2, <2>3, <2>4, <2>5, <2>6 DEF GoroutineStep
<1>2. ASSUME NEW l \in Loops, LoopStep(l) PROVE [CMNext]_cmVars
  BY <1>2 DEF LoopStep, Receive, Settle, LoopReturns, LoopRevoked
<1>3. ASSUME NEW s \in Stoppers, CleanupStep(s) PROVE [CMNext]_cmVars
  <2>1. CASE CleanupStop(s)
    BY <1>0, <2>1 DEF CleanupStop, CMNext, StopStep
  <2>2. CASE CleanupWoken(s)
    BY <1>0, <2>2 DEF CleanupWoken, CMNext, Environment, cmVars, mgrVars
  <2>3. CASE CleanupConnection(s)
    <3>1. stopped
      BY <2>3 DEF CleanupConnection, CleanupGoto, StopFirst
    <3>2. CASE IsOpen(connection)
      BY <1>0, <2>3, <3>1, <3>2 DEF CleanupConnection, CMNext, Environment, TypeOK, RegTypeOK, IsOpen
    <3>3. CASE ~IsOpen(connection)
      BY <2>3, <3>3 DEF CleanupConnection, cmVars
    <3> QED
      BY <3>2, <3>3
  <2>4. CASE CleanupWait(s) \/ CleanupConsumers(s) \/ CleanupProducers(s)
    BY <2>4 DEF CleanupWait, CleanupConsumers, CleanupProducers
  <2> QED
    BY <1>3, <2>1, <2>2, <2>3, <2>4 DEF CleanupStep
<1>4. CASE Calls
  <2>1. ASSUME NEW f \in Forcers, ForcerBegins(f) PROVE [CMNext]_cmVars
    BY <1>0, <2>1 DEF ForcerBegins, CMNext
  <2> QED
    BY <1>4, <2>1 DEF Calls, Subscribe, CancelContext, CleanupSignal
<1>5. ASSUME NEW c \in Conns, Drop(c) PROVE [CMNext]_cmVars
  BY <1>0, <1>5 DEF Drop, CMNext, Environment
<1> QED
  BY <1>1, <1>2, <1>3, <1>4, <1>5 DEF Next

-----------------------------------------------------------------------------
(* Type correctness                                                        *)

\* The registries hold channels of dialled connections, or nothing.
LEMMA RegTypePreserved == TypeOK /\ LocInv /\ [Next]_vars => RegTypeOK'
<1> USE DEF RegTypeOK, LocTypeOK, regVars, clientVars
<1> SUFFICES ASSUME RegTypeOK, LocTypeOK, LocInv, [Next]_vars PROVE RegTypeOK'
  BY DEF TypeOK
<1>1. CASE UNCHANGED regVars
  BY <1>1
<1>2. ASSUME NEW p \in Builders, BuilderStep(p) PROVE RegTypeOK'
  <2>1. CASE SetConnection(p)
    BY <2>1 DEF SetConnection
  <2>2. CASE DiscardProducers(p) \/ DiscardConsumers(p)
    BY <2>2 DEF DiscardProducers, DiscardConsumers
  <2>3. CASE RegisterChannel(p)
    BY <2>3 DEF RegisterChannel, Builders, Procs
  <2> QED
    BY <1>2, <2>1, <2>2, <2>3 DEF BuilderStep, DialOk, DialFail, OpenChannel, OpenChannelPanics,
       ProducersDone, ConsumersDone, Snapshot, LoopsDone,
       PickSubscription, SkipSubscription
<1>3. ASSUME NEW p \in Procs, DispatchStep(p) \/ StartupStep \/ WatcherRuns
             \/ ForcerReturns(p) \/ RecordSubscription(p)
      PROVE RegTypeOK'
  BY <1>3 DEF DispatchStep, StartDispatchLoop, Consume, BuildFails,
     StartupStep, WireManager, StartManagers, FinishStartup, CheckHealth, WatcherRuns, WatcherBegins,
     WatcherReturns, WatcherAlone, CallbackReturned, ForcerReturns, RecordSubscription
<1>4. ASSUME NEW l \in Loops, LoopStep(l) PROVE RegTypeOK'
  BY <1>4 DEF LoopStep, Receive, Settle, LoopReturns, LoopRevoked
<1>5. ASSUME NEW s \in Stoppers, CleanupStep(s) PROVE RegTypeOK'
  BY <1>5 DEF CleanupStep, CleanupStop, CleanupWait, CleanupWoken, CleanupConsumers,
     CleanupProducers, CleanupConnection
<1>6. CASE Calls
  BY <1>6 DEF Calls, ForcerBegins, Subscribe, CancelContext, CleanupSignal
<1>7. ASSUME NEW c \in Conns, Drop(c) PROVE RegTypeOK'
  BY <1>7 DEF Drop
<1>8. CASE UNCHANGED vars
  BY <1>8 DEF vars
<1> QED
  BY <1>2, <1>3, <1>4, <1>5, <1>6, <1>7, <1>8 DEF Next, GoroutineStep

\* The subscriptions and the dispatch goroutines.
LEMMA SubTypePreserved == TypeOK /\ LocInv /\ [Next]_vars => SubTypeOK'
<1> USE DEF SubTypeOK, LocTypeOK, Goroutine, NoLoop, subVars, clientVars
<1> SUFFICES ASSUME SubTypeOK, LocTypeOK, LocInv, [Next]_vars PROVE SubTypeOK'
  BY DEF TypeOK
<1>1. CASE UNCHANGED subVars
  BY <1>1
<1>2. ASSUME NEW p \in Builders, BuilderStep(p) PROVE SubTypeOK'
  BY <1>2, <1>1 DEF BuilderStep, DialOk, DialFail, SetConnection, DiscardProducers, DiscardConsumers, OpenChannel,
     OpenChannelPanics, RegisterChannel, ProducersDone, ConsumersDone, Snapshot, LoopsDone,
       PickSubscription, SkipSubscription
<1>3. ASSUME NEW p \in Procs, DispatchStep(p) PROVE SubTypeOK'
  <2>1. ASSUME NEW l \in Loops, Consume(p, l) PROVE SubTypeOK'
    <3>1. cur[p] \in Subs /\ target[p] \in Conns
      BY <2>1 DEF Consume, Step, LocInv, IsOpen
    <3> HIDE DEF SubTypeOK, LocTypeOK
    <3>2. [pc |-> "select", sub |-> cur[p], conn |-> target[p], early |-> ~closing,
           user |-> p \in Subs] \in Goroutine
      BY <3>1, SMTT(30)
    <3> HIDE DEF Goroutine, NoLoop
    <3> USE DEF SubTypeOK
    <3> QED
      BY <2>1, <3>2 DEF Consume
  <2> QED
    BY <1>3, <2>1, <1>1 DEF DispatchStep, StartDispatchLoop, BuildFails
<1>4. CASE StartupStep \/ WatcherRuns
  BY <1>4, <1>1 DEF StartupStep, WireManager, StartManagers, FinishStartup, CheckHealth, WatcherRuns,
     WatcherBegins, WatcherReturns, WatcherAlone, CallbackReturned
<1>5. ASSUME NEW f \in Forcers, ForcerReturns(f) PROVE SubTypeOK'
  BY <1>5, <1>1 DEF ForcerReturns, CallbackReturned
<1>6. ASSUME NEW s \in Subs, RecordSubscription(s) PROVE SubTypeOK'
  BY <1>6 DEF RecordSubscription, Step, LocInv
<1>7. ASSUME NEW l \in Loops, LoopStep(l) PROVE SubTypeOK'
  <2>0. loops[l].pc # "none" => loops[l] \in Goroutine
    <3>1. NoLoop.pc = "none"
      OBVIOUS
    <3> HIDE DEF Goroutine, NoLoop, LocTypeOK
    <3> QED
      BY <3>1
  <2>1. CASE Receive(l) \/ Settle(l)
    <3>1. PICK to \in {"select", "handling"} : loops' = [loops EXCEPT ![l].pc = to]
      BY <2>1 DEF Receive, Settle
    <3>2. loops[l] \in Goroutine
      BY <2>0, <2>1 DEF Receive, Settle
    <3> QED
      BY <2>1, <3>1, <3>2 DEF Receive, Settle
  <2>2. CASE LoopReturns(l)
    BY <2>2 DEF LoopReturns, EndLoop
  <2>3. CASE LoopRevoked(l)
    <3>1. loops[l] \in Goroutine
      BY <2>0, <2>3 DEF LoopRevoked, EndLoop
    <3>2. loops[l].sub \in Subs
      BY <3>1
    <3> HIDE DEF Goroutine, NoLoop, LocTypeOK
    <3> QED
      BY <2>3, <3>2 DEF LoopRevoked, EndLoop
  <2> QED
    BY <1>7, <2>1, <2>2, <2>3 DEF LoopStep
<1>8. ASSUME NEW s \in Stoppers, CleanupStep(s) PROVE SubTypeOK'
  BY <1>8, <1>1 DEF CleanupStep, CleanupStop, CleanupWait, CleanupWoken, CleanupConsumers,
     CleanupProducers, CleanupConnection
<1>9. CASE Calls
  <2>1. ASSUME NEW s \in Subs, CancelContext(s) PROVE SubTypeOK'
    BY <2>1 DEF CancelContext
  <2> QED
    BY <1>9, <2>1, <1>1 DEF Calls, ForcerBegins, Subscribe, CleanupSignal
<1>10. ASSUME NEW c \in Conns, Drop(c) PROVE SubTypeOK'
  BY <1>10, <1>1 DEF Drop
<1>11. CASE UNCHANGED vars
  BY <1>11, <1>1 DEF vars
<1> QED
  BY <1>2, <1>3, <1>4, <1>5, <1>6, <1>7, <1>8, <1>9, <1>10, <1>11 DEF Next, GoroutineStep

\* Control states and locals of the goroutines that run client code.
LEMMA LocPreserved == TypeOK /\ LocInv /\ [Next]_vars => LocTypeOK' /\ LocInv'
<1> USE ClientAssumption DEF ClientAssumption, Builders, Procs, Names, RegTypeOK, LocTypeOK,
        SubTypeOK, LocInv, Dialled, Step, locVars, clientVars
<1> SUFFICES ASSUME RegTypeOK, LocTypeOK, SubTypeOK, LocInv, [Next]_vars
             PROVE  LocTypeOK' /\ LocInv'
  BY DEF TypeOK
<1>1. CASE UNCHANGED <<pc, locVars>>
  BY <1>1
<1>2. ASSUME NEW p \in Builders, BuilderStep(p) PROVE LocTypeOK' /\ LocInv'
  <2>1. ASSUME NEW c \in Conns, DialOk(p, c) PROVE LocTypeOK' /\ LocInv'
    BY <2>1 DEF DialOk
  <2>2. CASE DialFail(p)
    BY <2>2 DEF DialFail
  <2>3. CASE SetConnection(p)
    BY <2>3 DEF SetConnection
  <2>4. CASE DiscardProducers(p)
    BY <2>4 DEF DiscardProducers
  <2>13. CASE DiscardConsumers(p)
    BY <2>13 DEF DiscardConsumers
  <2>5. ASSUME NEW x \in Producers \cup Consumers, OpenChannel(p, x)
        PROVE LocTypeOK' /\ LocInv'
    <3>1. PICK to \in {"regProducer", "regConsumer"} : pc' = [pc EXCEPT ![p] = to]
      BY <2>5 DEF OpenChannel
    <3>2. pc[p] \in {"producers", "consumers"} /\ UNCHANGED newConn
      BY <2>5 DEF OpenChannel
    <3>3. /\ target' = [target EXCEPT ![p] = connection]
          /\ cur' = [cur EXCEPT ![p] = x]
          /\ todo' = [todo EXCEPT ![p] = @ \ {x}]
      BY <2>5 DEF OpenChannel
    <3> QED
      BY <3>1, <3>2, <3>3
  <2>6. CASE OpenChannelPanics(p)
    BY <2>6, <1>1 DEF OpenChannelPanics
  <2>7. CASE RegisterChannel(p)
    <3>1. PICK to \in {"producers", "consumers"} : pc' = [pc EXCEPT ![p] = to]
      BY <2>7 DEF RegisterChannel
    <3>2. pc[p] \in {"regProducer", "regConsumer"} /\ UNCHANGED <<newConn, todo>>
      BY <2>7 DEF RegisterChannel
    <3>3. DropBody(p)
      BY <2>7 DEF RegisterChannel
    <3> QED
      BY <3>1, <3>2, <3>3 DEF DropBody
  <2>8. CASE ProducersDone(p)
    BY <2>8 DEF ProducersDone
  <2>9. CASE ConsumersDone(p)
    BY <2>9 DEF ConsumersDone
  <2>10. CASE Snapshot(p)
    BY <2>10 DEF Snapshot
  <2>11. ASSUME NEW s \in Subs, PickSubscription(p, s) PROVE LocTypeOK' /\ LocInv'
    BY <2>11 DEF PickSubscription
  <2>14. ASSUME NEW s \in Subs, SkipSubscription(p, s) PROVE LocTypeOK' /\ LocInv'
    BY <2>14 DEF SkipSubscription
  <2>12. CASE LoopsDone(p)
    BY <2>12 DEF LoopsDone
  <2> QED
    BY <1>2, <2>1, <2>2, <2>3, <2>4, <2>5, <2>6, <2>7, <2>8, <2>9, <2>10, <2>11, <2>12,
       <2>13, <2>14 DEF BuilderStep
<1>3. ASSUME NEW p \in Procs, DispatchStep(p) PROVE LocTypeOK' /\ LocInv'
  <2>1. CASE StartDispatchLoop(p)
    BY <2>1 DEF StartDispatchLoop
  <2>2. ASSUME NEW l \in Loops, Consume(p, l) PROVE LocTypeOK' /\ LocInv'
    BY <2>2 DEF Consume, DropBody
  <2>3. CASE BuildFails(p)
    BY <2>3 DEF BuildFails, DropBody
  <2> QED
    BY <1>3, <2>1, <2>2, <2>3 DEF DispatchStep
<1>4. CASE StartupStep
  <2>1. CASE WireManager
    BY <2>1 DEF WireManager
  <2>2. CASE StartManagers
    BY <2>2 DEF StartManagers
  <2>3. CASE FinishStartup \/ CheckHealth
    <3>1. PICK to \in {"health", "ok", "fail"} : pc' = [pc EXCEPT ![Startup] = to]
      BY <2>3 DEF FinishStartup, CheckHealth
    <3>2. UNCHANGED locVars
      BY <2>3 DEF FinishStartup, CheckHealth
    <3> QED
      BY <3>1, <3>2
  <2> QED
    BY <1>4, <2>1, <2>2, <2>3 DEF StartupStep
<1>5. CASE WatcherRuns
  <2>1. CASE WatcherBegins
    BY <2>1 DEF WatcherBegins
  <2>2. CASE WatcherReturns
    <3>1. pc' = [pc EXCEPT ![Watcher] = "idle"] /\ CallbackReturned(Watcher)
      BY <2>2 DEF WatcherReturns
    <3> QED
      BY <3>1 DEF CallbackReturned
  <2>3. CASE WatcherAlone
    BY <2>3, <1>1 DEF WatcherAlone
  <2> QED
    BY <1>5, <2>1, <2>2, <2>3 DEF WatcherRuns
<1>6. ASSUME NEW f \in Forcers, ForcerReturns(f) \/ ForcerBegins(f)
      PROVE LocTypeOK' /\ LocInv'
  <2>1. CASE ForcerReturns(f)
    <3>1. pc' = [pc EXCEPT ![f] = "idle"] /\ CallbackReturned(f)
      BY <2>1 DEF ForcerReturns
    <3> QED
      BY <3>1 DEF CallbackReturned
  <2>2. CASE ForcerBegins(f)
    BY <2>2 DEF ForcerBegins
  <2> QED
    BY <1>6, <2>1, <2>2
<1>7. ASSUME NEW s \in Subs, RecordSubscription(s) PROVE LocTypeOK' /\ LocInv'
  BY <1>7 DEF RecordSubscription, DropBody
<1>8. ASSUME NEW s \in Subs, NEW x \in Consumers, Subscribe(s, x) PROVE LocTypeOK' /\ LocInv'
  BY <1>8 DEF Subscribe
<1>9. ASSUME NEW l \in Loops, LoopStep(l) PROVE LocTypeOK' /\ LocInv'
  BY <1>9, <1>1 DEF LoopStep, Receive, Settle, LoopReturns, LoopRevoked
<1>10. ASSUME NEW s \in Stoppers, CleanupStep(s) \/ CleanupSignal(s) PROVE LocTypeOK' /\ LocInv'
  BY <1>10, <1>1 DEF CleanupStep, CleanupStop, CleanupWait, CleanupWoken, CleanupConsumers,
     CleanupProducers, CleanupConnection, CleanupSignal
<1>11. ASSUME NEW s \in Subs, CancelContext(s) PROVE LocTypeOK' /\ LocInv'
  BY <1>11, <1>1 DEF CancelContext
<1>12. ASSUME NEW c \in Conns, Drop(c) PROVE LocTypeOK' /\ LocInv'
  BY <1>12, <1>1 DEF Drop
<1>13. CASE UNCHANGED vars
  BY <1>13, <1>1 DEF vars
<1> QED
  BY <1>2, <1>3, <1>4, <1>5, <1>6, <1>7, <1>8, <1>9, <1>10, <1>11, <1>12, <1>13
     DEF Next, GoroutineStep, Calls

\* Control state of the cleanup calls, which stop the manager first.
LEMMA EndPreserved == TypeOK /\ StopFirst /\ [Next]_vars => EndTypeOK' /\ StopFirst'
<1> SUFFICES ASSUME TypeOK, EndTypeOK, stopped \in BOOLEAN, StopFirst, [Next]_vars
             PROVE  EndTypeOK' /\ StopFirst'
  BY DEF TypeOK, CMTypeOK
<1> USE DEF EndTypeOK, StopFirst, endVars, clientVars, cmVars, mgrVars
<1>1. CASE UNCHANGED <<endVars, lateDials, stopped>>
  BY <1>1
<1>2. ASSUME NEW p \in Procs, GoroutineStep(p) PROVE EndTypeOK' /\ StopFirst'
  <2>1. ASSUME NEW c \in Conns, DialOk(p, c) PROVE EndTypeOK' /\ StopFirst'
    BY <2>1 DEF DialOk, CountDial
  <2>2. CASE DialFail(p)
    BY <2>2 DEF DialFail, CountDial
  <2>3. ASSUME BuilderStep(p), ~DialFail(p), \A c \in Conns : ~DialOk(p, c)
        PROVE  UNCHANGED <<endVars, lateDials, stopped>>
    BY <2>3 DEF BuilderStep, SetConnection, DiscardProducers, DiscardConsumers, OpenChannel, OpenChannelPanics,
       RegisterChannel, ProducersDone, ConsumersDone, Snapshot, LoopsDone,
       PickSubscription, SkipSubscription
  <2>4. CASE DispatchStep(p)
    BY <2>4, <1>1 DEF DispatchStep, StartDispatchLoop, Consume, BuildFails
  <2>5. CASE StartupStep
    BY <2>5, <1>1 DEF StartupStep, WireManager, StartManagers, FinishStartup, CheckHealth, Wire, Start
  <2>6. CASE WatcherRuns
    BY <2>6, <1>1 DEF WatcherRuns, WatcherBegins, WatcherReturns, WatcherAlone,
       CallbackReturned, CallReconnect, ReconnectOk, ReconnectFail, WatchNotified, WatchShut,
       WatchStopped, MarkDisconnected, Rewatch, BackoffElapsed, Goto
  <2>7. CASE ForcerReturns(p)
    BY <2>7, <1>1 DEF ForcerReturns, ForceEnd, CallbackReturned
  <2>8. CASE RecordSubscription(p)
    BY <2>8, <1>1 DEF RecordSubscription
  <2> QED
    BY <1>2, <1>1, <2>1, <2>2, <2>3, <2>4, <2>5, <2>6, <2>7, <2>8 DEF GoroutineStep
<1>3. ASSUME NEW l \in Loops, LoopStep(l) PROVE EndTypeOK' /\ StopFirst'
  <2>1. CASE Receive(l) \/ Settle(l)
    BY <2>1, <1>1 DEF Receive, Settle
  <2>2. CASE LoopReturns(l) \/ LoopRevoked(l)
    BY <2>2 DEF LoopReturns, LoopRevoked, EndLoop
  <2> QED
    BY <1>3, <2>1, <2>2 DEF LoopStep
<1>4. ASSUME NEW s \in Stoppers, CleanupStep(s) PROVE EndTypeOK' /\ StopFirst'
  <2> USE DEF CleanupGoto
  <2>1. CASE CleanupStop(s)
    BY <2>1 DEF CleanupStop, StopLock, StopCheck, StopClose
  <2>2. CASE CleanupWait(s)
    BY <2>2 DEF CleanupWait
  <2>3. CASE CleanupWoken(s)
    BY <2>3 DEF CleanupWoken
  <2>4. CASE CleanupConsumers(s) \/ CleanupProducers(s) \/ CleanupConnection(s)
    BY <2>4 DEF CleanupConsumers, CleanupProducers, CleanupConnection
  <2> QED
    BY <1>4, <2>1, <2>2, <2>3, <2>4 DEF CleanupStep
<1>5. CASE Calls
  <2>1. ASSUME NEW s \in Stoppers, CleanupSignal(s) PROVE EndTypeOK' /\ StopFirst'
    BY <2>1 DEF CleanupSignal, CleanupGoto
  <2>2. ASSUME NEW f \in Forcers, ForcerBegins(f) PROVE EndTypeOK' /\ StopFirst'
    BY <2>2, <1>1 DEF ForcerBegins, ForceBegin
  <2>3. ASSUME NEW s \in Subs, (\E x \in Consumers : Subscribe(s, x)) \/ CancelContext(s)
        PROVE EndTypeOK' /\ StopFirst'
    BY <2>3, <1>1 DEF Subscribe, CancelContext
  <2> QED
    BY <1>5, <2>1, <2>2, <2>3 DEF Calls
<1>6. ASSUME NEW c \in Conns, Drop(c) PROVE EndTypeOK' /\ StopFirst'
  BY <1>6, <1>1 DEF Drop
<1>7. CASE UNCHANGED vars
  BY <1>7, <1>1 DEF vars
<1> QED
  BY <1>2, <1>3, <1>4, <1>5, <1>6, <1>7 DEF Next

-----------------------------------------------------------------------------
(* Handlers are drained before the teardown                                *)

\* A cleanup that has begun has closed closeChan.
DrainInv ==
    /\ \A s \in Stoppers : cpc[s] # "idle" => closing
    /\ EarlyLoopsDrained

\* Everything in DrainInv depends on these three variables only.
drainVars == <<loops, cpc, closing>>

\* The steps of the goroutines that build channels and loops leave them alone,
\* except for Consume, which starts a dispatch goroutine.
LEMMA GoroutineDrain ==
    ASSUME NEW p \in Procs, GoroutineStep(p)
    PROVE  UNCHANGED drainVars \/ \E l \in Loops : Consume(p, l)
<1> USE DEF drainVars, subVars, endVars, clientVars
<1>1. CASE p \in Builders /\ BuilderStep(p)
  BY <1>1 DEF BuilderStep, DialOk, DialFail, SetConnection, DiscardProducers, DiscardConsumers, OpenChannel,
     OpenChannelPanics, RegisterChannel, ProducersDone, ConsumersDone, Snapshot, LoopsDone,
       PickSubscription, SkipSubscription
<1>2. CASE DispatchStep(p)
  BY <1>2 DEF DispatchStep, StartDispatchLoop, BuildFails
<1>3. CASE StartupStep
  BY <1>3 DEF StartupStep, WireManager, StartManagers, FinishStartup, CheckHealth
<1>4. CASE WatcherRuns
  BY <1>4 DEF WatcherRuns, WatcherBegins, WatcherReturns, WatcherAlone, CallbackReturned
<1>5. CASE ForcerReturns(p)
  BY <1>5 DEF ForcerReturns, CallbackReturned
<1>6. CASE RecordSubscription(p)
  BY <1>6 DEF RecordSubscription
<1> QED
  BY <1>1, <1>2, <1>3, <1>4, <1>5, <1>6 DEF GoroutineStep

\* subscriptionWG.Wait lets a cleanup through only when no goroutine is counted, and
\* goroutines started afterwards are not early ones.
LEMMA DrainInvPreserved == TypeOK /\ DrainInv /\ [Next]_vars => DrainInv'
<1> USE DEF DrainInv, EarlyLoopsDrained, TearingDown, SubTypeOK, EndTypeOK,
         Goroutine, NoLoop
<1> SUFFICES ASSUME SubTypeOK, EndTypeOK, DrainInv, [Next]_vars PROVE DrainInv'
  BY DEF TypeOK
<1>1. CASE UNCHANGED drainVars
  BY <1>1 DEF drainVars
<1>2. ASSUME NEW p \in Procs, NEW l \in Loops, Consume(p, l) PROVE DrainInv'
  BY <1>2 DEF Consume, endVars
<1>3. ASSUME NEW l \in Loops, LoopStep(l) PROVE DrainInv'
  <2>1. CASE Receive(l) \/ Settle(l)
    BY <2>1 DEF Receive, Settle, endVars
  <2>2. CASE EndLoop(l) /\ UNCHANGED closing
    BY <2>2 DEF EndLoop
  <2> QED
    BY <1>3, <2>1, <2>2 DEF LoopStep, LoopReturns, LoopRevoked
<1>4. ASSUME NEW s \in Stoppers, CleanupSignal(s) PROVE DrainInv'
  BY <1>4 DEF CleanupSignal, CleanupGoto, subVars
<1>5. ASSUME NEW s \in Stoppers, CleanupStep(s) PROVE DrainInv'
  <2> USE DEF CleanupGoto, subVars
  <2>0. Active = {} => \A l \in Loops : ~loops[l].early
    <3>1. ASSUME NEW l \in Loops, loops[l].pc = "none" PROVE loops[l] = NoLoop
      BY <3>1
    <3>2. ~NoLoop.early
      OBVIOUS
    <3>3. ASSUME Active = {}, NEW l \in Loops PROVE loops[l].pc = "none"
      BY <3>3 DEF Active
    <3> HIDE DEF SubTypeOK, Goroutine, NoLoop, DrainInv, EndTypeOK
    <3> QED
      BY <3>1, <3>2, <3>3
  <2> HIDE DEF SubTypeOK, Goroutine, NoLoop
  <2>1. CASE CleanupStop(s)
    BY <2>1 DEF CleanupStop
  <2>2. CASE CleanupWait(s)
    <3>1. loops' = loops /\ closing' = closing
      BY <2>2 DEF CleanupWait
    <3>2. cpc' = [cpc EXCEPT ![s] = IF Active = {} THEN "consumers" ELSE "blocked"]
          /\ cpc[s] = "wait"
      BY <2>2 DEF CleanupWait
    <3> QED
      BY <2>0, <3>1, <3>2
  <2>3. CASE CleanupWoken(s)
    <3>1. loops' = loops /\ closing' = closing
      BY <2>3 DEF CleanupWoken
    <3>2. UNCHANGED cpc
          \/ (Active = {} /\ cpc[s] = "woken" /\ cpc' = [cpc EXCEPT ![s] = "consumers"])
      BY <2>3 DEF CleanupWoken
    <3> QED
      BY <2>0, <3>1, <3>2
  <2>4. CASE CleanupConsumers(s) \/ CleanupProducers(s) \/ CleanupConnection(s)
    BY <2>4 DEF CleanupConsumers, CleanupProducers, CleanupConnection
  <2> QED
    BY <1>5, <2>1, <2>2, <2>3, <2>4 DEF CleanupStep
<1>6. ASSUME NEW f \in Forcers, ForcerBegins(f) PROVE DrainInv'
  BY <1>6, <1>1 DEF ForcerBegins, clientVars, subVars, endVars, drainVars
<1>7. ASSUME NEW s \in Subs, NEW x \in Consumers, Subscribe(s, x) \/ CancelContext(s)
      PROVE DrainInv'
  BY <1>7, <1>1 DEF Subscribe, CancelContext, subVars, endVars, drainVars
<1>8. ASSUME NEW c \in Conns, Drop(c) PROVE DrainInv'
  BY <1>8, <1>1 DEF Drop, clientVars, subVars, endVars, drainVars
<1>9. ASSUME NEW s \in Subs, CancelContext(s) PROVE DrainInv'
  BY <1>9, <1>1 DEF CancelContext, subVars, endVars, drainVars
<1>10. CASE UNCHANGED vars
  BY <1>10, <1>1 DEF vars, subVars, endVars, drainVars
<1> QED
  BY <1>1, <1>2, <1>3, <1>4, <1>5, <1>6, <1>7, <1>8, <1>9, <1>10, GoroutineDrain DEF Next, Calls

-----------------------------------------------------------------------------
(* Dials after the shutdown                                                *)

\* Only a dial that the watcher began before stopChan was closed can be late, and
\* it is counted when it ends.
DialInv ==
    /\ lateDials = 0 \/ (lateDials = 1 /\ stopClosed /\ pc[Watcher] # "dial")

\* The watcher enters the callback only with stopChan open, and nothing opens it
\* again.
LEMMA DialInvPreserved == TypeOK /\ DialInv /\ [Next]_vars => DialInv'
<1> USE ClientAssumption DEF ClientAssumption, Builders, Procs, DialInv, Step
<1> SUFFICES ASSUME LocTypeOK, stopClosed \in BOOLEAN, DialInv, [Next]_vars PROVE DialInv'
  BY DEF TypeOK, CMTypeOK
<1> USE DEF LocTypeOK, cmVars, mgrVars, clientVars
<1>1. CASE UNCHANGED <<lateDials, stopClosed, pc>>
  BY <1>1
<1>2. ASSUME NEW p \in Procs, NEW to, pc' = [pc EXCEPT ![p] = to], to # "dial",
             UNCHANGED <<lateDials, stopClosed>>
      PROVE  DialInv'
  BY <1>2
<1>3. ASSUME NEW p \in Builders, BuilderStep(p) PROVE DialInv'
  <2>1. ASSUME NEW c \in Conns, DialOk(p, c) PROVE DialInv'
    BY <2>1 DEF DialOk, CountDial
  <2>2. CASE DialFail(p)
    BY <2>2 DEF DialFail, CountDial
  <2>3. CASE OpenChannelPanics(p)
    BY <2>3, <1>1 DEF OpenChannelPanics
  <2>4. CASE SetConnection(p) \/ DiscardProducers(p) \/ DiscardConsumers(p)
    BY <2>4, <1>2 DEF SetConnection, DiscardProducers, DiscardConsumers
  <2>5. CASE \E x \in Producers \cup Consumers : OpenChannel(p, x)
    BY <2>5, <1>2 DEF OpenChannel
  <2>6. CASE RegisterChannel(p)
    BY <2>6, <1>2 DEF RegisterChannel
  <2>7. CASE ProducersDone(p) \/ ConsumersDone(p) \/ Snapshot(p) \/ LoopsDone(p)
    BY <2>7, <1>2 DEF ProducersDone, ConsumersDone, Snapshot, LoopsDone
  <2>8. ASSUME NEW s \in Subs, PickSubscription(p, s) \/ SkipSubscription(p, s) PROVE DialInv'
    BY <2>8, <1>1, <1>2 DEF PickSubscription, SkipSubscription
  <2> QED
    BY <1>3, <2>1, <2>2, <2>3, <2>4, <2>5, <2>6, <2>7, <2>8 DEF BuilderStep
<1>4. ASSUME NEW p \in Procs, DispatchStep(p) PROVE DialInv'
  BY <1>4, <1>2 DEF DispatchStep, StartDispatchLoop, Consume, BuildFails
<1>5. CASE StartupStep
  BY <1>5, <1>2 DEF StartupStep, WireManager, StartManagers, FinishStartup, CheckHealth, Wire, Start
<1>6. CASE WatcherRuns
  <2>1. CASE WatcherBegins
    BY <2>1 DEF WatcherBegins, CallReconnect, Goto
  <2>2. CASE WatcherReturns
    BY <2>2, <1>2 DEF WatcherReturns, CallbackReturned, ReconnectOk, ReconnectFail, Goto
  <2>3. CASE WatcherAlone
    BY <2>3, <1>1 DEF WatcherAlone, WatchNotified, WatchShut, WatchStopped, MarkDisconnected,
       Rewatch, BackoffElapsed, Goto
  <2> QED
    BY <1>6, <2>1, <2>2, <2>3 DEF WatcherRuns
<1>7. ASSUME NEW f \in Forcers, ForcerReturns(f) PROVE DialInv'
  BY <1>7, <1>2 DEF ForcerReturns, ForceEnd, CallbackReturned
<1>8. ASSUME NEW f \in Forcers, ForcerBegins(f) PROVE DialInv'
  BY <1>8 DEF ForcerBegins, ForceBegin
<1>9. ASSUME NEW s \in Subs, RecordSubscription(s) PROVE DialInv'
  BY <1>9, <1>2 DEF RecordSubscription
<1>10. ASSUME NEW s \in Subs, (\E x \in Consumers : Subscribe(s, x)) \/ CancelContext(s)
       PROVE DialInv'
  BY <1>10, <1>1, <1>2 DEF Subscribe, CancelContext
<1>11. ASSUME NEW l \in Loops, LoopStep(l) PROVE DialInv'
  BY <1>11, <1>1 DEF LoopStep, Receive, Settle, LoopReturns, LoopRevoked
<1>12. ASSUME NEW s \in Stoppers, CleanupStep(s) \/ CleanupSignal(s) PROVE DialInv'
  <2>1. CASE CleanupStop(s)
    BY <2>1 DEF CleanupStop, StopLock, StopCheck, StopClose
  <2> QED
    BY <1>12, <2>1, <1>1 DEF CleanupStep, CleanupSignal, CleanupWait, CleanupWoken,
       CleanupConsumers, CleanupProducers, CleanupConnection
<1>13. ASSUME NEW c \in Conns, Drop(c) PROVE DialInv'
  BY <1>13, <1>1 DEF Drop
<1>14. CASE UNCHANGED vars
  BY <1>14, <1>1 DEF vars
<1> QED
  BY <1>3, <1>4, <1>5, <1>6, <1>7, <1>8, <1>9, <1>10, <1>11, <1>12, <1>13, <1>14
     DEF Next, GoroutineStep, Calls

-----------------------------------------------------------------------------
(* The theorems                                                            *)

ClientInv == TypeOK /\ LocInv /\ StopFirst /\ DrainInv /\ DialInv

\* The conjunction is an invariant of the client.
THEOREM ClientInvariant == Safety => []ClientInv
<1>1. Init => ClientInv
  <2> SUFFICES ASSUME Init PROVE ClientInv
    OBVIOUS
  <2>1. CMTypeOK
    BY CMInitInv DEF Init, CMInv
  <2>2. RegTypeOK /\ SubTypeOK
    BY DEF Init, RegTypeOK, SubTypeOK
  <2>3. EndTypeOK /\ StopFirst
    BY DEF Init, EndTypeOK, StopFirst
  <2>4. LocTypeOK /\ LocInv
    BY ClientAssumption DEF ClientAssumption, Init, LocTypeOK, LocInv, Dialled, Builders, Procs, Names
  <2>5. DrainInv
    BY DEF Init, DrainInv, EarlyLoopsDrained, TearingDown
  <2>6. DialInv
    BY DEF Init, DialInv
  <2> QED
    BY <2>1, <2>2, <2>3, <2>4, <2>5, <2>6 DEF ClientInv, TypeOK
<1>2. ClientInv /\ [Next]_vars => ClientInv'
  <2> SUFFICES ASSUME ClientInv, [Next]_vars PROVE ClientInv'
    OBVIOUS
  <2>1. CMTypeOK'
    BY StepImplements, CMTypeCorrect DEF ClientInv, TypeOK
  <2> QED
    BY <2>1, RegTypePreserved, SubTypePreserved, LocPreserved, EndPreserved, DrainInvPreserved,
       DialInvPreserved DEF ClientInv, TypeOK
<1> QED
  BY <1>1, <1>2, PTL DEF Safety

\* Every variable of the client, locals of its goroutines included, keeps its type.
THEOREM ClientTypeCorrect == Safety => []TypeOK
<1>1. ClientInv => TypeOK
  BY DEF ClientInv
<1> QED
  BY <1>1, ClientInvariant, PTL

\* Every dispatch goroutine that was started before the shutdown began has ended
\* when cleanup tears channels and connection down.
THEOREM CleanupDrainsEarlyLoops == Safety => []EarlyLoopsDrained
<1>1. ClientInv => EarlyLoopsDrained
  BY DEF ClientInv, DrainInv
<1> QED
  BY <1>1, ClientInvariant, PTL

\* After stopChan is closed the watcher dials at most once more, whatever cleanup,
\* broker and other callers do.
THEOREM LateDialsBounded == Safety => []AtMostOneLateDial
<1>1. ClientInv => AtMostOneLateDial
  BY DEF ClientInv, DialInv, AtMostOneLateDial
<1> QED
  BY <1>1, ClientInvariant, PTL

\* The client implements the specification of the connection manager.
THEOREM ClientImplementsManager == Safety => ImplementsManager
<1>1. Init => CMInit
  BY DEF Init
<1>2. ClientInv /\ [Next]_vars => [CMNext]_cmVars
  BY StepImplements DEF ClientInv
<1> QED
  BY <1>1, <1>2, ClientInvariant, PTL DEF Safety, ImplementsManager, CMSafety

\* What is proved of the manager holds inside the client: cleanup calls that
\* overlap never close stopChan twice, the client never rebuilds channels for a
\* connection that it closed itself, and it reports an outage it works on.
THEOREM ManagerSafeInClient ==
    Safety => [](NoDoubleClose /\ ReconnectsOnlyAfterLoss /\ OutageReported)
<1>1. Safety => CMSafety
  BY ClientImplementsManager DEF ImplementsManager
<1> QED
  BY <1>1, StopClosesOnce, WatcherReconnectsOnlyAfterLoss, OutageIsReported, PTL

=============================================================================
