------------------------- MODULE ClientRebuildProofs ------------------------
(***************************************************************************)
(* What startup and a reconnect leave behind, for any number of            *)
(* connections and names, as long as nobody calls ForceReconnect: the      *)
(* registries are those of r.connection, and the watcher watches it.       *)
(***************************************************************************)
EXTENDS ClientProofs

\* Startup has not started the managers yet.
Starting ==
    pc[Startup] \in {"dial", "set", "wire", "producers", "regProducer", "consumers",
                     "regConsumer", "start"}

\* Which control states the goroutines have, and that they take turns: the watcher
\* runs the callback while it is in its call and not before the startup has started
\* it, subscriptions and the shutdown come after the startup.
PhaseInv ==
    /\ Starting \/ pc[Startup] \in {"finish", "health", "ok", "fail"}
    /\ pc[Watcher] \in {"idle", "dial", "set", "clear", "clearConsumers", "producers",
                        "regProducer", "consumers", "regConsumer", "snapshot", "loops", "open",
                        "consume", "ok", "fail"}
    /\ wpc = "call" <=> pc[Watcher] # "idle"
    /\ Starting => wpc = "none" /\ ~connected
    /\ closing => pc[Startup] \in {"ok", "fail"}
    /\ \A s \in Subs : /\ pc[s] \in {"idle", "record", "open", "consume", "ok", "fail"}
                       /\ pc[s] # "idle" => pc[Startup] = "ok"
                       /\ subs[s] # NoName <=> pc[s] \notin {"idle", "record"}

\* The callback has set r.connection.
Installed ==
    pc[Watcher] \in {"clear", "clearConsumers", "producers", "regProducer", "consumers",
                     "regConsumer", "snapshot", "loops", "open", "consume", "ok"}

\* A connection that is in use has been dialled.
DialledInv ==
    /\ connection # NoConn => connState[connection] # "none"
    /\ \A p \in Builders : newConn[p] # NoConn => connState[newConn[p]] # "none"
    /\ \A l \in Loops : loops[l].conn # NoConn => connState[loops[l].conn] # "none"

\* r.connection is the connection that startup or the callback has dialled, and the
\* one that is watched, until the shutdown forgets it.
CurrentInv ==
    /\ pc[Startup] = "wire" => connection = newConn[Startup]
    /\ pc[Startup] \in {"producers", "regProducer", "consumers", "regConsumer", "start"} =>
          connection \in Conns /\ connNotify = connection
    /\ Installed => connection = newConn[Watcher] \/ (closing /\ connection = NoConn)
    /\ wpc \in {"rewatch", "watch"} => wconn = connection \/ closing

\* The registries hold channels of r.connection.
AllProducers == \A x \in Producers : producers[x] = connection
AllConsumers == \A x \in Consumers : consumers[x] = connection

\* How far builder p has come with the registries.
BuildInv(p) ==
    /\ pc[p] \in {"regProducer", "regConsumer"} => target[p] = connection
    /\ pc[p] \in {"producers", "regProducer"} =>
          \A x \in Producers : \/ x \in todo[p] \/ producers[x] = connection
                               \/ pc[p] = "regProducer" /\ x = cur[p]
    /\ pc[p] \in {"consumers", "regConsumer"} =>
          /\ AllProducers
          /\ \A x \in Consumers : \/ x \in todo[p] \/ consumers[x] = connection
                                  \/ pc[p] = "regConsumer" /\ x = cur[p]
    /\ pc[p] \in {"start", "snapshot", "loops", "open", "consume"} => AllProducers /\ AllConsumers
    /\ p = Watcher /\ pc[p] = "ok" => AllProducers /\ AllConsumers

RegistryInv == closing \/ (BuildInv(Startup) /\ BuildInv(Watcher) /\ RegistryIsCurrent)

RebuildInv == PhaseInv /\ DialledInv /\ CurrentInv /\ RegistryInv

-----------------------------------------------------------------------------
(* The steps of the client without ForceReconnect                          *)

\* Steps of startup and of the callback in the watcher that change no state of the
\* manager but what the dial does, and none of the shutdown.
BuildStep(p) == BuilderStep(p) \/ BuildFails(p)

\* Steps of a Subscribe call and of the application that made it.
SubStep(s) ==
    \/ (\E x \in Consumers : Subscribe(s, x)) \/ RecordSubscription(s)
    \/ BuildFails(s) \/ CancelContext(s)

\* Steps of the shutdown.
EndStep(s) == CleanupSignal(s) \/ CleanupStep(s)

\* Without ForceReconnect callers startup and watcher are the only builders.
LEMMA StepCases ==
    ASSUME Forcers = {}, [Next]_vars
    PROVE  \/ \E p \in {Startup, Watcher} : BuildStep(p)
           \/ \E p \in Procs : StartDispatchLoop(p) \/ \E l \in Loops : Consume(p, l)
           \/ StartupStep \/ WatcherRuns
           \/ \E s \in Subs : SubStep(s)
           \/ \E l \in Loops : LoopStep(l)
           \/ \E s \in Stoppers : EndStep(s)
           \/ \E c \in Conns : Drop(c)
           \/ UNCHANGED vars
<1>1. Builders = {Startup, Watcher} /\ Procs = {Startup, Watcher} \cup Subs
  BY DEF Builders, Procs
<1>2. ASSUME NEW p \in Procs, GoroutineStep(p)
      PROVE  \/ \E q \in {Startup, Watcher} : BuildStep(q)
             \/ \E q \in Procs : StartDispatchLoop(q) \/ \E l \in Loops : Consume(q, l)
             \/ StartupStep \/ WatcherRuns
             \/ \E s \in Subs : SubStep(s)
  BY <1>1, <1>2, Zenon DEF GoroutineStep, DispatchStep, BuildStep, SubStep
<1>3. CASE Calls
  BY <1>3, Zenon DEF Calls, SubStep, EndStep
<1> QED
  BY <1>2, <1>3, Zenon DEF Next, EndStep

\* What a process that moves to another control state does to all of them.
LEMMA PcMoves ==
    ASSUME TypeOK, NEW p \in Procs, NEW to, pc' = [pc EXCEPT ![p] = to]
    PROVE  pc'[p] = to /\ \A q \in Procs : q # p => pc'[q] = pc[q]
BY DEF TypeOK, LocTypeOK

\* Who is who among the processes.
LEMMA Processes ==
    /\ Startup \in Procs /\ Watcher \in Procs /\ Subs \subseteq Procs
    /\ Startup \in Builders /\ Watcher \in Builders
    /\ Startup # Watcher /\ Startup \notin Subs /\ Watcher \notin Subs
BY ClientAssumption DEF ClientAssumption, Builders, Procs

-----------------------------------------------------------------------------
(* The goroutines take turns                                               *)

\* Startup and the callback keep to their control states.
LEMMA BuildPhase ==
    ASSUME TypeOK, PhaseInv, NEW p \in {Startup, Watcher}, BuildStep(p)
    PROVE  PhaseInv'
<1> USE Processes
<1> DEFINE Callback == {"dial", "set", "clear", "clearConsumers", "producers", "regProducer",
                        "consumers", "regConsumer", "snapshot", "loops", "open", "consume",
                        "ok", "fail"}
           Early == {"dial", "set", "wire", "producers", "regProducer", "consumers",
                     "regConsumer", "start"}
<1>1. ASSUME NEW to, pc' = [pc EXCEPT ![p] = to],
             p = Startup => pc[p] \in Early /\ to \in Early \cup {"fail"},
             p = Watcher => pc[p] # "idle" /\ to \in Callback,
             UNCHANGED <<wpc, connected, closing, subs>>
      PROVE  PhaseInv'
  <2>1. \A q \in Procs : pc'[q] = IF q = p THEN to ELSE pc[q]
    BY <1>1 DEF TypeOK, LocTypeOK
  <2>2. CASE p = Startup
    BY <1>1, <2>1, <2>2 DEF PhaseInv, Starting
  <2>3. CASE p = Watcher
    BY <1>1, <2>1, <2>3 DEF PhaseInv, Starting
  <2> QED
    BY <2>2, <2>3
<1>2. UNCHANGED <<wpc, connected, closing, subs>>
  BY Zenon DEF BuildStep, BuilderStep, BuildFails, DialOk, DialFail, SetConnection, DiscardProducers,
     DiscardConsumers, OpenChannel, OpenChannelPanics, RegisterChannel, ProducersDone,
     ConsumersDone, Snapshot, PickSubscription, SkipSubscription, LoopsDone, cmVars, mgrVars,
     subVars, endVars
<1>3. UNCHANGED pc \/ \E to \in Callback \cup {"wire", "start"} :
          /\ pc' = [pc EXCEPT ![p] = to]
          /\ p = Startup => pc[p] \in Early /\ to \in Early \cup {"fail"}
          /\ p = Watcher => pc[p] # "idle" /\ to \in Callback
  <2>p. /\ p = Startup => pc[p] \in Early \cup {"finish", "health", "ok", "fail"}
        /\ p = Watcher => pc[p] \in Callback \cup {"idle"}
        /\ Startup # Watcher
    BY DEF PhaseInv, Starting
  <2>1. CASE (\E c \in Conns : DialOk(p, c)) \/ DialFail(p)
    BY <2>1, <2>p DEF DialOk, DialFail, Step
  <2>2. CASE SetConnection(p)
    BY <2>2, <2>p, Zenon DEF SetConnection, Step
  <2>3. CASE DiscardProducers(p) \/ DiscardConsumers(p)
    BY <2>3, <2>p DEF DiscardProducers, DiscardConsumers, Step
  <2>4. CASE \E x \in Producers \cup Consumers : OpenChannel(p, x)
    BY <2>4, <2>p DEF OpenChannel, Step
  <2>5. CASE OpenChannelPanics(p)
    BY <2>5 DEF OpenChannelPanics
  <2>6. CASE RegisterChannel(p)
    BY <2>6, <2>p DEF RegisterChannel, Step
  <2>7. CASE ProducersDone(p) \/ ConsumersDone(p)
    BY <2>7, <2>p DEF ProducersDone, ConsumersDone, Step
  <2>8. CASE Snapshot(p) \/ LoopsDone(p)
    BY <2>8, <2>p DEF Snapshot, LoopsDone, Step
  <2>9. CASE \E s \in Subs : PickSubscription(p, s) \/ SkipSubscription(p, s)
    BY <2>9, <2>p DEF PickSubscription, SkipSubscription, Step
  <2>10. CASE BuildFails(p)
    BY <2>10, <2>p DEF BuildFails
  <2> QED
    BY <2>1, <2>2, <2>3, <2>4, <2>5, <2>6, <2>7, <2>8, <2>9, <2>10, Zenon DEF BuildStep, BuilderStep
<1>4. CASE UNCHANGED pc
  BY <1>2, <1>4 DEF PhaseInv, Starting
<1> QED
  BY <1>1, <1>2, <1>3, <1>4

\* So does every other goroutine.
LEMMA PhasePreserved ==
    ASSUME Forcers = {}, TypeOK, LocInv, PhaseInv, [Next]_vars
    PROVE  PhaseInv'
<1> USE Processes
<1>0. CASE UNCHANGED <<pc, wpc, connected, closing, subs>>
  BY <1>0 DEF PhaseInv, Starting
<1>1. ASSUME NEW p \in Procs, StartDispatchLoop(p) \/ \E l \in Loops : Consume(p, l)
      PROVE  PhaseInv'
  <2>1. UNCHANGED <<wpc, connected, closing, subs>>
    BY <1>1 DEF StartDispatchLoop, Consume, cmVars, mgrVars, subVars, endVars
  <2>2. PICK to \in {"consume", "ok", "loops"} :
           /\ pc' = [pc EXCEPT ![p] = to]
           /\ pc[p] \in {"open", "consume"}
           /\ to = "ok" => p \in Subs
           /\ to = "loops" => p \notin Subs
    BY <1>1 DEF StartDispatchLoop, Consume, Step
  <2>3. \A q \in Procs : pc'[q] = IF q = p THEN to ELSE pc[q]
    BY <2>2 DEF TypeOK, LocTypeOK
  <2>4. p # Startup /\ (p = Watcher \/ p \in Subs)
    BY <2>2 DEF PhaseInv, Starting, Procs, Builders
  <2> QED
    BY <2>1, <2>2, <2>3, <2>4 DEF PhaseInv, Starting
<1>2. CASE StartupStep
  <2>1. PICK to \in {"producers", "finish", "health", "ok", "fail"} :
           /\ pc' = [pc EXCEPT ![Startup] = to]
           /\ pc[Startup] \in {"wire", "start", "finish", "health"}
           /\ pc[Startup] = "wire" <=> to = "producers"
           /\ pc[Startup] = "start" <=> to = "finish"
    BY <1>2 DEF StartupStep, WireManager, StartManagers, FinishStartup, CheckHealth, Step
  <2>2. UNCHANGED <<closing, subs>>
    BY <1>2 DEF StartupStep, WireManager, StartManagers, FinishStartup, CheckHealth,
       subVars, endVars
  <2>3. /\ to # "finish" => UNCHANGED <<wpc, connected>>
        /\ to = "finish" => wpc' \in {"none", "watch"}
    <3>1. CASE WireManager
      BY <2>1, <3>1 DEF WireManager, Wire, Step
    <3>2. CASE StartManagers
      BY <2>1, <3>2 DEF StartManagers, Start, Step
    <3>3. CASE FinishStartup \/ CheckHealth
      BY <2>1, <3>3 DEF FinishStartup, CheckHealth, Step, cmVars, mgrVars
    <3> QED
      BY <1>2, <3>1, <3>2, <3>3 DEF StartupStep
  <2>4. \A q \in Procs : pc'[q] = IF q = Startup THEN to ELSE pc[q]
    BY <2>1 DEF TypeOK, LocTypeOK
  <2> QED
    BY <2>1, <2>2, <2>3, <2>4 DEF PhaseInv, Starting
<1>3. CASE WatcherRuns
  <2>1. UNCHANGED <<closing, subs>>
    BY <1>3 DEF WatcherRuns, WatcherBegins, WatcherReturns, WatcherAlone, CallbackReturned,
       clientVars, subVars, endVars
  <2>2. CASE WatcherBegins
    <3>1. wpc = "loop" /\ wpc' = "call" /\ pc' = [pc EXCEPT ![Watcher] = "dial"]
          /\ UNCHANGED connected
      BY <2>2 DEF WatcherBegins, CallReconnect, Goto, Step
    <3>2. \A q \in Procs : pc'[q] = IF q = Watcher THEN "dial" ELSE pc[q]
      BY <3>1 DEF TypeOK, LocTypeOK
    <3> QED
      BY <2>1, <3>1, <3>2 DEF PhaseInv, Starting
  <2>3. CASE WatcherReturns
    <3>1. wpc = "call" /\ wpc' \in {"rewatch", "wait"} /\ pc' = [pc EXCEPT ![Watcher] = "idle"]
      BY <2>3 DEF WatcherReturns, ReconnectOk, ReconnectFail, Goto, Step
    <3>2. \A q \in Procs : pc'[q] = IF q = Watcher THEN "idle" ELSE pc[q]
      BY <3>1 DEF TypeOK, LocTypeOK
    <3> QED
      BY <2>1, <3>1, <3>2 DEF PhaseInv, Starting
  <2>4. CASE WatcherAlone
    <3>1. /\ wpc \notin {"none", "call"} /\ wpc' \notin {"none", "call"}
          /\ UNCHANGED pc
      BY <2>4 DEF WatcherAlone, WatchNotified, WatchShut, WatchStopped, MarkDisconnected,
         Rewatch, BackoffElapsed, Goto
    <3> QED
      BY <2>1, <3>1 DEF PhaseInv, Starting
  <2> QED
    BY <1>3, <2>2, <2>3, <2>4 DEF WatcherRuns
<1>4. ASSUME NEW s \in Subs, SubStep(s) PROVE PhaseInv'
  <2>1. UNCHANGED <<wpc, connected, closing>>
    BY <1>4 DEF SubStep, Subscribe, RecordSubscription, BuildFails, CancelContext, cmVars,
       mgrVars, endVars
  <2>2. CASE \E x \in Consumers : Subscribe(s, x)
    <3>1. pc[Startup] = "ok" /\ pc[s] = "idle" /\ pc' = [pc EXCEPT ![s] = "record"]
          /\ UNCHANGED subs
      BY <2>2 DEF Subscribe, Step, subVars
    <3>2. \A q \in Procs : pc'[q] = IF q = s THEN "record" ELSE pc[q]
      BY <3>1 DEF TypeOK, LocTypeOK
    <3> QED
      BY <2>1, <3>1, <3>2 DEF PhaseInv, Starting
  <2>3. CASE BuildFails(s)
    <3>1. pc' = [pc EXCEPT ![s] = "fail"] /\ UNCHANGED subs
          /\ pc[s] \in {"regProducer", "regConsumer", "open", "consume", "producers", "consumers"}
      BY <2>3 DEF BuildFails, subVars
    <3>2. \A q \in Procs : pc'[q] = IF q = s THEN "fail" ELSE pc[q]
      BY <3>1 DEF TypeOK, LocTypeOK
    <3> QED
      BY <2>1, <3>1, <3>2 DEF PhaseInv, Starting
  <2>4. CASE RecordSubscription(s)
    <3>1. pc[s] = "record" /\ pc' = [pc EXCEPT ![s] = "open"]
          /\ subs' = [subs EXCEPT ![s] = cur[s]]
      BY <2>4 DEF RecordSubscription, Step
    <3>2. \A q \in Procs : pc'[q] = IF q = s THEN "open" ELSE pc[q]
      BY <3>1 DEF TypeOK, LocTypeOK
    <3>3. \A q \in Subs : subs'[q] = IF q = s THEN cur[s] ELSE subs[q]
      BY <3>1 DEF TypeOK, SubTypeOK
    <3>4. cur[s] # NoName
      BY <3>1, ClientAssumption DEF ClientAssumption, Names, LocInv
    <3> QED
      BY <2>1, <3>1, <3>2, <3>3, <3>4 DEF PhaseInv, Starting
  <2>5. CASE CancelContext(s)
    BY <2>1, <2>5, <1>0 DEF CancelContext
  <2> QED
    BY <1>4, <2>2, <2>3, <2>4, <2>5 DEF SubStep
<1>5. ASSUME NEW l \in Loops, LoopStep(l) PROVE PhaseInv'
  BY <1>5, <1>0 DEF LoopStep, Receive, Settle, LoopReturns, LoopRevoked, cmVars, mgrVars, endVars
<1>6. ASSUME NEW s \in Stoppers, EndStep(s) PROVE PhaseInv'
  <2>1. UNCHANGED <<pc, wpc, subs>>
    BY <1>6 DEF EndStep, CleanupSignal, CleanupStep, CleanupStop, CleanupWait, CleanupWoken,
       CleanupConsumers, CleanupProducers, CleanupConnection, StopLock, StopCheck, StopClose,
       cmVars, mgrVars, subVars
  <2>2. connected' => connected
    BY <1>6, Zenon DEF EndStep, CleanupSignal, CleanupStep, CleanupStop, CleanupWait, CleanupWoken,
       CleanupConsumers, CleanupProducers, CleanupConnection, StopLock, StopCheck, StopClose,
       cmVars, mgrVars
  <2>3. closing' => closing \/ StartupReturned
    BY <1>6, Zenon DEF EndStep, CleanupSignal, CleanupStep, CleanupStop, CleanupWait, CleanupWoken,
       CleanupConsumers, CleanupProducers, CleanupConnection
  <2> QED
    BY <2>1, <2>2, <2>3 DEF PhaseInv, Starting, StartupReturned
<1>7. ASSUME NEW c \in Conns, Drop(c) PROVE PhaseInv'
  BY <1>7, <1>0 DEF Drop, mgrVars, clientVars, subVars, endVars
<1>8. CASE UNCHANGED vars
  BY <1>8, <1>0 DEF vars, cmVars, mgrVars, subVars, endVars
<1> QED
  BY <1>1, <1>2, <1>3, <1>4, <1>5, <1>6, <1>7, <1>8, BuildPhase, StepCases

-----------------------------------------------------------------------------
(* Connections and goroutines that are in use                              *)

\* A connection is dialled once, and one that has ended is not open again.
LEMMA ConnHistory ==
    ASSUME CMTypeOK, [CMNext]_cmVars, NEW c \in Conns, connState[c] # "none"
    PROVE  /\ connState'[c] # "none"
           /\ connState'[c] = "open" => connState[c] = "open"
<1> USE DEF CMTypeOK, AmqpTypeOK
<1>1. CASE UNCHANGED connState
  BY <1>1
<1>2. ASSUME NEW d \in Conns, DialConfig(d) \/ BrokerDrop(d) \/ CloseConn(d)
      PROVE  /\ connState'[c] # "none"
             /\ connState'[c] = "open" => connState[c] = "open"
  BY <1>2 DEF DialConfig, BrokerDrop, CloseConn
<1>3. CASE Environment
  BY <1>1, <1>2, <1>3 DEF Environment, amqpVars
<1>4. CASE WatcherStep
  BY <1>1, <1>4 DEF WatcherStep, WatchNotified, WatchShut, WatchStopped, MarkDisconnected,
     CallReconnect, ReconnectOk, Rewatch, ReconnectFail, BackoffElapsed, NotifyClose, amqpVars
<1>5. CASE \E s \in Stoppers : StopLock(s) \/ StopStep(s)
  BY <1>1, <1>5 DEF StopLock, StopStep, StopCheck, StopClose, amqpVars
<1>6. CASE \E f \in Forcers : ForceBegin(f) \/ ForceReturn(f)
  BY <1>1, <1>6 DEF ForceBegin, ForceReturn, ForceEnd, amqpVars
<1>7. CASE (\E d \in Conns : Wire(d)) \/ Start
  BY <1>1, <1>7 DEF Wire, Start, NotifyClose, amqpVars
<1>8. CASE UNCHANGED cmVars
  BY <1>1, <1>8 DEF cmVars, amqpVars
<1> QED
  BY <1>3, <1>4, <1>5, <1>6, <1>7, <1>8 DEF CMNext

\* No goroutine in a slot.
LEMMA EmptySlot ==
    /\ NoLoop.pc = "none" /\ NoLoop.sub = NoName /\ NoLoop.conn = NoConn
    /\ ~NoLoop.user
BY DEF NoLoop

\* The goroutine Consume starts, with its Boolean fields as opaque values.
LEMMA ConsumeRecord ==
    ASSUME TypeOK, NEW p \in Procs, NEW l \in Loops, Consume(p, l)
    PROVE  \E u, e : /\ u = (p \in Subs)
                     /\ loops'[l] = [pc |-> "select", sub |-> cur[p], conn |-> target[p],
                                     early |-> e, user |-> u]
<1>1. loops \in [Loops -> Goroutine \cup {NoLoop}]
  BY DEF TypeOK, SubTypeOK
<1>2. loops' = [loops EXCEPT ![l] = [pc |-> "select", sub |-> cur[p], conn |-> target[p],
                                     early |-> ~closing, user |-> p \in Subs]]
  BY DEF Consume
<1> HIDE DEF NoLoop
<1>3. loops'[l] = [pc |-> "select", sub |-> cur[p], conn |-> target[p],
                   early |-> ~closing, user |-> p \in Subs]
  BY <1>1, <1>2, Zenon
<1> QED
  BY <1>3, Zenon

\* Consume fills an empty slot.
LEMMA ConsumeEffect ==
    ASSUME TypeOK, NEW p \in Procs, NEW l \in Loops, Consume(p, l)
    PROVE  /\ loops[l] = NoLoop
           /\ loops'[l].sub = cur[p] /\ loops'[l].conn = target[p]
           /\ \A k \in Loops : k # l => loops'[k] = loops[k]
<1>1. loops[l].pc = "none"
  BY DEF Consume
<1>2. loops \in [Loops -> Goroutine \cup {NoLoop}]
  BY DEF TypeOK, SubTypeOK
<1>3. \A g \in Goroutine : g.pc # "none"
  BY DEF Goroutine
<1>4. loops[l] = NoLoop
  BY <1>1, <1>2, <1>3
<1>5. loops' = [loops EXCEPT ![l] = [pc |-> "select", sub |-> cur[p], conn |-> target[p],
                                     early |-> ~closing, user |-> p \in Subs]]
  BY DEF Consume
<1> HIDE DEF NoLoop
<1>6. \A k \in Loops : k # l => loops'[k] = loops[k]
  BY <1>2, <1>5, Zenon
<1>7. PICK u, e : /\ u = (p \in Subs)
                  /\ loops'[l] = [pc |-> "select", sub |-> cur[p], conn |-> target[p],
                                  early |-> e, user |-> u]
  BY ConsumeRecord, Zenon
<1>8. loops'[l].sub = cur[p] /\ loops'[l].conn = target[p]
  BY <1>7
<1> QED
  BY <1>4, <1>6, <1>8, Zenon

\* A goroutine started by Subscribe carries the user's context.
LEMMA ConsumeUser ==
    ASSUME TypeOK, NEW p \in Subs, p \in Procs, NEW l \in Loops, Consume(p, l)
    PROVE  loops'[l].user
<1>1. PICK u, e : /\ u = (p \in Subs)
                  /\ loops'[l] = [pc |-> "select", sub |-> cur[p], conn |-> target[p],
                                  early |-> e, user |-> u]
  BY ConsumeRecord, Zenon
<1>2. loops'[l].user = u
  BY <1>1
<1> QED
  BY <1>1, <1>2, Zenon

\* A dispatch goroutine goes on, or ends and frees its slot: because of the shutdown,
\* of the loss of its connection, of its context or of the broker.
LEMMA LoopEffect ==
    ASSUME TypeOK, NEW l \in Loops, LoopStep(l)
    PROVE  /\ \A k \in Loops : k # l => loops'[k] = loops[k]
           /\ \/ /\ loops'[l].sub = loops[l].sub /\ loops'[l].conn = loops[l].conn
                 /\ loops'[l].user = loops[l].user
              \/ /\ loops'[l] = NoLoop
                 /\ \/ closing \/ ~IsOpen(loops[l].conn)
                    \/ loops[l].sub \in cancelled' \cup revoked'
           /\ cancelled \subseteq cancelled' /\ revoked \subseteq revoked'
           /\ UNCHANGED <<cmVars, regVars, pc, locVars, subs, closing>>
<1>1. loops \in [Loops -> Goroutine \cup {NoLoop}]
  BY DEF TypeOK, SubTypeOK
<1>2. CASE Receive(l) \/ Settle(l)
  <2>1. PICK to \in {"select", "handling"} : loops' = [loops EXCEPT ![l].pc = to]
    BY <1>2 DEF Receive, Settle
  <2>2. UNCHANGED <<cmVars, regVars, pc, locVars, subs, cancelled, revoked, closing>>
    BY <1>2 DEF Receive, Settle, endVars
  <2>3. loops[l] \in Goroutine
    <3>1. loops[l].pc \in {"select", "handling"}
      BY <1>2 DEF Receive, Settle
    <3> QED
      BY <1>1, <3>1, EmptySlot
  <2>4. \A k \in Loops : k # l => loops'[k] = loops[k]
    BY <1>1, <2>1, Zenon
  <2>5. loops'[l] = [loops[l] EXCEPT !.pc = to]
    BY <1>1, <2>1, Zenon
  <2>6. /\ loops'[l].sub = loops[l].sub /\ loops'[l].conn = loops[l].conn
        /\ loops'[l].user = loops[l].user
    BY <2>3, <2>5 DEF Goroutine
  <2> QED
    BY <2>2, <2>4, <2>6, Zenon
<1>3. CASE LoopReturns(l)
  <2>1. loops' = [loops EXCEPT ![l] = NoLoop]
    BY <1>3 DEF LoopReturns, EndLoop
  <2>2. UNCHANGED <<cmVars, regVars, pc, locVars, subs, cancelled, revoked, closing>>
    BY <1>3 DEF LoopReturns
  <2>3. closing \/ ~IsOpen(loops[l].conn) \/ loops[l].sub \in cancelled
    BY <1>3 DEF LoopReturns
  <2>4. loops'[l] = NoLoop /\ \A k \in Loops : k # l => loops'[k] = loops[k]
    BY <1>1, <2>1, Zenon
  <2> QED
    BY <2>2, <2>3, <2>4, Zenon
<1>4. CASE LoopRevoked(l)
  <2>1. loops' = [loops EXCEPT ![l] = NoLoop]
    BY <1>4 DEF LoopRevoked, EndLoop
  <2>2. UNCHANGED <<cmVars, regVars, pc, locVars, subs, cancelled, closing>>
        /\ revoked' = revoked \cup {loops[l].sub}
    BY <1>4 DEF LoopRevoked
  <2>4. loops'[l] = NoLoop /\ \A k \in Loops : k # l => loops'[k] = loops[k]
    BY <1>1, <2>1, Zenon
  <2> QED
    BY <2>2, <2>4, Zenon
<1> QED
  BY <1>2, <1>3, <1>4 DEF LoopStep


\* What the variables of the other goroutines are after a step of goroutine p.
OthersKept(p) ==
    \A q \in Procs : q # p => /\ pc'[q] = pc[q] /\ todo'[q] = todo[q]
                              /\ cur'[q] = cur[q] /\ target'[q] = target[q]

\* A step that assigns only to entries of p.
LEMMA OwnLocals ==
    ASSUME TypeOK, NEW p \in Procs,
           UNCHANGED pc \/ \E v : pc' = [pc EXCEPT ![p] = v],
           UNCHANGED todo \/ \E v : todo' = [todo EXCEPT ![p] = v],
           UNCHANGED cur \/ \E v : cur' = [cur EXCEPT ![p] = v],
           UNCHANGED target \/ \E v : target' = [target EXCEPT ![p] = v]
    PROVE  OthersKept(p)
<1>1. \A q \in Procs : q # p => pc'[q] = pc[q]
  BY DEF TypeOK, LocTypeOK
<1>2. \A q \in Procs : q # p => todo'[q] = todo[q]
  BY DEF TypeOK, LocTypeOK
<1>3. \A q \in Procs : q # p => cur'[q] = cur[q]
  BY DEF TypeOK, LocTypeOK
<1>4. \A q \in Procs : q # p => target'[q] = target[q]
  BY DEF TypeOK, LocTypeOK
<1> QED
  BY <1>1, <1>2, <1>3, <1>4 DEF OthersKept

\* What startup and the callback leave alone.
LEMMA BuildEffect ==
    ASSUME TypeOK, NEW p \in {Startup, Watcher}, BuildStep(p)
    PROVE  /\ UNCHANGED <<wpc, wconn, connected, connNotify, subVars, endVars>>
           /\ OthersKept(p)
           /\ \A q \in Builders : q # p => newConn'[q] = newConn[q]
<1> USE Processes DEF BuildStep, BuilderStep
<1>1. UNCHANGED <<wpc, wconn, connected, connNotify, subVars, endVars>>
  BY Zenon DEF BuildFails, DialOk, DialFail, SetConnection, DiscardProducers, DiscardConsumers,
     OpenChannel, OpenChannelPanics, RegisterChannel, ProducersDone, ConsumersDone, Snapshot,
     PickSubscription, SkipSubscription, LoopsDone, cmVars, mgrVars
<1>2. UNCHANGED pc \/ \E v : pc' = [pc EXCEPT ![p] = v]
  BY Zenon DEF BuildFails, DialOk, DialFail, SetConnection, DiscardProducers, DiscardConsumers,
     OpenChannel, OpenChannelPanics, RegisterChannel, ProducersDone, ConsumersDone, Snapshot,
     PickSubscription, SkipSubscription, LoopsDone, Step
<1>3. UNCHANGED todo \/ \E v : todo' = [todo EXCEPT ![p] = v]
  BY DEF BuildFails, DialOk, DialFail, SetConnection, DiscardProducers, DiscardConsumers,
     OpenChannel, OpenChannelPanics, RegisterChannel, ProducersDone, ConsumersDone, Snapshot,
     PickSubscription, SkipSubscription, LoopsDone, locVars
<1>4. UNCHANGED cur \/ \E v : cur' = [cur EXCEPT ![p] = v]
  BY DEF BuildFails, DialOk, DialFail, SetConnection, DiscardProducers, DiscardConsumers,
     OpenChannel, OpenChannelPanics, RegisterChannel, ProducersDone, ConsumersDone, Snapshot,
     PickSubscription, SkipSubscription, LoopsDone, locVars, DropBody
<1>5. UNCHANGED target \/ \E v : target' = [target EXCEPT ![p] = v]
  BY DEF BuildFails, DialOk, DialFail, SetConnection, DiscardProducers, DiscardConsumers,
     OpenChannel, OpenChannelPanics, RegisterChannel, ProducersDone, ConsumersDone, Snapshot,
     PickSubscription, SkipSubscription, LoopsDone, locVars, DropBody
<1>6. p \in Procs
  OBVIOUS
<1>7. OthersKept(p)
  BY <1>2, <1>3, <1>4, <1>5, <1>6, OwnLocals
<1>8. UNCHANGED newConn \/ \E v : newConn' = [newConn EXCEPT ![p] = v]
  BY DEF BuildFails, DialOk, DialFail, SetConnection, DiscardProducers, DiscardConsumers,
     OpenChannel, OpenChannelPanics, RegisterChannel, ProducersDone, ConsumersDone, Snapshot,
     PickSubscription, SkipSubscription, LoopsDone, locVars
<1>9. \A q \in Builders : q # p => newConn'[q] = newConn[q]
  BY <1>8 DEF TypeOK, LocTypeOK
<1> QED
  BY <1>1, <1>7, <1>9

\* What a step of a Subscribe call changes.
LEMMA SubEffect ==
    ASSUME TypeOK, PhaseInv, NEW s \in Subs, SubStep(s)
    PROVE  /\ UNCHANGED <<cmVars, regVars, newConn, loops, revoked, closing>>
           /\ OthersKept(s)
           /\ \A t \in Subs : t # s => subs'[t] = subs[t]
           /\ subs'[s] = NoName => subs[s] = NoName
           /\ cancelled \subseteq cancelled'
           /\ subs'[s] = NoName \/ pc'[s] \in {"open", "fail"} \/ s \in cancelled'
<1> USE Processes
<1> s \in Procs
  OBVIOUS
<1>1. UNCHANGED <<cmVars, regVars, newConn, loops, revoked, closing>>
  BY DEF SubStep, Subscribe, RecordSubscription, BuildFails, CancelContext, subVars, endVars, locVars
<1>2. OthersKept(s)
  <2>1. UNCHANGED pc \/ \E v : pc' = [pc EXCEPT ![s] = v]
    BY DEF SubStep, Subscribe, RecordSubscription, BuildFails, CancelContext, Step
  <2>2. UNCHANGED todo \/ \E v : todo' = [todo EXCEPT ![s] = v]
    BY DEF SubStep, Subscribe, RecordSubscription, BuildFails, CancelContext, locVars
  <2>3. UNCHANGED cur \/ \E v : cur' = [cur EXCEPT ![s] = v]
    BY DEF SubStep, Subscribe, RecordSubscription, BuildFails, CancelContext, locVars, DropBody
  <2>4. UNCHANGED target \/ \E v : target' = [target EXCEPT ![s] = v]
    BY DEF SubStep, Subscribe, RecordSubscription, BuildFails, CancelContext, locVars, DropBody
  <2> QED
    BY <2>1, <2>2, <2>3, <2>4, OwnLocals
<1>3. cancelled \subseteq cancelled'
  BY DEF SubStep, Subscribe, RecordSubscription, BuildFails, CancelContext, subVars
<1>4. CASE \E x \in Consumers : Subscribe(s, x)
  <2>1. pc[s] = "idle" /\ UNCHANGED subs
    BY <1>4 DEF Subscribe, Step, subVars
  <2> QED
    BY <1>1, <1>2, <1>3, <2>1 DEF PhaseInv
<1>5. CASE RecordSubscription(s)
  <2>1. pc[s] = "record" /\ pc' = [pc EXCEPT ![s] = "open"] /\ subs' = [subs EXCEPT ![s] = cur[s]]
    BY <1>5 DEF RecordSubscription, Step
  <2>2. pc'[s] = "open" /\ subs[s] = NoName
    BY <2>1, PcMoves DEF PhaseInv
  <2>3. \A t \in Subs : t # s => subs'[t] = subs[t]
    BY <2>1 DEF TypeOK, SubTypeOK
  <2> QED
    BY <1>1, <1>2, <1>3, <2>2, <2>3
<1>6. CASE BuildFails(s)
  <2>1. pc' = [pc EXCEPT ![s] = "fail"] /\ UNCHANGED subs
    BY <1>6 DEF BuildFails, subVars
  <2>2. pc'[s] = "fail"
    BY <2>1, PcMoves
  <2> QED
    BY <1>1, <1>2, <1>3, <2>1, <2>2
<1>7. CASE CancelContext(s)
  <2>1. UNCHANGED subs /\ s \in cancelled'
    BY <1>7 DEF CancelContext
  <2> QED
    BY <1>1, <1>2, <1>3, <2>1
<1> QED
  BY <1>4, <1>5, <1>6, <1>7 DEF SubStep

\* What a step of the shutdown changes: it has closed closeChan before it touches
\* anything else.
LEMMA EndEffect ==
    ASSUME TypeOK, DrainInv, NEW s \in Stoppers, EndStep(s)
    PROVE  /\ closing'
           /\ connection' \in {connection, NoConn}
           /\ connection' # connection => closing
           /\ connected' => connected
           /\ UNCHANGED <<wpc, wconn, connNotify, pc, locVars, subVars>>
<1>1. closing'
  <2>1. CASE CleanupSignal(s)
    BY <2>1 DEF CleanupSignal
  <2>2. CASE CleanupStep(s)
    <3>1. cpc[s] # "idle" /\ UNCHANGED closing
      BY <2>2 DEF CleanupStep, CleanupStop, CleanupWait, CleanupWoken, CleanupConsumers,
         CleanupProducers, CleanupConnection, CleanupGoto
    <3> QED
      BY <3>1 DEF DrainInv
  <2> QED
    BY <2>1, <2>2 DEF EndStep
<1>2. connection' \in {connection, NoConn} /\ (connection' # connection => cpc[s] = "conn")
  BY DEF EndStep, CleanupSignal, CleanupStep, CleanupStop, CleanupWait, CleanupWoken,
     CleanupConsumers, CleanupProducers, CleanupConnection, CleanupGoto, regVars
<1>3. connected' => connected
  BY Zenon DEF EndStep, CleanupSignal, CleanupStep, CleanupStop, CleanupWait, CleanupWoken,
     CleanupConsumers, CleanupProducers, CleanupConnection, StopLock, StopCheck, StopClose,
     cmVars, mgrVars
<1>4. UNCHANGED <<wpc, wconn, connNotify, pc, locVars, subVars>>
  BY DEF EndStep, CleanupSignal, CleanupStep, CleanupStop, CleanupWait, CleanupWoken,
     CleanupConsumers, CleanupProducers, CleanupConnection, StopLock, StopCheck, StopClose,
     cmVars, mgrVars
<1> QED
  BY <1>1, <1>2, <1>3, <1>4 DEF DrainInv


\* Startup and the watcher outside of the callback: what they leave alone.
LEMMA ManagerEffect ==
    ASSUME TypeOK, StartupStep \/ WatcherRuns
    PROVE  /\ UNCHANGED <<connState, regVars, cur, target, subVars, endVars>>
           /\ todo'[Watcher] = todo[Watcher]
           /\ \A p \in Builders : newConn'[p] \in {newConn[p], NoConn}
           /\ StartupStep => /\ newConn'[Watcher] = newConn[Watcher]
                             /\ \A q \in Procs : q # Startup => pc'[q] = pc[q]
           /\ WatcherRuns => \A q \in Procs : q # Watcher => pc'[q] = pc[q]
<1> USE Processes
<1>1. UNCHANGED connState
  BY DEF StartupStep, WireManager, StartManagers, FinishStartup, CheckHealth, Wire, Start,
     NotifyClose, WatcherRuns, WatcherBegins, WatcherReturns, WatcherAlone, CallReconnect,
     ReconnectOk, ReconnectFail, WatchNotified, WatchShut, WatchStopped, MarkDisconnected,
     Rewatch, BackoffElapsed, cmVars, amqpVars
<1>2. UNCHANGED <<regVars, cur, target, subVars, endVars>>
  BY DEF StartupStep, WireManager, StartManagers, FinishStartup, CheckHealth,
     WatcherRuns, WatcherBegins, WatcherReturns, WatcherAlone, CallbackReturned, locVars, clientVars
<1>3. UNCHANGED todo \/ \E v : todo' = [todo EXCEPT ![Startup] = v]
  BY DEF StartupStep, WireManager, StartManagers, FinishStartup, CheckHealth,
     WatcherRuns, WatcherBegins, WatcherReturns, WatcherAlone, CallbackReturned, locVars, clientVars
<1>4. UNCHANGED newConn \/ \E p \in Builders : newConn' = [newConn EXCEPT ![p] = NoConn]
  BY DEF StartupStep, WireManager, StartManagers, FinishStartup, CheckHealth,
     WatcherRuns, WatcherBegins, WatcherReturns, WatcherAlone, CallbackReturned, locVars, clientVars
<1>5. \A p \in Builders : newConn'[p] \in {newConn[p], NoConn}
  BY <1>4 DEF TypeOK, LocTypeOK
<1>6. todo'[Watcher] = todo[Watcher]
  BY <1>3 DEF TypeOK, LocTypeOK
<1>7. ASSUME StartupStep
      PROVE  /\ newConn'[Watcher] = newConn[Watcher]
             /\ \A q \in Procs : q # Startup => pc'[q] = pc[q]
  <2>1. UNCHANGED newConn \/ newConn' = [newConn EXCEPT ![Startup] = NoConn]
    BY <1>7 DEF StartupStep, WireManager, StartManagers, FinishStartup, CheckHealth, locVars
  <2>2. PICK v : pc' = [pc EXCEPT ![Startup] = v]
    BY <1>7 DEF StartupStep, WireManager, StartManagers, FinishStartup, CheckHealth, Step
  <2>3. newConn'[Watcher] = newConn[Watcher]
    BY <2>1 DEF TypeOK, LocTypeOK
  <2> QED
    BY <2>2, <2>3, PcMoves
<1>8. ASSUME WatcherRuns PROVE \A q \in Procs : q # Watcher => pc'[q] = pc[q]
  <2>1. UNCHANGED pc \/ \E v : pc' = [pc EXCEPT ![Watcher] = v]
    BY <1>8 DEF WatcherRuns, WatcherBegins, WatcherReturns, WatcherAlone, Step
  <2> QED
    BY <2>1, PcMoves
<1> QED
  BY <1>1, <1>2, <1>5, <1>6, <1>7, <1>8

\* Whoever takes a connection into use has it from a dial.
LEMMA DialledPreserved ==
    ASSUME Forcers = {}, TypeOK, LocInv, StopFirst, DrainInv, DialledInv, [Next]_vars
    PROVE  DialledInv'
<1> USE Processes
<1>c. \A c \in Conns : connState[c] # "none" => connState'[c] # "none"
  BY StepImplements, ConnHistory DEF TypeOK
<1>t. /\ connection \in Conns \cup {NoConn}
      /\ newConn \in [Builders -> Conns \cup {NoConn}]
      /\ \A l \in Loops : loops[l].conn \in Conns \cup {NoConn}
  BY EmptySlot DEF TypeOK, RegTypeOK, LocTypeOK, SubTypeOK, Goroutine
<1>0. ASSUME connection' \in {connection, NoConn},
             \A p \in Builders : newConn'[p] \in {newConn[p], NoConn},
             \A l \in Loops : loops'[l].conn \in {loops[l].conn, NoConn}
      PROVE  DialledInv'
  BY <1>0, <1>c, <1>t DEF DialledInv
<1>1. ASSUME NEW p \in {Startup, Watcher}, BuildStep(p) PROVE DialledInv'
  <2>0. UNCHANGED loops /\ p \in Builders
    BY <1>1, BuildEffect DEF subVars
  <2>1. ASSUME NEW c \in Conns, DialOk(p, c) PROVE DialledInv'
    <3>1. newConn' = [newConn EXCEPT ![p] = c] /\ DialConfig(c) /\ UNCHANGED connection
      BY <2>1 DEF DialOk, regVars
    <3>2. connState'[c] # "none"
      BY <3>1 DEF DialConfig, TypeOK, CMTypeOK, AmqpTypeOK
    <3>3. \A q \in Builders : newConn'[q] = IF q = p THEN c ELSE newConn[q]
      BY <3>1, <1>t
    <3> QED
      BY <2>0, <3>1, <3>2, <3>3, <1>c, <1>t DEF DialledInv
  <2>2. CASE SetConnection(p)
    <3>1. connection' = newConn[p] /\ UNCHANGED newConn
      BY <2>2 DEF SetConnection, locVars
    <3> QED
      BY <2>0, <3>1, <1>c, <1>t DEF DialledInv
  <2>3. CASE ~SetConnection(p) /\ ~\E c \in Conns : DialOk(p, c)
    <3>1. UNCHANGED <<connection, newConn>>
      BY <1>1, <2>3 DEF BuildStep, BuilderStep, BuildFails, DialFail, DiscardProducers,
         DiscardConsumers, OpenChannel, OpenChannelPanics, RegisterChannel, ProducersDone,
         ConsumersDone, Snapshot, PickSubscription, SkipSubscription, LoopsDone, regVars, locVars
    <3> QED
      BY <2>0, <3>1, <1>0
  <2> QED
    BY <2>1, <2>2, <2>3
<1>2. ASSUME NEW p \in Procs, StartDispatchLoop(p) PROVE DialledInv'
  BY <1>0, <1>2 DEF StartDispatchLoop, regVars, subVars
<1>3. ASSUME NEW p \in Procs, NEW l \in Loops, Consume(p, l) PROVE DialledInv'
  <2>1. UNCHANGED <<connection, newConn>> /\ connState[target[p]] = "open"
    BY <1>3, Zenon DEF Consume, regVars, IsOpen
  <2>2. target[p] \in Conns \cup {NoConn}
    BY DEF TypeOK, LocTypeOK
  <2>3. target[p] # NoConn
    BY <1>3, Zenon DEF Consume, IsOpen
  <2>4. /\ loops[l] = NoLoop
        /\ loops'[l].sub = cur[p] /\ loops'[l].conn = target[p]
        /\ \A k \in Loops : k # l => loops'[k] = loops[k]
    BY <1>3, ConsumeEffect, Zenon
  <2>5. target[p] \in Conns /\ connState'[target[p]] # "none"
    BY <1>c, <2>1, <2>2, <2>3
  <2>6. \A k \in Loops : loops'[k].conn # NoConn => connState'[loops'[k].conn] # "none"
    BY <1>c, <1>t, <2>4, <2>5 DEF DialledInv
  <2> QED
    BY <1>c, <1>t, <2>1, <2>6 DEF DialledInv
<1>4. CASE StartupStep \/ WatcherRuns
  BY <1>0, <1>4, ManagerEffect, Zenon DEF regVars, subVars
<1>5. ASSUME NEW s \in Subs, SubStep(s) PROVE DialledInv'
  BY <1>0, <1>5, Zenon DEF SubStep, Subscribe, RecordSubscription, BuildFails, CancelContext, subVars,
     regVars, locVars
<1>6. ASSUME NEW l \in Loops, LoopStep(l) PROVE DialledInv'
  <2>1. UNCHANGED <<connection, newConn>>
    BY <1>6, LoopEffect DEF regVars, locVars
  <2>2. \A k \in Loops : loops'[k].conn \in {loops[k].conn, NoConn}
    BY <1>6, LoopEffect, EmptySlot
  <2> QED
    BY <1>0, <2>1, <2>2, Zenon
<1>7. ASSUME NEW s \in Stoppers, EndStep(s) PROVE DialledInv'
  BY <1>0, <1>7, EndEffect DEF subVars, locVars
<1>8. CASE (\E c \in Conns : Drop(c)) \/ UNCHANGED vars
  BY <1>0, <1>8 DEF Drop, vars, clientVars, regVars, locVars, subVars
<1> QED
  BY <1>1, <1>2, <1>3, <1>4, <1>5, <1>6, <1>7, <1>8, StepCases


\* Once a builder has set r.connection it goes on with that connection.
LEMMA BuildKeeps ==
    ASSUME TypeOK, PhaseInv, NEW p \in {Startup, Watcher}, BuildStep(p),
           ~SetConnection(p), ~\E c \in Conns : DialOk(p, c)
    PROVE  /\ UNCHANGED <<connection, newConn>>
           /\ \/ pc'[p] = pc[p] \/ pc'[p] = "fail"
              \/ /\ pc[p] \in {"clear", "clearConsumers", "producers", "regProducer", "consumers",
                               "regConsumer", "snapshot", "loops"}
                 /\ pc'[p] \in {"clearConsumers", "producers", "regProducer", "consumers",
                                "regConsumer", "snapshot", "start", "loops", "open", "ok"}
                 /\ p = Startup => pc'[p] \in {"producers", "regProducer", "consumers",
                                               "regConsumer", "start"}
                 /\ p = Watcher => pc'[p] # "start"
                 /\ pc[p] = "loops" => pc'[p] \in {"loops", "open", "ok"}
<1> USE Processes
<1> p \in Procs
  OBVIOUS
<1> DEFINE From == {"clear", "clearConsumers", "producers", "regProducer", "consumers",
                    "regConsumer", "snapshot", "loops"}
           To == {"clearConsumers", "producers", "regProducer", "consumers",
                  "regConsumer", "snapshot", "start", "loops", "open", "ok"}
<1>1. UNCHANGED <<connection, newConn>>
  BY Zenon DEF BuildStep, BuilderStep, BuildFails, DialFail, DiscardProducers,
     DiscardConsumers, OpenChannel, OpenChannelPanics, RegisterChannel, ProducersDone,
     ConsumersDone, Snapshot, PickSubscription, SkipSubscription, LoopsDone, regVars, locVars
<1>2. p = Startup => pc[p] \notin {"clear", "clearConsumers", "snapshot", "loops"}
  BY DEF PhaseInv, Starting
<1>3. \/ UNCHANGED pc
      \/ pc' = [pc EXCEPT ![p] = "fail"]
      \/ \E to \in To :
            /\ pc' = [pc EXCEPT ![p] = to]
            /\ pc[p] \in From
            /\ p = Startup => to \in {"producers", "regProducer", "consumers", "regConsumer", "start"}
            /\ p = Watcher => to # "start"
            /\ pc[p] = "loops" => to \in {"loops", "open", "ok"}
  <2>1. CASE DialFail(p) \/ BuildFails(p)
    BY <2>1 DEF DialFail, BuildFails, Step
  <2>2. CASE DiscardProducers(p) \/ DiscardConsumers(p) \/ ProducersDone(p) \/ ConsumersDone(p)
    BY <2>2, <1>2 DEF DiscardProducers, DiscardConsumers, ProducersDone, ConsumersDone, Step
  <2>3. CASE (\E x \in Producers \cup Consumers : OpenChannel(p, x)) \/ OpenChannelPanics(p)
    BY <2>3, <1>2 DEF OpenChannel, OpenChannelPanics, Step
  <2>4. CASE RegisterChannel(p)
    BY <2>4, <1>2, Zenon DEF RegisterChannel, Step
  <2>5. CASE \/ Snapshot(p) \/ LoopsDone(p)
             \/ \E s \in Subs : PickSubscription(p, s) \/ SkipSubscription(p, s)
    BY <2>5, <1>2, Zenon DEF Snapshot, LoopsDone, PickSubscription, SkipSubscription, Step
  <2> QED
    BY <2>1, <2>2, <2>3, <2>4, <2>5 DEF BuildStep, BuilderStep
<1>4. CASE UNCHANGED pc
  BY <1>1, <1>4
<1>5. ASSUME NEW to, pc' = [pc EXCEPT ![p] = to] PROVE pc'[p] = to
  BY <1>5, PcMoves
<1> QED
  BY <1>1, <1>3, <1>4, <1>5

\* The connection that is set, used and watched is the one that was dialled.
LEMMA CurrentPreserved ==
    ASSUME Forcers = {}, TypeOK, LocInv, DrainInv, PhaseInv, CurrentInv, [Next]_vars
    PROVE  CurrentInv'
<1> USE Processes
<1>t. newConn \in [Builders -> Conns \cup {NoConn}]
  BY DEF TypeOK, LocTypeOK
<1>0. ASSUME UNCHANGED <<connection, connNotify, closing, wpc, wconn, newConn>>,
             pc'[Startup] = pc[Startup],
             Installed' => Installed
      PROVE  CurrentInv'
  BY <1>0 DEF CurrentInv
<1>1. ASSUME NEW p \in {Startup, Watcher}, BuildStep(p) PROVE CurrentInv'
  <2>0. /\ UNCHANGED <<wpc, wconn, connNotify, closing>>
        /\ \A q \in {Startup, Watcher} : q # p => pc'[q] = pc[q]
    BY <1>1, BuildEffect DEF endVars, OthersKept
  <2>1. ASSUME NEW c \in Conns, DialOk(p, c) PROVE CurrentInv'
    <3>1. newConn' = [newConn EXCEPT ![p] = c] /\ pc' = [pc EXCEPT ![p] = "set"]
          /\ UNCHANGED connection
      BY <2>1 DEF DialOk, regVars, Step
    <3>2. pc'[p] = "set"
      BY <3>1, PcMoves, Zenon
    <3>3. \A q \in Builders : q # p => newConn'[q] = newConn[q]
      BY <3>1, <1>t
    <3> QED
      BY <2>0, <3>1, <3>2, <3>3 DEF CurrentInv, Installed
  <2>2. CASE SetConnection(p)
    <3>1. /\ connection' = newConn[p] /\ UNCHANGED newConn /\ pc[p] = "set"
          /\ pc' = [pc EXCEPT ![p] = IF p = Startup THEN "wire" ELSE "clear"]
      BY <2>2 DEF SetConnection, locVars, Step
    <3>2. pc'[p] = IF p = Startup THEN "wire" ELSE "clear"
      BY <3>1, PcMoves
    <3>3. CASE p = Startup
      <4>1. wpc = "none" /\ pc[Watcher] = "idle"
        BY <3>1, <3>3 DEF PhaseInv, Starting
      <4>2. pc'[Startup] = "wire" /\ pc'[Watcher] = "idle" /\ wpc' = "none"
        BY <2>0, <3>2, <3>3, <4>1
      <4>3. connection' = newConn'[Startup]
        BY <3>1, <3>3
      <4> QED
        BY <4>2, <4>3 DEF CurrentInv, Installed
    <3>4. CASE p = Watcher
      <4>1. wpc = "call" /\ ~Starting
        BY <3>1, <3>4 DEF PhaseInv
      <4> QED
        BY <2>0, <3>1, <3>2, <3>4, <4>1 DEF CurrentInv, Installed, Starting
    <3> QED
      BY <3>3, <3>4
  <2>3. CASE ~SetConnection(p) /\ ~\E c \in Conns : DialOk(p, c)
    <3>1. UNCHANGED <<connection, newConn>>
      BY <1>1, <2>3, BuildKeeps
    <3>2. CASE p = Startup
      <4>1. \/ pc'[p] = pc[p] \/ pc'[p] = "fail"
            \/ /\ pc[p] \in {"clear", "clearConsumers", "producers", "regProducer", "consumers",
                             "regConsumer", "snapshot", "loops"}
               /\ pc'[p] # "wire"
        BY <1>1, <2>3, <3>2, BuildKeeps
      <4>2. pc[p] \notin {"clear", "clearConsumers", "snapshot", "loops"}
        BY <3>2 DEF PhaseInv, Starting
      <4> QED
        BY <2>0, <3>1, <3>2, <4>1, <4>2 DEF CurrentInv, Installed
    <3>3. CASE p = Watcher
      <4>1. Installed' => Installed
        BY <1>1, <2>3, <3>3, BuildKeeps DEF Installed
      <4> QED
        BY <1>0, <2>0, <3>1, <3>3, <4>1
    <3> QED
      BY <3>2, <3>3
  <2> QED
    BY <2>1, <2>2, <2>3
<1>2. ASSUME NEW p \in Procs, StartDispatchLoop(p) \/ \E l \in Loops : Consume(p, l)
      PROVE  CurrentInv'
  <2>1. UNCHANGED <<connection, connNotify, closing, wpc, wconn, newConn>>
    BY <1>2 DEF StartDispatchLoop, Consume, cmVars, mgrVars, regVars, endVars
  <2>2. PICK to : pc' = [pc EXCEPT ![p] = to] /\ pc[p] \in {"open", "consume"}
    BY <1>2, Zenon DEF StartDispatchLoop, Consume, Step
  <2>3. p # Startup
    BY <2>2 DEF PhaseInv, Starting
  <2>4. pc'[Startup] = pc[Startup] /\ (p # Watcher => pc'[Watcher] = pc[Watcher])
    BY <2>2, <2>3, PcMoves
  <2>5. Installed' => Installed
    BY <2>2, <2>4 DEF Installed
  <2> QED
    BY <1>0, <2>1, <2>4, <2>5
<1>3. CASE StartupStep
  <2>0. UNCHANGED <<connection, closing>> /\ pc'[Watcher] = pc[Watcher]
        /\ newConn'[Watcher] = newConn[Watcher]
    BY <1>3, ManagerEffect DEF regVars, endVars
  <2>1. CASE WireManager
    <3>1. /\ pc[Startup] = "wire" /\ pc' = [pc EXCEPT ![Startup] = "producers"]
          /\ connNotify' = newConn[Startup] /\ UNCHANGED <<wpc, wconn>>
      BY <2>1 DEF WireManager, Wire, Step
    <3>2. pc'[Startup] = "producers"
      BY <3>1, PcMoves
    <3>3. newConn[Startup] \in Conns
      BY <3>1 DEF LocInv, Dialled
    <3> QED
      BY <2>0, <3>1, <3>2, <3>3 DEF CurrentInv, Installed
  <2>2. CASE StartManagers
    <3>1. /\ pc[Startup] = "start" /\ pc' = [pc EXCEPT ![Startup] = "finish"]
          /\ wpc = "none" /\ (wpc' = "none" \/ wconn' = connNotify) /\ UNCHANGED connNotify
      BY <2>2 DEF StartManagers, Start, Step
    <3>2. pc'[Startup] = "finish"
      BY <3>1, PcMoves
    <3> QED
      BY <2>0, <3>1, <3>2 DEF CurrentInv, Installed
  <2>3. CASE FinishStartup \/ CheckHealth
    <3>1. PICK to \in {"health", "ok", "fail"} : pc' = [pc EXCEPT ![Startup] = to]
      BY <2>3 DEF FinishStartup, CheckHealth, Step
    <3>2. pc'[Startup] = to
      BY <3>1, PcMoves
    <3>3. UNCHANGED <<wpc, wconn, connNotify>>
      BY <2>3 DEF FinishStartup, CheckHealth, cmVars, mgrVars
    <3> QED
      BY <2>0, <3>1, <3>2, <3>3 DEF CurrentInv, Installed
  <2> QED
    BY <1>3, <2>1, <2>2, <2>3 DEF StartupStep

<1>4. CASE WatcherRuns
  <2>0. UNCHANGED <<connection, closing>> /\ pc'[Startup] = pc[Startup]
    BY <1>4, ManagerEffect DEF regVars, endVars
  <2>1. UNCHANGED connNotify
    BY <1>4 DEF WatcherRuns, WatcherBegins, WatcherReturns, WatcherAlone, CallReconnect,
       ReconnectOk, ReconnectFail, WatchNotified, WatchShut, WatchStopped, MarkDisconnected,
       Rewatch, BackoffElapsed, Goto
  <2>2. CASE WatcherBegins
    <3>1. wpc' = "call" /\ UNCHANGED newConn /\ pc' = [pc EXCEPT ![Watcher] = "dial"]
      BY <2>2 DEF WatcherBegins, CallReconnect, Goto, Step, clientVars, locVars
    <3>2. pc'[Watcher] = "dial"
      BY <3>1, PcMoves, Zenon
    <3> QED
      BY <2>0, <2>1, <3>1, <3>2 DEF CurrentInv, Installed
  <2>3. CASE WatcherReturns
    <3>1. newConn' = [newConn EXCEPT ![Watcher] = NoConn] /\ pc' = [pc EXCEPT ![Watcher] = "idle"]
      BY <2>3 DEF WatcherReturns, CallbackReturned, Step
    <3>2. pc'[Watcher] = "idle" /\ newConn'[Startup] = newConn[Startup]
      BY <3>1, <1>t, PcMoves
    <3>3. \/ wpc' = "rewatch" /\ pc[Watcher] = "ok" /\ wconn' = newConn[Watcher]
          \/ wpc' = "wait"
      BY <2>3 DEF WatcherReturns, ReconnectOk, ReconnectFail, Goto, Step
    <3> QED
      BY <2>0, <2>1, <3>2, <3>3 DEF CurrentInv, Installed
  <2>4. CASE WatcherAlone
    <3>1. UNCHANGED <<pc, newConn, wconn>>
      BY <2>4 DEF WatcherAlone, WatchNotified, WatchShut, WatchStopped, MarkDisconnected,
         Rewatch, BackoffElapsed, clientVars, locVars
    <3>2. wpc' \in {"rewatch", "watch"} => wpc = "rewatch"
      BY <2>4 DEF WatcherAlone, WatchNotified, WatchShut, WatchStopped, MarkDisconnected,
         Rewatch, BackoffElapsed, Goto
    <3> QED
      BY <2>0, <2>1, <3>1, <3>2 DEF CurrentInv, Installed
  <2> QED
    BY <1>4, <2>2, <2>3, <2>4 DEF WatcherRuns
<1>5. ASSUME NEW s \in Subs, SubStep(s) PROVE CurrentInv'
  <2>1. UNCHANGED <<connection, connNotify, closing, wpc, wconn, newConn>>
    BY <1>5, SubEffect DEF cmVars, mgrVars, regVars
  <2>2. pc'[Startup] = pc[Startup] /\ pc'[Watcher] = pc[Watcher]
    BY <1>5, SubEffect DEF OthersKept
  <2> QED
    BY <1>0, <2>1, <2>2 DEF Installed
<1>6. ASSUME NEW l \in Loops, LoopStep(l) PROVE CurrentInv'
  BY <1>0, <1>6, LoopEffect DEF Installed, cmVars, mgrVars, regVars, locVars
<1>7. ASSUME NEW s \in Stoppers, EndStep(s) PROVE CurrentInv'
  <2>1. closing' /\ connection' \in {connection, NoConn} /\ UNCHANGED <<pc, newConn, connNotify>>
        /\ (connection' # connection => closing)
    BY <1>7, EndEffect DEF locVars
  <2>2. ~Starting \/ UNCHANGED connection
    BY <2>1 DEF PhaseInv, Starting
  <2> QED
    BY <2>1, <2>2 DEF CurrentInv, Installed, Starting
<1>8. CASE (\E c \in Conns : Drop(c)) \/ UNCHANGED vars
  <2>1. UNCHANGED <<connection, connNotify, closing, wpc, wconn, newConn, pc>>
    BY <1>8 DEF Drop, vars, clientVars, mgrVars, cmVars, regVars, locVars, endVars
  <2> QED
    BY <1>0, <2>1 DEF Installed
<1> QED
  BY <1>1, <1>2, <1>3, <1>4, <1>5, <1>6, <1>7, <1>8, StepCases


-----------------------------------------------------------------------------
(* The registries                                                          *)

\* Startup builds before the manager reports a connection and the callback while it
\* reports none, and neither while the other does.
LEMMA BuilderBusy ==
    ASSUME Forcers = {}, PhaseInv, OutageReported, NEW p \in {Startup, Watcher}, BuildStep(p)
    PROVE  /\ ~connected
           /\ p = Startup => Starting /\ pc[Watcher] = "idle"
           /\ p = Watcher => pc[Watcher] # "idle" /\ ~Starting
<1> USE Processes
<1>1. pc[p] \in {"dial", "set", "clear", "clearConsumers", "producers", "regProducer",
                 "consumers", "regConsumer", "snapshot", "loops", "open", "consume"}
  BY DEF BuildStep, BuilderStep, BuildFails, DialOk, DialFail, SetConnection, DiscardProducers,
     DiscardConsumers, OpenChannel, OpenChannelPanics, RegisterChannel, ProducersDone,
     ConsumersDone, Snapshot, PickSubscription, SkipSubscription, LoopsDone, Step
<1>2. CASE p = Startup
  BY <1>1, <1>2 DEF PhaseInv, Starting
<1>3. CASE p = Watcher
  BY <1>1, <1>3 DEF PhaseInv, OutageReported
<1> QED
  BY <1>2, <1>3

\* A builder fills the registries one after the other with channels of r.connection.
LEMMA BuildRegistry ==
    ASSUME TypeOK, PhaseInv, NEW p \in {Startup, Watcher}, BuildStep(p), BuildInv(p)
    PROVE  BuildInv(p)'
<1> USE Processes
<1> p \in Procs
  OBVIOUS
<1>v. ASSUME NEW to \in {"set", "wire", "clear", "clearConsumers", "fail"}, pc'[p] = to
      PROVE  BuildInv(p)'
  BY <1>v DEF BuildInv
<1>k. ASSUME pc[p] \in {"snapshot", "loops"}, pc'[p] \in {"loops", "open", "ok"},
             UNCHANGED regVars
      PROVE  BuildInv(p)'
  <2>1. AllProducers /\ AllConsumers
    BY <1>k DEF BuildInv
  <2>2. AllProducers' /\ AllConsumers'
    BY <1>k, <2>1 DEF AllProducers, AllConsumers, regVars
  <2> QED
    BY <1>k, <2>2 DEF BuildInv
<1>1. CASE (\E c \in Conns : DialOk(p, c)) \/ DialFail(p) \/ SetConnection(p) \/ DiscardProducers(p)
           \/ BuildFails(p)
  <2>1. PICK to \in {"set", "wire", "clear", "clearConsumers", "fail"} : pc' = [pc EXCEPT ![p] = to]
    BY <1>1 DEF DialOk, DialFail, SetConnection, DiscardProducers, BuildFails, Step
  <2> QED
    BY <1>v, <2>1, PcMoves, Zenon
<1>2. CASE DiscardConsumers(p)
  <2>1. pc' = [pc EXCEPT ![p] = "producers"] /\ todo' = [todo EXCEPT ![p] = Producers]
    BY <1>2 DEF DiscardConsumers, Step
  <2>2. pc'[p] = "producers" /\ todo'[p] = Producers
    BY <2>1, PcMoves DEF TypeOK, LocTypeOK
  <2> QED
    BY <2>2 DEF BuildInv
<1>3. ASSUME NEW x \in Producers \cup Consumers, OpenChannel(p, x) PROVE BuildInv(p)'
  <2>1. /\ target' = [target EXCEPT ![p] = connection] /\ cur' = [cur EXCEPT ![p] = x]
        /\ todo' = [todo EXCEPT ![p] = @ \ {x}] /\ UNCHANGED <<connection, producers, consumers>>
    BY <1>3 DEF OpenChannel, regVars
  <2>2. target'[p] = connection /\ cur'[p] = x /\ todo'[p] = todo[p] \ {x}
    BY <2>1 DEF TypeOK, LocTypeOK
  <2>3. CASE Step(p, "producers", "regProducer")
    <3>1. pc[p] = "producers" /\ pc'[p] = "regProducer"
      BY <2>3, PcMoves, Zenon DEF Step
    <3> QED
      BY <2>1, <2>2, <3>1 DEF BuildInv
  <2>4. CASE Step(p, "consumers", "regConsumer")
    <3>1. pc[p] = "consumers" /\ pc'[p] = "regConsumer"
      BY <2>4, PcMoves, Zenon DEF Step
    <3>2. AllProducers'
      BY <2>1, <3>1 DEF BuildInv, AllProducers
    <3> QED
      BY <2>1, <2>2, <3>1, <3>2 DEF BuildInv
  <2> QED
    BY <1>3, <2>3, <2>4 DEF OpenChannel
<1>4. CASE OpenChannelPanics(p)
  BY <1>4, Zenon DEF OpenChannelPanics, BuildInv, AllProducers, AllConsumers, regVars, locVars
<1>5. CASE RegisterChannel(p)
  <2>0. UNCHANGED <<connection, todo>>
    BY <1>5, Zenon DEF RegisterChannel
  <2>1. CASE Step(p, "regProducer", "producers") /\ producers' = [producers EXCEPT ![cur[p]] = target[p]]
    <3>1. pc[p] = "regProducer" /\ pc'[p] = "producers" /\ target[p] = connection
      BY <2>1, PcMoves, Zenon DEF Step, BuildInv
    <3>2. \A x \in Producers : producers'[x] = IF x = cur[p] THEN connection ELSE producers[x]
      BY <2>1, <3>1 DEF TypeOK, RegTypeOK
    <3> QED
      BY <2>0, <3>1, <3>2, Zenon DEF BuildInv
  <2>2. CASE /\ Step(p, "regConsumer", "consumers")
             /\ consumers' = [consumers EXCEPT ![cur[p]] = target[p]]
             /\ UNCHANGED producers
    <3>1. pc[p] = "regConsumer" /\ pc'[p] = "consumers" /\ target[p] = connection
      BY <2>2, PcMoves, Zenon DEF Step, BuildInv
    <3>2. \A x \in Consumers : consumers'[x] = IF x = cur[p] THEN connection ELSE consumers[x]
      BY <2>2, <3>1 DEF TypeOK, RegTypeOK
    <3>3. AllProducers'
      BY <2>0, <2>2, <3>1 DEF BuildInv, AllProducers
    <3> QED
      BY <2>0, <3>1, <3>2, <3>3 DEF BuildInv
  <2> QED
    BY <1>5, <2>1, <2>2, Zenon DEF RegisterChannel
<1>6. CASE ProducersDone(p)
  <2>1. /\ pc[p] = "producers" /\ todo[p] = {} /\ todo' = [todo EXCEPT ![p] = Consumers]
        /\ pc' = [pc EXCEPT ![p] = "consumers"] /\ UNCHANGED <<connection, producers>>
    BY <1>6 DEF ProducersDone, Step, regVars
  <2>2. pc'[p] = "consumers" /\ todo'[p] = Consumers
    BY <2>1, PcMoves DEF TypeOK, LocTypeOK
  <2>3. AllProducers'
    BY <2>1 DEF BuildInv, AllProducers
  <2> QED
    BY <2>2, <2>3, Zenon DEF BuildInv
<1>7. CASE ConsumersDone(p)
  <2>1. /\ pc[p] = "consumers" /\ todo[p] = {} /\ UNCHANGED <<connection, producers, consumers>>
        /\ pc' = [pc EXCEPT ![p] = IF p = Startup THEN "start" ELSE "snapshot"]
    BY <1>7 DEF ConsumersDone, Step, regVars
  <2>2. pc'[p] \in {"start", "snapshot"}
    BY <2>1, PcMoves, Zenon
  <2>3. AllProducers' /\ AllConsumers'
    BY <2>1 DEF BuildInv, AllProducers, AllConsumers
  <2> QED
    BY <2>2, <2>3 DEF BuildInv
<1>8. CASE Snapshot(p) \/ LoopsDone(p) \/ \E s \in Subs : PickSubscription(p, s)
  <2>1. PICK to \in {"loops", "open", "ok"} : pc' = [pc EXCEPT ![p] = to]
    BY <1>8 DEF Snapshot, LoopsDone, PickSubscription, Step
  <2>2. pc[p] \in {"snapshot", "loops"} /\ UNCHANGED regVars
    BY <1>8 DEF Snapshot, LoopsDone, PickSubscription, Step
  <2> QED
    BY <1>k, <2>1, <2>2, PcMoves, Zenon
<1>9. CASE \E s \in Subs : SkipSubscription(p, s)
  BY <1>9, <1>k DEF SkipSubscription
<1> QED
  BY <1>1, <1>2, <1>3, <1>4, <1>5, <1>6, <1>7, <1>8, <1>9 DEF BuildStep, BuilderStep


\* Nothing but a builder and the shutdown touches the registries.
LEMMA RegistryPreserved ==
    ASSUME Forcers = {}, TypeOK, LocInv, DrainInv, PhaseInv, OutageReported, CurrentInv,
           RegistryInv, [Next]_vars
    PROVE  RegistryInv'
<1> USE Processes
<1>0. ASSUME UNCHANGED <<regVars, closing>>, connected' => connected,
             \A p \in {Startup, Watcher} : /\ pc'[p] = pc[p] /\ target'[p] = target[p]
                                           /\ cur'[p] = cur[p] /\ todo'[p] = todo[p]
      PROVE  RegistryInv'
  <2>1. CASE closing
    BY <1>0, <2>1 DEF RegistryInv
  <2>2. CASE ~closing
    <3>1. RegistryIsCurrent'
      BY <1>0, <2>2 DEF RegistryInv, RegistryIsCurrent, regVars
    <3>2. ASSUME NEW p \in {Startup, Watcher}, BuildInv(p) PROVE BuildInv(p)'
      BY <1>0, <3>2 DEF BuildInv, AllProducers, AllConsumers, regVars
    <3> QED
      BY <2>2, <3>1, <3>2 DEF RegistryInv
  <2> QED
    BY <2>1, <2>2
<1>i. /\ pc'[Watcher] \in {"idle", "dial"} => BuildInv(Watcher)'
      /\ pc'[Startup] \in {"finish", "health", "ok", "fail"} => BuildInv(Startup)'
  BY DEF BuildInv
<1>1. ASSUME NEW p \in {Startup, Watcher}, BuildStep(p) PROVE RegistryInv'
  <2>1. /\ UNCHANGED <<connected, closing>>
        /\ \A q \in {Startup, Watcher} : q # p => pc'[q] = pc[q]
    BY <1>1, BuildEffect, Zenon DEF endVars, OthersKept
  <2>2. /\ ~connected
        /\ p = Startup => Starting /\ pc[Watcher] = "idle"
        /\ p = Watcher => pc[Watcher] # "idle" /\ ~Starting
    BY <1>1, BuilderBusy
  <2>3. RegistryIsCurrent'
    BY <2>1, <2>2 DEF RegistryIsCurrent
  <2>4. CASE closing
    BY <2>1, <2>4 DEF RegistryInv
  <2>5. CASE ~closing
    <3>1. BuildInv(p)'
      <4>1. BuildInv(p)
        BY <2>5 DEF RegistryInv
      <4> QED
        BY <1>1, <4>1, BuildRegistry
    <3>2. p = Startup => BuildInv(Watcher)'
      BY <1>i, <2>1, <2>2
    <3>3. p = Watcher => BuildInv(Startup)'
      BY <1>i, <2>1, <2>2 DEF PhaseInv
    <3> QED
      BY <2>3, <3>1, <3>2, <3>3 DEF RegistryInv
  <2> QED
    BY <2>4, <2>5
<1>2. ASSUME NEW p \in Procs, StartDispatchLoop(p) \/ \E l \in Loops : Consume(p, l)
      PROVE  RegistryInv'
  <2>1. UNCHANGED <<regVars, connected, closing, todo>>
    BY <1>2 DEF StartDispatchLoop, Consume, cmVars, mgrVars, endVars
  <2>2. PICK to \in {"consume", "ok", "loops"} :
           /\ pc' = [pc EXCEPT ![p] = to]
           /\ pc[p] \in {"open", "consume"}
           /\ to = "ok" => p \in Subs
    BY <1>2 DEF StartDispatchLoop, Consume, Step
  <2>3. pc'[p] = to /\ \A q \in Procs : q # p => pc'[q] = pc[q]
    BY <2>2, PcMoves, Zenon
  <2>4. /\ UNCHANGED cur \/ \E v : cur' = [cur EXCEPT ![p] = v]
        /\ UNCHANGED target \/ \E v : target' = [target EXCEPT ![p] = v]
    BY <1>2, Zenon DEF StartDispatchLoop, Consume, DropBody
  <2>5. \A q \in Procs : q # p => cur'[q] = cur[q] /\ target'[q] = target[q]
    BY <2>4 DEF TypeOK, LocTypeOK
  <2>6. p # Startup
    BY <2>2 DEF PhaseInv, Starting
  <2>7. CASE p # Watcher
    BY <1>0, <2>1, <2>3, <2>5, <2>6, <2>7
  <2>8. CASE p = Watcher
    <3>1. CASE closing
      BY <2>1, <3>1 DEF RegistryInv
    <3>2. CASE ~closing
      <4>1. AllProducers /\ AllConsumers
        BY <2>2, <2>8, <3>2 DEF RegistryInv, BuildInv
      <4>2. AllProducers' /\ AllConsumers'
        BY <2>1, <4>1 DEF AllProducers, AllConsumers, regVars
      <4>3. BuildInv(Watcher)'
        BY <2>2, <2>3, <2>8, <4>2 DEF BuildInv
      <4>4. ~Starting /\ pc'[Startup] = pc[Startup]
        BY <2>2, <2>3, <2>8 DEF PhaseInv
      <4>5. BuildInv(Startup)'
        BY <1>i, <4>4 DEF PhaseInv
      <4>6. RegistryIsCurrent'
        BY <2>1, <3>2 DEF RegistryInv, RegistryIsCurrent, regVars
      <4> QED
        BY <4>3, <4>5, <4>6 DEF RegistryInv
    <3> QED
      BY <3>1, <3>2
  <2> QED
    BY <2>7, <2>8
<1>3. CASE StartupStep
  <2>0. UNCHANGED <<regVars, closing>> /\ pc'[Watcher] = pc[Watcher]
    BY <1>3, ManagerEffect DEF endVars
  <2>c. CASE closing
    BY <2>0, <2>c DEF RegistryInv
  <2>1. CASE WireManager
    <3>1. /\ pc[Startup] = "wire" /\ pc' = [pc EXCEPT ![Startup] = "producers"]
          /\ todo' = [todo EXCEPT ![Startup] = Producers] /\ UNCHANGED connected
      BY <2>1 DEF WireManager, Wire, Step
    <3>2. pc'[Startup] = "producers" /\ todo'[Startup] = Producers
      BY <3>1, PcMoves DEF TypeOK, LocTypeOK
    <3>3. ~connected /\ pc[Watcher] = "idle"
      BY <3>1 DEF PhaseInv, Starting
    <3>4. BuildInv(Startup)'
      BY <3>2 DEF BuildInv
    <3>5. BuildInv(Watcher)' /\ RegistryIsCurrent'
      BY <1>i, <2>0, <3>1, <3>3 DEF RegistryIsCurrent
    <3> QED
      BY <3>4, <3>5 DEF RegistryInv
  <2>2. CASE StartManagers /\ ~closing
    <3>1. /\ pc[Startup] = "start" /\ pc' = [pc EXCEPT ![Startup] = "finish"]
      BY <2>2 DEF StartManagers, Step
    <3>2. pc'[Startup] = "finish"
      BY <3>1, PcMoves, Zenon
    <3>3. pc[Watcher] = "idle"
      BY <3>1 DEF PhaseInv, Starting
    <3>4. AllProducers /\ AllConsumers
      BY <2>2, <3>1 DEF RegistryInv, BuildInv
    <3>5. connection # NoConn
      BY <3>1, ConnAssumption DEF CurrentInv, ConnAssumption
    <3>6. RegistryIsCurrent'
      BY <2>0, <3>4, <3>5 DEF RegistryIsCurrent, AllProducers, AllConsumers, regVars
    <3>7. BuildInv(Watcher)' /\ BuildInv(Startup)'
      BY <1>i, <2>0, <3>2, <3>3
    <3> QED
      BY <3>6, <3>7 DEF RegistryInv
  <2>3. CASE (FinishStartup \/ CheckHealth) /\ ~closing
    <3>1. PICK to \in {"health", "ok", "fail"} :
              pc' = [pc EXCEPT ![Startup] = to] /\ UNCHANGED <<connected, todo, cur, target>>
      BY <2>3 DEF FinishStartup, CheckHealth, Step, cmVars, mgrVars, locVars
    <3>2. pc'[Startup] = to
      BY <3>1, PcMoves, Zenon
    <3>3. BuildInv(Startup)'
      BY <1>i, <3>2
    <3>4. BuildInv(Watcher)'
      BY <2>0, <2>3, <3>1, Zenon DEF RegistryInv, BuildInv, AllProducers, AllConsumers, regVars
    <3>5. RegistryIsCurrent'
      BY <2>0, <2>3, <3>1, Zenon DEF RegistryInv, RegistryIsCurrent, regVars
    <3> QED
      BY <3>3, <3>4, <3>5 DEF RegistryInv
  <2> QED
    BY <1>3, <2>c, <2>1, <2>2, <2>3 DEF StartupStep
<1>4. CASE WatcherRuns
  <2>0. UNCHANGED <<regVars, closing, cur, target>> /\ pc'[Startup] = pc[Startup]
    BY <1>4, ManagerEffect, Zenon DEF endVars
  <2>t. UNCHANGED todo
    BY <1>4 DEF WatcherRuns, WatcherBegins, WatcherReturns, WatcherAlone, CallbackReturned,
       clientVars, locVars
  <2>c. CASE closing
    BY <2>0, <2>c, Zenon DEF RegistryInv
  <2>s. ~closing => BuildInv(Startup)'
    BY <2>0, <2>t DEF RegistryInv, BuildInv, AllProducers, AllConsumers, regVars
  <2>1. CASE WatcherBegins /\ ~closing
    <3>1. pc' = [pc EXCEPT ![Watcher] = "dial"] /\ UNCHANGED connected
      BY <2>1 DEF WatcherBegins, CallReconnect, Step
    <3>2. BuildInv(Watcher)'
      BY <3>1, <1>i, PcMoves, Zenon
    <3>3. RegistryIsCurrent'
      BY <2>0, <2>1, <3>1 DEF RegistryInv, RegistryIsCurrent, regVars
    <3> QED
      BY <2>1, <2>s, <3>2, <3>3 DEF RegistryInv
  <2>2. CASE WatcherReturns /\ ~closing
    <3>1. pc' = [pc EXCEPT ![Watcher] = "idle"]
      BY <2>2 DEF WatcherReturns, Step
    <3>2. BuildInv(Watcher)'
      BY <3>1, <1>i, PcMoves, Zenon
    <3>3. CASE pc[Watcher] = "ok"
      <4>1. AllProducers /\ AllConsumers
        BY <2>2, <3>3 DEF RegistryInv, BuildInv
      <4>2. connection = newConn[Watcher] /\ newConn[Watcher] \in Conns
        BY <2>2, <3>3 DEF CurrentInv, Installed, LocInv, Dialled
      <4> QED
        BY <2>0, <2>2, <2>s, <3>2, <4>1, <4>2, ConnAssumption
           DEF RegistryInv, RegistryIsCurrent, AllProducers, AllConsumers, regVars, ConnAssumption
    <3>4. CASE pc[Watcher] # "ok"
      <4>1. UNCHANGED connected
        BY <2>2, <3>4 DEF WatcherReturns, ReconnectFail, Step
      <4>2. RegistryIsCurrent'
        BY <2>0, <2>2, <4>1, Zenon DEF RegistryInv, RegistryIsCurrent, regVars
      <4> QED
        BY <2>2, <2>s, <3>2, <4>2 DEF RegistryInv
    <3> QED
      BY <3>3, <3>4
  <2>3. CASE WatcherAlone
    <3>1. UNCHANGED pc
      BY <2>3 DEF WatcherAlone
    <3>2. connected' => connected
      BY <2>3, Zenon DEF WatcherAlone, WatchNotified, WatchShut, WatchStopped, MarkDisconnected,
         Rewatch, BackoffElapsed
    <3> QED
      BY <1>0, <2>0, <2>t, <3>1, <3>2
  <2> QED
    BY <1>4, <2>c, <2>1, <2>2, <2>3 DEF WatcherRuns
<1>5. ASSUME NEW s \in Subs, SubStep(s) PROVE RegistryInv'
  <2>1. UNCHANGED <<regVars, connected, closing>> /\ OthersKept(s)
    BY <1>5, SubEffect DEF cmVars, mgrVars
  <2> QED
    BY <1>0, <2>1 DEF OthersKept
<1>6. ASSUME NEW l \in Loops, LoopStep(l) PROVE RegistryInv'
  BY <1>0, <1>6, LoopEffect DEF cmVars, mgrVars, locVars
<1>7. ASSUME NEW s \in Stoppers, EndStep(s) PROVE RegistryInv'
  BY <1>7, EndEffect DEF RegistryInv
<1>8. CASE (\E c \in Conns : Drop(c)) \/ UNCHANGED vars
  <2>1. UNCHANGED <<regVars, closing, connected, pc, target, cur, todo>>
    BY <1>8 DEF Drop, vars, clientVars, mgrVars, cmVars, locVars, endVars
  <2> QED
    BY <1>0, <2>1
<1> QED
  BY <1>1, <1>2, <1>3, <1>4, <1>5, <1>6, <1>7, <1>8, StepCases


-----------------------------------------------------------------------------
(* The theorems                                                            *)

\* With only the watcher to reconnect.
WatcherOnly == Forcers = {} => RebuildInv

\* Nothing is connected or registered at first.
LEMMA RebuildInit == Init => RebuildInv
<1> SUFFICES ASSUME Init PROVE RebuildInv
  OBVIOUS
<1> USE Processes DEF Init
<1>0. /\ pc[Startup] = "dial" /\ pc[Watcher] = "idle" /\ \A s \in Subs : pc[s] = "idle"
      /\ connection = NoConn /\ wpc = "none" /\ ~connected /\ ~closing
  BY DEF CMInit
<1>1. PhaseInv
  BY <1>0 DEF PhaseInv, Starting
<1>2. \A l \in Loops : loops[l] = NoLoop
  OBVIOUS
<1>3. DialledInv
  BY <1>0, <1>2, EmptySlot DEF DialledInv, Builders
<1>4. CurrentInv
  BY <1>0 DEF CurrentInv, Installed
<1>5. RegistryInv
  BY <1>0 DEF RegistryInv, BuildInv, RegistryIsCurrent
<1> QED
  BY <1>1, <1>3, <1>4, <1>5 DEF RebuildInv

\* Startup, the watcher's callback, Subscribe, the dispatch goroutines, the shutdown
\* and lost connections together keep RebuildInv, if nobody calls ForceReconnect.
THEOREM RebuildInvariant == Safety => []WatcherOnly
<1>1. Init => WatcherOnly
  BY RebuildInit DEF WatcherOnly
<1>2. ClientInv /\ OutageReported /\ WatcherOnly /\ [Next]_vars => WatcherOnly'
  <2> SUFFICES ASSUME ClientInv, OutageReported, Forcers = {}, RebuildInv, [Next]_vars
               PROVE  RebuildInv'
    BY DEF WatcherOnly
  <2>1. TypeOK /\ LocInv /\ StopFirst /\ DrainInv
    BY DEF ClientInv
  <2>2. PhaseInv /\ DialledInv /\ CurrentInv /\ RegistryInv
    BY DEF RebuildInv
  <2>3. PhaseInv'
    BY <2>1, <2>2, PhasePreserved
  <2>4. DialledInv'
    BY <2>1, <2>2, DialledPreserved
  <2>5. CurrentInv'
    BY <2>1, <2>2, CurrentPreserved
  <2>6. RegistryInv'
    BY <2>1, <2>2, RegistryPreserved
  <2> QED
    BY <2>3, <2>4, <2>5, <2>6 DEF RebuildInv
<1>3. Safety => []OutageReported
  BY ManagerSafeInClient, PTL
<1> QED
  BY <1>1, <1>2, <1>3, ClientInvariant, PTL DEF Safety

\* While the manager reports a connection every registered producer and consumer
\* channel is one of r.connection: startup and each reconnect replace all of them
\* before they set the flag, however the loss of connections, failed attempts and
\* Subscribe calls fall in between.
THEOREM RegistryStaysCurrent == Safety => []RegistryIsCurrent
<1>1. WatcherOnly => RegistryIsCurrent
  BY DEF WatcherOnly, RebuildInv, RegistryInv, RegistryIsCurrent
<1> QED
  BY <1>1, RebuildInvariant, PTL

\* The connection the watcher waits on is the one in use, so that its loss starts a
\* reconnect.
THEOREM ConnectionIsMonitored == Safety => []MonitorsConnection
<1>1. WatcherOnly => MonitorsConnection
  BY DEF WatcherOnly, RebuildInv, CurrentInv, MonitorsConnection
<1> QED
  BY <1>1, RebuildInvariant, PTL

=============================================================================
