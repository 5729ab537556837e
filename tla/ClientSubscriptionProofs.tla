---------------------- MODULE ClientSubscriptionProofs ----------------------
(***************************************************************************)
(* What a reconnect does for the subscriptions, for any number of them and *)
(* of dispatch goroutines, as long as nobody calls ForceReconnect: each    *)
(* is served on r.connection, and restarted on it once.                    *)
(***************************************************************************)
EXTENDS ClientRebuildProofs

\* The rebuild is going to start a goroutine for s; so is its own Subscribe call, if
\* it does not return an error.
Pending(s) ==
    \/ pc[Watcher] \in {"loops", "open", "consume"} /\ s \in todo[Watcher]
    \/ pc[Watcher] \in {"open", "consume"} /\ s = cur[Watcher]

Subscribing(s) == pc[s] \in {"open", "fail"} \/ (pc[s] = "consume" /\ target[s] = connection)

\* The rebuild restarts recorded subscriptions on the connection it dialled, and a
\* Subscribe call starts its own.
RestartInv ==
    /\ \A s \in Subs : pc[s] \in {"open", "consume"} => cur[s] = s
    /\ pc[Watcher] \in {"loops", "open", "consume"} =>
          \A s \in todo[Watcher] : s \in Subs /\ subs[s] # NoName
    /\ pc[Watcher] = "consume" => target[Watcher] = newConn[Watcher]

\* Subscription s has a goroutine on r.connection, or needs none, or will have one.
Covered(s) == Served(s) \/ s \in cancelled \cup revoked \/ Pending(s) \/ Subscribing(s)

\* From the moment the rebuild has copied the subscriptions all of them are covered.
Serving == connected \/ pc[Watcher] \in {"loops", "open", "consume", "ok"}

ServeInv ==
    ~closing /\ IsOpen(connection) /\ Serving => \A s \in Subs : subs[s] # NoName => Covered(s)

\* What the rebuild has restarted on the connection it dialled is ticked off.
OnceInv ==
    /\ pc[Watcher] \in {"set", "clear", "clearConsumers", "producers", "regProducer",
                        "consumers", "regConsumer", "snapshot"} =>
          \A l \in Loops : loops[l].conn = newConn[Watcher] => loops[l].user
    /\ pc[Watcher] \in {"loops", "open", "consume"} =>
          \A l \in Loops : loops[l].conn = newConn[Watcher] /\ ~loops[l].user =>
              /\ loops[l].sub \notin todo[Watcher]
              /\ pc[Watcher] # "loops" => loops[l].sub # cur[Watcher]
    /\ pc[Watcher] \in {"open", "consume"} => cur[Watcher] \notin todo[Watcher]
    /\ RestartedOnce

\* With only the watcher to reconnect.
SubscriptionInv == Forcers = {} => RestartInv /\ ServeInv /\ OnceInv

-----------------------------------------------------------------------------
(* The subscriptions                                                       *)

\* The steps of the rebuild after it has copied the subscriptions.
LEMMA RestartSteps ==
    ASSUME TypeOK, BuildStep(Watcher), pc'[Watcher] \in {"loops", "open", "consume", "ok"}
    PROVE  \/ Snapshot(Watcher) \/ LoopsDone(Watcher)
           \/ \E s \in Subs : PickSubscription(Watcher, s) \/ SkipSubscription(Watcher, s)
<1> USE Processes
<1>1. ASSUME NEW to \in {"set", "clear", "clearConsumers", "producers", "regProducer", "consumers",
                         "regConsumer", "snapshot", "fail"},
             pc' = [pc EXCEPT ![Watcher] = to]
      PROVE  FALSE
  BY <1>1, PcMoves, Zenon
<1>2. CASE (\E c \in Conns : DialOk(Watcher, c)) \/ DialFail(Watcher) \/ SetConnection(Watcher)
           \/ BuildFails(Watcher)
  BY <1>1, <1>2 DEF DialOk, DialFail, SetConnection, BuildFails, Step
<1>3. CASE DiscardProducers(Watcher) \/ DiscardConsumers(Watcher) \/ ProducersDone(Watcher)
           \/ ConsumersDone(Watcher) \/ RegisterChannel(Watcher)
           \/ \E x \in Producers \cup Consumers : OpenChannel(Watcher, x)
  BY <1>1, <1>3 DEF DiscardProducers, DiscardConsumers, ProducersDone, ConsumersDone,
     RegisterChannel, OpenChannel, Step
<1>4. CASE OpenChannelPanics(Watcher)
  BY <1>4 DEF OpenChannelPanics
<1> QED
  BY <1>2, <1>3, <1>4 DEF BuildStep, BuilderStep

\* What the steps of the rebuild do to the list of subscriptions to restart.
LEMMA RestartEffect ==
    ASSUME TypeOK, BuildStep(Watcher), pc'[Watcher] \in {"loops", "open", "consume", "ok"}
    PROVE  /\ UNCHANGED <<cmVars, regVars, newConn, subVars, closing>>
           /\ \/ /\ pc[Watcher] = "snapshot" /\ pc'[Watcher] = "loops"
                 /\ todo'[Watcher] = {s \in Subs : subs[s] # NoName}
              \/ /\ pc[Watcher] = "loops" /\ pc'[Watcher] = "ok" /\ todo[Watcher] = {}
              \/ /\ pc[Watcher] = "loops" /\ pc'[Watcher] = "open"
                 /\ cur'[Watcher] \in todo[Watcher]
                 /\ todo'[Watcher] = todo[Watcher] \ {cur'[Watcher]}
              \/ /\ pc[Watcher] = "loops" /\ pc'[Watcher] = "loops"
                 /\ \E s \in todo[Watcher] \cap Subs :
                       /\ consumers[subs[s]] = NoConn
                       /\ todo'[Watcher] = todo[Watcher] \ {s}
<1> USE Processes
<1>1. UNCHANGED <<cmVars, regVars, newConn, subVars, closing>>
  BY RestartSteps DEF Snapshot, LoopsDone, PickSubscription, SkipSubscription, locVars, endVars
<1>2. CASE Snapshot(Watcher)
  <2>1. /\ pc[Watcher] = "snapshot" /\ pc' = [pc EXCEPT ![Watcher] = "loops"]
        /\ todo' = [todo EXCEPT ![Watcher] = {s \in Subs : subs[s] # NoName}]
    BY <1>2 DEF Snapshot, Step
  <2>2. pc'[Watcher] = "loops" /\ todo'[Watcher] = {s \in Subs : subs[s] # NoName}
    BY <2>1, PcMoves DEF TypeOK, LocTypeOK
  <2> QED
    BY <1>1, <2>1, <2>2
<1>3. CASE LoopsDone(Watcher)
  <2>1. /\ pc[Watcher] = "loops" /\ pc' = [pc EXCEPT ![Watcher] = "ok"] /\ todo[Watcher] = {}
    BY <1>3 DEF LoopsDone, Step
  <2>2. pc'[Watcher] = "ok"
    BY <2>1, PcMoves, Zenon
  <2> QED
    BY <1>1, <2>1, <2>2
<1>4. ASSUME NEW s \in Subs, PickSubscription(Watcher, s)
      PROVE  /\ pc[Watcher] = "loops" /\ pc'[Watcher] = "open"
             /\ cur'[Watcher] \in todo[Watcher]
             /\ todo'[Watcher] = todo[Watcher] \ {cur'[Watcher]}
  <2>1. /\ pc[Watcher] = "loops" /\ pc' = [pc EXCEPT ![Watcher] = "open"] /\ s \in todo[Watcher]
        /\ cur' = [cur EXCEPT ![Watcher] = s] /\ todo' = [todo EXCEPT ![Watcher] = @ \ {s}]
    BY <1>4 DEF PickSubscription, Step
  <2>2. pc'[Watcher] = "open" /\ cur'[Watcher] = s /\ todo'[Watcher] = todo[Watcher] \ {s}
    BY <2>1, PcMoves DEF TypeOK, LocTypeOK
  <2> QED
    BY <2>1, <2>2
<1>5. ASSUME NEW s \in Subs, SkipSubscription(Watcher, s)
      PROVE  /\ pc[Watcher] = "loops" /\ pc'[Watcher] = "loops" /\ s \in todo[Watcher]
             /\ consumers[subs[s]] = NoConn /\ todo'[Watcher] = todo[Watcher] \ {s}
  BY <1>5 DEF SkipSubscription, TypeOK, LocTypeOK
<1> QED
  BY <1>1, <1>2, <1>3, <1>4, <1>5, RestartSteps

\* StartDispatchLoop and Consume in goroutine p.
LEMMA DispatchEffect ==
    ASSUME TypeOK, PhaseInv, Forcers = {}, NEW p \in Procs,
           StartDispatchLoop(p) \/ \E l \in Loops : Consume(p, l)
    PROVE  /\ UNCHANGED <<cmVars, regVars, newConn, todo, subs, cancelled, revoked, closing>>
           /\ OthersKept(p)
           /\ p = Watcher \/ p \in Subs
           /\ StartDispatchLoop(p) => /\ pc[p] = "open" /\ pc'[p] = "consume"
                                      /\ IsOpen(connection) /\ target'[p] = connection
                                      /\ UNCHANGED <<cur, loops>>
           /\ ~StartDispatchLoop(p) => /\ pc[p] = "consume" /\ IsOpen(target[p])
                                       /\ pc'[p] = IF p \in Subs THEN "ok" ELSE "loops"
<1> USE Processes
<1>1. UNCHANGED <<cmVars, regVars, newConn, todo, subs, cancelled, revoked, closing>>
  BY DEF StartDispatchLoop, Consume, subVars, endVars
<1>2. PICK to : pc' = [pc EXCEPT ![p] = to] /\ pc[p] \in {"open", "consume"}
  BY DEF StartDispatchLoop, Consume, Step
<1>3. /\ UNCHANGED cur \/ \E v : cur' = [cur EXCEPT ![p] = v]
      /\ UNCHANGED target \/ \E v : target' = [target EXCEPT ![p] = v]
  BY DEF StartDispatchLoop, Consume, DropBody
<1>4. OthersKept(p)
  BY <1>1, <1>2, <1>3, OwnLocals, Zenon
<1>5. p = Watcher \/ p \in Subs
  BY <1>2 DEF PhaseInv, Starting, Procs, Builders
<1>6. ASSUME StartDispatchLoop(p)
      PROVE  /\ pc[p] = "open" /\ pc'[p] = "consume"
             /\ IsOpen(connection) /\ target'[p] = connection
             /\ UNCHANGED <<cur, loops>>
  <2>1. /\ pc[p] = "open" /\ pc' = [pc EXCEPT ![p] = "consume"] /\ IsOpen(connection)
        /\ target' = [target EXCEPT ![p] = connection] /\ UNCHANGED <<cur, loops>>
    BY <1>6 DEF StartDispatchLoop, Step, subVars
  <2>2. pc'[p] = "consume" /\ target'[p] = connection
    BY <2>1, PcMoves DEF TypeOK, LocTypeOK
  <2> QED
    BY <2>1, <2>2
<1>7. ASSUME NEW l \in Loops, Consume(p, l)
      PROVE  /\ pc[p] = "consume" /\ IsOpen(target[p])
             /\ pc'[p] = IF p \in Subs THEN "ok" ELSE "loops"
  <2>1. /\ pc[p] = "consume" /\ IsOpen(target[p])
        /\ pc' = [pc EXCEPT ![p] = IF p \in Subs THEN "ok" ELSE "loops"]
    BY <1>7 DEF Consume, Step
  <2> QED
    BY <2>1, PcMoves, Zenon
<1> QED
  BY <1>1, <1>4, <1>5, <1>6, <1>7


\* A recorded subscription stays recorded, the list only shrinks, and the rebuild
\* reads the connection it has set itself.
LEMMA RestartPreserved ==
    ASSUME Forcers = {}, TypeOK, LocInv, DrainInv, PhaseInv, OutageReported, CurrentInv,
           RestartInv, [Next]_vars
    PROVE  RestartInv'
<1> USE Processes
<1>0. ASSUME \A s \in Subs : pc'[s] \in {"open", "consume"} => cur'[s] = s,
             \A s \in Subs : subs[s] # NoName => subs'[s] # NoName,
             pc'[Watcher] = pc[Watcher] \/ pc'[Watcher] \in {"idle", "dial"},
             UNCHANGED <<todo[Watcher], target[Watcher]>>,
             newConn'[Watcher] = newConn[Watcher] \/ pc'[Watcher] \in {"idle", "dial"}
      PROVE  RestartInv'
  BY <1>0 DEF RestartInv
<1>s. ASSUME \A s \in Subs : pc'[s] = pc[s] /\ cur'[s] = cur[s]
      PROVE  \A s \in Subs : pc'[s] \in {"open", "consume"} => cur'[s] = s
  BY <1>s DEF RestartInv
<1>1. CASE BuildStep(Startup)
  <2>1. /\ UNCHANGED subs /\ OthersKept(Startup) /\ newConn'[Watcher] = newConn[Watcher]
    BY <1>1, BuildEffect DEF subVars
  <2>2. \A s \in Subs : pc'[s] = pc[s] /\ cur'[s] = cur[s]
    BY <2>1 DEF OthersKept
  <2>3. UNCHANGED <<pc[Watcher], todo[Watcher], target[Watcher]>>
    BY <2>1 DEF OthersKept
  <2> QED
    BY <1>0, <1>s, <2>1, <2>2, <2>3
<1>2. CASE BuildStep(Watcher)
  <2>1. UNCHANGED subs /\ OthersKept(Watcher)
    BY <1>2, BuildEffect DEF subVars
  <2>2. \A s \in Subs : pc'[s] = pc[s] /\ cur'[s] = cur[s]
    BY <2>1 DEF OthersKept
  <2>3. CASE pc'[Watcher] \in {"loops", "open", "consume", "ok"}
    <3>1. \/ pc'[Watcher] = "loops" /\ todo'[Watcher] = {s \in Subs : subs[s] # NoName}
          \/ pc'[Watcher] = "ok"
          \/ /\ pc'[Watcher] \in {"open", "loops"} /\ pc[Watcher] = "loops"
             /\ \E x : todo'[Watcher] = todo[Watcher] \ {x}
      BY <1>2, <2>3, RestartEffect
    <3>2. pc'[Watcher] # "consume"
      BY <3>1
    <3>3. pc'[Watcher] \in {"loops", "open"} =>
              \A s \in todo'[Watcher] : s \in Subs /\ subs[s] # NoName
      BY <3>1 DEF RestartInv
    <3> QED
      BY <1>s, <2>1, <2>2, <3>2, <3>3 DEF RestartInv
  <2>4. CASE pc'[Watcher] \notin {"loops", "open", "consume", "ok"}
    BY <1>s, <2>2, <2>4 DEF RestartInv
  <2> QED
    BY <2>3, <2>4
<1>3. ASSUME NEW p \in Procs, StartDispatchLoop(p) PROVE RestartInv'
  <2>1. /\ UNCHANGED <<connection, newConn, todo, subs, closing, cur>> /\ OthersKept(p)
        /\ p = Watcher \/ p \in Subs
        /\ pc[p] = "open" /\ pc'[p] = "consume" /\ IsOpen(connection) /\ target'[p] = connection
    BY <1>3, DispatchEffect DEF regVars
  <2>2. \A s \in Subs : pc'[s] \in {"open", "consume"} => cur'[s] = s
    BY <2>1 DEF OthersKept, RestartInv
  <2>3. CASE p = Watcher
    <3>1. connection = newConn[Watcher]
      BY <2>1, <2>3 DEF CurrentInv, Installed, IsOpen
    <3> QED
      BY <2>1, <2>2, <2>3, <3>1 DEF RestartInv
  <2>4. CASE p # Watcher
    <3>1. UNCHANGED <<pc[Watcher], target[Watcher]>>
      BY <2>1, <2>4 DEF OthersKept
    <3> QED
      BY <1>0, <2>1, <2>2, <3>1
  <2> QED
    BY <2>3, <2>4
<1>4. ASSUME NEW p \in Procs, NEW l \in Loops, Consume(p, l) PROVE RestartInv'
  <2>1. pc[p] = "consume"
    BY <1>4 DEF Consume, Step
  <2>2. ~StartDispatchLoop(p)
    BY <2>1 DEF StartDispatchLoop, Step
  <2>3. /\ UNCHANGED <<newConn, todo, subs>> /\ OthersKept(p)
        /\ p = Watcher \/ p \in Subs
        /\ pc'[p] = IF p \in Subs THEN "ok" ELSE "loops"
    BY <1>4, <2>2, DispatchEffect
  <2>4. \A s \in Subs : pc'[s] \in {"open", "consume"} => cur'[s] = s
    BY <2>3 DEF OthersKept, RestartInv
  <2>5. CASE p = Watcher
    BY <2>1, <2>3, <2>4, <2>5 DEF RestartInv
  <2>6. CASE p # Watcher
    <3>1. UNCHANGED <<pc[Watcher], target[Watcher]>>
      BY <2>3, <2>6 DEF OthersKept
    <3> QED
      BY <1>0, <2>3, <2>4, <3>1
  <2> QED
    BY <2>5, <2>6
<1>5. CASE StartupStep \/ WatcherRuns
  <2>1. UNCHANGED <<cur, target, subs>> /\ UNCHANGED todo[Watcher]
    BY <1>5, ManagerEffect DEF subVars
  <2>2. \A s \in Subs : pc'[s] = pc[s]
    BY <1>5, ManagerEffect
  <2>3. CASE StartupStep
    <3>1. UNCHANGED pc[Watcher] /\ UNCHANGED newConn[Watcher]
      BY <2>3, ManagerEffect
    <3> QED
      BY <1>0, <1>s, <2>1, <2>2, <3>1
  <2>4. CASE WatcherBegins \/ WatcherReturns
    <3>1. PICK to \in {"idle", "dial"} : pc' = [pc EXCEPT ![Watcher] = to]
      BY <2>4 DEF WatcherBegins, WatcherReturns, Step
    <3>2. pc'[Watcher] = to
      BY <3>1, PcMoves, Zenon
    <3> QED
      BY <1>0, <1>s, <2>1, <2>2, <3>2
  <2>5. CASE WatcherAlone
    <3>1. UNCHANGED <<pc, newConn>>
      BY <2>5 DEF WatcherAlone, clientVars, locVars
    <3> QED
      BY <1>0, <1>s, <2>1, <3>1
  <2> QED
    BY <1>5, <2>3, <2>4, <2>5 DEF WatcherRuns
<1>6. ASSUME NEW s \in Subs, SubStep(s) PROVE RestartInv'
  <2>1. UNCHANGED newConn /\ OthersKept(s)
        /\ (\A t \in Subs : t # s => subs'[t] = subs[t]) /\ (subs'[s] = NoName => subs[s] = NoName)
    BY <1>6, SubEffect
  <2>2. UNCHANGED <<pc[Watcher], todo[Watcher], target[Watcher]>>
    BY <2>1 DEF OthersKept
  <2>3. pc'[s] \in {"open", "consume"} => cur'[s] = s
    <3>1. CASE RecordSubscription(s)
      <4>1. cur' = [cur EXCEPT ![s] = s]
        BY <3>1 DEF RecordSubscription
      <4> QED
        BY <4>1 DEF TypeOK, LocTypeOK
    <3>2. CASE CancelContext(s)
      <4>1. UNCHANGED <<pc, cur>>
        BY <3>2 DEF CancelContext, locVars
      <4> QED
        BY <4>1 DEF RestartInv
    <3>3. CASE (\E x \in Consumers : Subscribe(s, x)) \/ BuildFails(s)
      <4>1. PICK to \in {"record", "fail"} : pc' = [pc EXCEPT ![s] = to]
        BY <3>3 DEF Subscribe, BuildFails, Step
      <4>2. pc'[s] = to
        BY <4>1, PcMoves, Zenon
      <4> QED
        BY <4>2
    <3> QED
      BY <1>6, <3>1, <3>2, <3>3 DEF SubStep
  <2>4. \A t \in Subs : pc'[t] \in {"open", "consume"} => cur'[t] = t
    BY <2>1, <2>3 DEF OthersKept, RestartInv
  <2> QED
    BY <1>0, <2>1, <2>2, <2>4
<1>7. ASSUME NEW l \in Loops, LoopStep(l) PROVE RestartInv'
  BY <1>0, <1>s, <1>7, LoopEffect DEF locVars
<1>8. ASSUME NEW s \in Stoppers, EndStep(s) PROVE RestartInv'
  BY <1>0, <1>s, <1>8, EndEffect DEF locVars, subVars
<1>9. CASE (\E c \in Conns : Drop(c)) \/ UNCHANGED vars
  <2>1. UNCHANGED <<pc, todo, cur, target, newConn, subs>>
    BY <1>9 DEF Drop, vars, clientVars, locVars, subVars
  <2> QED
    BY <1>0, <1>s, <2>1
<1> QED
  BY <1>1, <1>2, <1>3, <1>4, <1>5, <1>6, <1>7, <1>8, <1>9, StepCases


\* A subscription that is covered stays so.
LEMMA ServePreserved ==
    ASSUME Forcers = {}, TypeOK, LocInv, StopFirst, DrainInv, PhaseInv, OutageReported,
           DialledInv, CurrentInv, RegistryInv, RestartInv, ServeInv, [Next]_vars
    PROVE  ServeInv'
<1> USE Processes
<1> SUFFICES ASSUME ~closing', IsOpen(connection)', Serving', NEW s \in Subs, subs'[s] # NoName
             PROVE  Covered(s)'
  BY DEF ServeInv
<1>a. connection' # NoConn /\ connState'[connection'] = "open"
  BY DEF IsOpen
<1>b. ASSUME UNCHANGED connection PROVE IsOpen(connection)
  <2>1. connection \in Conns /\ connState[connection] # "none"
    BY <1>a, <1>b DEF TypeOK, RegTypeOK, DialledInv
  <2>2. CMTypeOK /\ [CMNext]_cmVars
    BY StepImplements DEF TypeOK
  <2>3. connState[connection] = "open"
    BY <1>a, <1>b, <2>1, <2>2, ConnHistory
  <2> QED
    BY <2>1, <2>3, ConnAssumption DEF IsOpen, ConnAssumption
<1>0. ASSUME UNCHANGED <<connection, closing>>, Serving, subs[s] # NoName PROVE Covered(s)
  BY <1>0, <1>b DEF ServeInv
<1>k. ASSUME Covered(s), UNCHANGED <<connection, loops>>,
             cancelled \subseteq cancelled', revoked \subseteq revoked',
             Pending(s) => Covered(s)', Subscribing(s) => Subscribing(s)'
      PROVE  Covered(s)'
  <2>1. CASE Served(s)
    BY <1>k, <2>1 DEF Covered, Served
  <2>2. CASE ~Served(s)
    BY <1>k, <2>2 DEF Covered
  <2> QED
    BY <2>1, <2>2
<1>1. CASE BuildStep(Startup)
  <2>1. UNCHANGED <<connected, pc[Watcher]>>
    BY <1>1, BuildEffect DEF OthersKept
  <2>2. ~connected /\ pc[Watcher] = "idle"
    BY <1>1, BuilderBusy
  <2> QED
    BY <2>1, <2>2 DEF Serving
<1>2. CASE BuildStep(Watcher)
  <2>1. UNCHANGED <<connected, pc[s], target[s]>> /\ ~connected
    BY <1>2, BuildEffect, BuilderBusy DEF OthersKept
  <2>2. pc'[Watcher] \in {"loops", "open", "consume", "ok"}
    BY <2>1 DEF Serving
  <2>3. UNCHANGED <<connection, consumers, loops, cancelled, revoked, subs, closing>>
    BY <1>2, <2>2, RestartEffect DEF regVars, subVars
  <2>4. Subscribing(s) => Subscribing(s)'
    BY <2>1, <2>3 DEF Subscribing
  <2>5. CASE pc'[Watcher] = "loops" /\ todo'[Watcher] = {t \in Subs : subs[t] # NoName}
    <3>1. s \in todo'[Watcher]
      BY <2>3, <2>5
    <3> QED
      BY <2>5, <3>1 DEF Covered, Pending
  <2>6. CASE pc[Watcher] = "loops"
    <3>1. Covered(s)
      BY <1>0, <2>3, <2>6 DEF Serving
    <3>2. ASSUME Pending(s) PROVE Pending(s)'
      <4>1. s \in todo[Watcher]
        BY <2>6, <3>2 DEF Pending
      <4>2. CASE pc'[Watcher] = "ok" /\ todo[Watcher] = {}
        BY <4>1, <4>2
      <4>3. CASE /\ pc'[Watcher] = "open"
                 /\ todo'[Watcher] = todo[Watcher] \ {cur'[Watcher]}
        BY <4>1, <4>3 DEF Pending
      <4>4. ASSUME NEW t \in todo[Watcher] \cap Subs, consumers[subs[t]] = NoConn PROVE FALSE
        <5>1. subs[t] # NoName
          BY <2>6 DEF RestartInv
        <5>2. subs[t] \in Consumers
          BY <5>1 DEF TypeOK, SubTypeOK
        <5>3. AllConsumers
          BY <2>3, <2>6 DEF RegistryInv, BuildInv
        <5> QED
          BY <1>a, <2>3, <4>4, <5>2, <5>3 DEF AllConsumers
      <4> QED
        BY <1>2, <2>2, <2>6, <4>2, <4>3, <4>4, RestartEffect
    <3>3. Pending(s) => Covered(s)'
      BY <3>2 DEF Covered
    <3> QED
      BY <1>k, <2>3, <2>4, <3>1, <3>3
  <2> QED
    BY <1>2, <2>2, <2>5, <2>6, RestartEffect
<1>3. ASSUME NEW p \in Procs, StartDispatchLoop(p) PROVE Covered(s)'
  <2>1. /\ UNCHANGED <<connected, connection, todo, subs, closing, cur, loops, cancelled, revoked>>
        /\ OthersKept(p)
        /\ p = Watcher \/ p \in Subs
        /\ pc[p] = "open" /\ pc'[p] = "consume" /\ target'[p] = connection
    BY <1>3, DispatchEffect DEF regVars, cmVars, mgrVars
  <2>2. CASE p = s
    BY <2>1, <2>2 DEF Covered, Subscribing
  <2>3. CASE p # s
    <3>1. UNCHANGED <<pc[s], target[s]>>
      BY <2>1, <2>3 DEF OthersKept
    <3>2. UNCHANGED pc[Watcher] \/ (pc[Watcher] = "open" /\ pc'[Watcher] = "consume")
      BY <2>1 DEF OthersKept
    <3>3. Covered(s)
      BY <1>0, <2>1, <3>2 DEF Serving
    <3>4. Pending(s) => Pending(s)'
      BY <2>1, <3>2 DEF Pending
    <3>5. Subscribing(s) => Subscribing(s)'
      BY <2>1, <3>1 DEF Subscribing
    <3> QED
      BY <1>k, <2>1, <3>3, <3>4, <3>5 DEF Covered
  <2> QED
    BY <2>2, <2>3
<1>4. ASSUME NEW p \in Procs, NEW l \in Loops, Consume(p, l) PROVE Covered(s)'
  <2>1. pc[p] = "consume"
    BY <1>4 DEF Consume, Step
  <2>2. ~StartDispatchLoop(p)
    BY <2>1 DEF StartDispatchLoop, Step
  <2>3. /\ UNCHANGED <<connected, connection, newConn, todo, subs, closing, cancelled, revoked>>
        /\ OthersKept(p) /\ (p = Watcher \/ p \in Subs)
        /\ pc'[p] = IF p \in Subs THEN "ok" ELSE "loops"
    BY <1>4, <2>2, DispatchEffect DEF regVars, cmVars, mgrVars
  <2>4. /\ loops[l] = NoLoop
        /\ loops'[l].sub = cur[p] /\ loops'[l].conn = target[p]
        /\ \A k \in Loops : k # l => loops'[k] = loops[k]
    BY <1>4, ConsumeEffect, Zenon
  <2>5. pc'[Watcher] \in {"loops", "open", "consume", "ok"} =>
            pc[Watcher] \in {"loops", "open", "consume", "ok"}
    BY <2>1, <2>3 DEF OthersKept
  <2>6. Covered(s)
    BY <1>0, <2>3, <2>5 DEF Serving
  <2>7. ASSUME cur[p] = s, target[p] = connection PROVE Served(s)'
    BY <2>3, <2>4, <2>7 DEF Served
  <2>8. CASE Served(s)
    <3>1. PICK k \in Loops : loops[k].sub = s /\ loops[k].conn = connection
      BY <2>8 DEF Served
    <3>2. k # l
      BY <1>a, <2>3, <2>4, <3>1, EmptySlot
    <3>3. Served(s)'
      BY <2>3, <2>4, <3>1, <3>2 DEF Served
    <3> QED
      BY <3>3 DEF Covered
  <2>9. CASE Pending(s)
    <3>1. CASE p = Watcher
      <4>1. target[p] = connection
        BY <2>1, <2>3, <3>1 DEF RestartInv, CurrentInv, Installed
      <4>2. s \in todo[Watcher] \/ s = cur[Watcher]
        BY <2>9 DEF Pending
      <4>3. s \in todo[Watcher] => Pending(s)'
        BY <2>3, <3>1 DEF Pending
      <4> QED
        BY <2>7, <3>1, <4>1, <4>2, <4>3 DEF Covered
    <3>2. CASE p # Watcher
      <4>1. Pending(s)'
        BY <2>3, <2>9, <3>2 DEF Pending, OthersKept
      <4> QED
        BY <4>1 DEF Covered
    <3> QED
      BY <3>1, <3>2
  <2>10. CASE Subscribing(s)
    <3>1. CASE p = s
      <4>1. target[p] = connection
        BY <2>1, <2>10, <3>1 DEF Subscribing
      <4>2. cur[p] = s
        BY <2>1, <3>1 DEF RestartInv
      <4> QED
        BY <2>7, <4>1, <4>2 DEF Covered
    <3>2. CASE p # s
      <4>1. Subscribing(s)'
        BY <2>3, <2>10, <3>2 DEF Subscribing, OthersKept
      <4> QED
        BY <4>1 DEF Covered
    <3> QED
      BY <3>1, <3>2
  <2> QED
    BY <2>3, <2>6, <2>8, <2>9, <2>10 DEF Covered
<1>5. CASE StartupStep
  <2>1. /\ UNCHANGED <<connection, closing, cur, target, loops, subs, cancelled, revoked>>
        /\ UNCHANGED <<pc[Watcher], todo[Watcher], pc[s]>>
    BY <1>5, ManagerEffect DEF regVars, subVars, endVars
  <2>2. CASE StartManagers
    <3>1. pc[Startup] = "start"
      BY <2>2 DEF StartManagers, Step
    <3>2. subs[s] = NoName
      BY <3>1 DEF PhaseInv
    <3> QED
      BY <2>1, <3>2
  <2>3. CASE ~StartManagers
    <3>1. UNCHANGED connected
      BY <1>5, <2>3 DEF StartupStep, WireManager, Wire, FinishStartup, CheckHealth, cmVars, mgrVars
    <3>2. Covered(s)
      BY <1>0, <2>1, <3>1 DEF Serving
    <3>3. Pending(s) => Pending(s)'
      BY <2>1 DEF Pending
    <3>4. Subscribing(s) => Subscribing(s)'
      BY <2>1 DEF Subscribing
    <3> QED
      BY <1>k, <2>1, <3>2, <3>3, <3>4 DEF Covered
  <2> QED
    BY <2>2, <2>3
<1>6. CASE WatcherRuns
  <2>1. /\ UNCHANGED <<connection, closing, cur, target, loops, subs, cancelled, revoked>>
        /\ UNCHANGED <<todo[Watcher], pc[s]>>
    BY <1>6, ManagerEffect DEF regVars, subVars, endVars
  <2>2. Subscribing(s) => Subscribing(s)'
    BY <2>1 DEF Subscribing
  <2>3. CASE WatcherBegins
    <3>1. wpc = "loop" /\ UNCHANGED connected /\ pc' = [pc EXCEPT ![Watcher] = "dial"]
      BY <2>3 DEF WatcherBegins, CallReconnect, Goto, Step
    <3>2. ~connected /\ pc'[Watcher] = "dial"
      BY <3>1, PcMoves, Zenon DEF OutageReported
    <3> QED
      BY <3>1, <3>2 DEF Serving
  <2>4. CASE WatcherReturns
    <3>1. pc' = [pc EXCEPT ![Watcher] = "idle"] /\ wpc = "call"
      BY <2>4 DEF WatcherReturns, ReconnectOk, ReconnectFail, Goto, Step
    <3>2. pc'[Watcher] = "idle" /\ ~connected
      BY <3>1, PcMoves, Zenon DEF OutageReported
    <3>3. pc[Watcher] = "ok"
      <4>1. pc[Watcher] = "ok" \/ UNCHANGED connected
        BY <2>4 DEF WatcherReturns, ReconnectFail, Step
      <4> QED
        BY <3>2, <4>1, Zenon DEF Serving
    <3>4. Covered(s) /\ ~Pending(s)
      BY <1>0, <2>1, <3>3 DEF Serving, Pending
    <3> QED
      BY <1>k, <2>1, <2>2, <3>4
  <2>5. CASE WatcherAlone
    <3>1. UNCHANGED pc
      BY <2>5 DEF WatcherAlone
    <3>2. connected' => connected
      BY <2>5, Zenon DEF WatcherAlone, WatchNotified, WatchShut, WatchStopped, MarkDisconnected,
         Rewatch, BackoffElapsed
    <3>3. Covered(s)
      BY <1>0, <2>1, <3>1, <3>2 DEF Serving
    <3>4. Pending(s) => Pending(s)'
      BY <2>1, <3>1 DEF Pending
    <3> QED
      BY <1>k, <2>1, <2>2, <3>3, <3>4 DEF Covered
  <2> QED
    BY <1>6, <2>3, <2>4, <2>5 DEF WatcherRuns

<1>7. ASSUME NEW t \in Subs, SubStep(t) PROVE Covered(s)'
  <2>1. /\ UNCHANGED <<connected, connection, loops, revoked, closing>> /\ OthersKept(t)
        /\ cancelled \subseteq cancelled'
    BY <1>7, SubEffect DEF cmVars, mgrVars, regVars
  <2>2. CASE t = s
    <3>1. pc'[s] \in {"open", "fail"} \/ s \in cancelled'
      BY <1>7, <2>2, SubEffect
    <3> QED
      BY <3>1 DEF Covered, Subscribing
  <2>3. CASE t # s
    <3>1. UNCHANGED subs[s]
      BY <1>7, <2>3, SubEffect
    <3>2. UNCHANGED <<pc[Watcher], todo[Watcher], cur[Watcher], pc[s], target[s]>>
      BY <2>1, <2>3, Zenon DEF OthersKept
    <3>3. Covered(s)
      BY <1>0, <2>1, <3>1, <3>2 DEF Serving
    <3>4. Pending(s) => Pending(s)'
      BY <3>2 DEF Pending
    <3>5. Subscribing(s) => Subscribing(s)'
      BY <2>1, <3>2 DEF Subscribing
    <3> QED
      BY <1>k, <2>1, <3>3, <3>4, <3>5 DEF Covered
  <2> QED
    BY <2>2, <2>3
<1>8. ASSUME NEW l \in Loops, LoopStep(l) PROVE Covered(s)'
  <2>1. /\ UNCHANGED <<connected, connState, connection, pc, todo, cur, target, subs, closing>>
        /\ cancelled \subseteq cancelled' /\ revoked \subseteq revoked'
    BY <1>8, LoopEffect, Zenon DEF cmVars, mgrVars, amqpVars, regVars, locVars
  <2>2. Covered(s)
    BY <1>0, <2>1, Zenon DEF Serving
  <2>3. CASE Served(s)
    <3>1. PICK k \in Loops : loops[k].sub = s /\ loops[k].conn = connection
      BY <2>3 DEF Served
    <3>2. CASE loops'[k].sub = loops[k].sub /\ loops'[k].conn = loops[k].conn
      BY <2>1, <3>1, <3>2 DEF Covered, Served
    <3>3. CASE closing \/ ~IsOpen(loops[k].conn) \/ loops[k].sub \in cancelled' \cup revoked'
      <4>1. ~closing /\ IsOpen(connection)
        BY <1>b, <2>1
      <4>2. s \in cancelled' \cup revoked'
        BY <3>1, <3>3, <4>1
      <4> QED
        BY <4>2 DEF Covered
    <3> QED
      BY <1>8, <3>2, <3>3, LoopEffect, Zenon
  <2>4. CASE ~Served(s)
    BY <2>1, <2>2, <2>4 DEF Covered, Pending, Subscribing
  <2> QED
    BY <2>3, <2>4
<1>9. ASSUME NEW t \in Stoppers, EndStep(t) PROVE Covered(s)'
  BY <1>9, EndEffect
<1>10. CASE (\E c \in Conns : Drop(c)) \/ UNCHANGED vars
  <2>1. UNCHANGED <<connected, connection, loops, cancelled, revoked, closing, pc, todo, cur,
                    target, subs>>
    BY <1>10 DEF Drop, vars, clientVars, cmVars, mgrVars, regVars, locVars, subVars, endVars
  <2>2. Covered(s)
    BY <1>0, <2>1, Zenon DEF Serving
  <2> QED
    BY <1>k, <2>1, <2>2, Zenon DEF Covered, Pending, Subscribing
<1> QED
  BY <1>1, <1>2, <1>3, <1>4, <1>5, <1>6, <1>7, <1>8, <1>9, <1>10, StepCases


\* The rebuild ticks a subscription off when it takes it up, and the connection it
\* restarts it on is new.
LEMMA OncePreserved ==
    ASSUME Forcers = {}, TypeOK, SubTypeOK', LocInv, DrainInv, PhaseInv, OutageReported,
           DialledInv, RestartInv, OnceInv, [Next]_vars
    PROVE  OnceInv'
<1> USE Processes
<1> DEFINE Before == {"set", "clear", "clearConsumers", "producers", "regProducer", "consumers",
                      "regConsumer", "snapshot"}
           During == {"loops", "open", "consume"}
           Same(l) == /\ loops'[l].sub = loops[l].sub /\ loops'[l].conn = loops[l].conn
                      /\ loops'[l].user = loops[l].user
<1>n. pc[Watcher] \in Before \cup During => newConn[Watcher] \in Conns
  BY Zenon DEF LocInv, Dialled
<1>c. NoConn \notin Conns /\ NoName \notin Subs
  BY ConnAssumption, ClientAssumption DEF ConnAssumption, ClientAssumption, Names
<1>e. \A l \in Loops : /\ loops[l] = NoLoop \/ loops[l].sub # NoName
                       /\ loops'[l] = NoLoop \/ loops'[l].sub # NoName
  BY <1>c DEF TypeOK, SubTypeOK, Goroutine
<1>r. ASSUME \A l \in Loops : loops'[l] = NoLoop \/ Same(l)
      PROVE  RestartedOnce'
  <2> SUFFICES ASSUME NEW k \in Loops, NEW l \in Loops, k # l,
                      loops'[k].sub = loops'[l].sub, loops'[k].conn = loops'[l].conn,
                      loops'[k] # NoLoop
               PROVE  loops'[k].user \/ loops'[l].user
    BY DEF RestartedOnce
  <2>1. loops'[k].sub # NoName /\ Same(k)
    BY <1>e, <1>r
  <2>2. loops'[l] # NoLoop
    BY <2>1, EmptySlot, Zenon
  <2>3. Same(l) /\ loops[k] # NoLoop
    BY <1>r, <2>1, <2>2, EmptySlot, Zenon
  <2>4. loops[k].user \/ loops[l].user
    BY <2>1, <2>3, Zenon DEF OnceInv, RestartedOnce
  <2> QED
    BY <2>1, <2>3, <2>4, Zenon
<1>0. ASSUME \A l \in Loops : loops'[l] = NoLoop \/ Same(l),
             \/ UNCHANGED <<pc[Watcher], todo[Watcher], cur[Watcher], newConn[Watcher]>>
             \/ pc'[Watcher] \notin Before \cup During
      PROVE  OnceInv'
  <2>1. CASE pc'[Watcher] \notin Before \cup During
    BY <1>0, <1>r, <2>1 DEF OnceInv
  <2>2. CASE /\ pc'[Watcher] \in Before \cup During
             /\ UNCHANGED <<pc[Watcher], todo[Watcher], cur[Watcher], newConn[Watcher]>>
    <3>1. ASSUME NEW l \in Loops, loops'[l].conn = newConn[Watcher] PROVE Same(l)
      BY <1>0, <1>n, <1>c, <2>2, <3>1, EmptySlot
    <3>2. pc'[Watcher] \in Before =>
              \A l \in Loops : loops'[l].conn = newConn'[Watcher] => loops'[l].user
      <4> SUFFICES ASSUME pc'[Watcher] \in Before, NEW l \in Loops,
                          loops'[l].conn = newConn'[Watcher]
                   PROVE  loops'[l].user
        OBVIOUS
      <4>1. Same(l)
        BY <2>2, <3>1
      <4>2. loops[l].user
        BY <2>2, <4>1 DEF OnceInv
      <4> QED
        BY <4>1, <4>2, Zenon
    <3>3. pc'[Watcher] \in During =>
              \A l \in Loops : loops'[l].conn = newConn'[Watcher] /\ ~loops'[l].user =>
                  /\ loops'[l].sub \notin todo'[Watcher]
                  /\ pc'[Watcher] # "loops" => loops'[l].sub # cur'[Watcher]
      <4> SUFFICES ASSUME pc'[Watcher] \in During, NEW l \in Loops,
                          loops'[l].conn = newConn'[Watcher], ~loops'[l].user
                   PROVE  /\ loops'[l].sub \notin todo'[Watcher]
                          /\ pc'[Watcher] # "loops" => loops'[l].sub # cur'[Watcher]
        OBVIOUS
      <4>1. Same(l)
        BY <2>2, <3>1
      <4>2. ~loops[l].user
        BY <4>1, Zenon
      <4> QED
        BY <2>2, <4>1, <4>2 DEF OnceInv
    <3>4. pc'[Watcher] \in {"open", "consume"} => cur'[Watcher] \notin todo'[Watcher]
      BY <2>2 DEF OnceInv
    <3> QED
      BY <1>0, <1>r, <3>2, <3>3, <3>4 DEF OnceInv
  <2> QED
    BY <1>0, <2>1, <2>2
<1>1. CASE BuildStep(Startup)
  <2>1. UNCHANGED loops /\ OthersKept(Startup) /\ UNCHANGED newConn[Watcher]
    BY <1>1, BuildEffect DEF subVars
  <2>2. UNCHANGED <<pc[Watcher], todo[Watcher], cur[Watcher], newConn[Watcher]>>
    BY <2>1 DEF OthersKept
  <2> QED
    BY <1>0, <2>1, <2>2
<1>2. CASE BuildStep(Watcher)
  <2>0. UNCHANGED loops
    BY <1>2, BuildEffect DEF subVars
  <2>r. RestartedOnce'
    BY <1>r, <2>0
  <2>1. ASSUME NEW c \in Conns, DialOk(Watcher, c) PROVE OnceInv'
    <3>1. /\ pc' = [pc EXCEPT ![Watcher] = "set"] /\ newConn' = [newConn EXCEPT ![Watcher] = c]
          /\ connState[c] = "none"
      BY <2>1 DEF DialOk, DialConfig, Step
    <3>2. pc'[Watcher] = "set" /\ newConn'[Watcher] = c
      BY <3>1, PcMoves DEF TypeOK, LocTypeOK
    <3>3. \A l \in Loops : loops[l].conn # c
      BY <1>c, <3>1 DEF DialledInv
    <3> QED
      BY <2>0, <2>r, <3>2, <3>3 DEF OnceInv
  <2>2. CASE SetConnection(Watcher)
    <3>1. pc[Watcher] = "set" /\ pc' = [pc EXCEPT ![Watcher] = "clear"] /\ UNCHANGED newConn
      BY <2>2, Zenon DEF SetConnection, Step, locVars
    <3>2. pc'[Watcher] = "clear"
      BY <3>1, PcMoves, Zenon
    <3> QED
      BY <2>0, <2>r, <3>1, <3>2 DEF OnceInv
  <2>3. CASE pc'[Watcher] \in During
    <3>1. UNCHANGED newConn
      BY <1>2, <2>3, RestartEffect
    <3>2. CASE pc[Watcher] = "snapshot" /\ pc'[Watcher] = "loops"
      BY <2>0, <2>r, <3>1, <3>2 DEF OnceInv
    <3>3. CASE /\ pc[Watcher] = "loops" /\ pc'[Watcher] = "open"
               /\ cur'[Watcher] \in todo[Watcher]
               /\ todo'[Watcher] = todo[Watcher] \ {cur'[Watcher]}
      BY <2>0, <2>r, <3>1, <3>3 DEF OnceInv
    <3>4. ASSUME NEW x, pc[Watcher] = "loops", pc'[Watcher] = "loops",
                 todo'[Watcher] = todo[Watcher] \ {x}
          PROVE  OnceInv'
      BY <2>0, <2>r, <3>1, <3>4 DEF OnceInv
    <3> QED
      BY <1>2, <2>3, <3>2, <3>3, <3>4, RestartEffect
  <2>4. CASE /\ pc'[Watcher] \in Before
             /\ ~SetConnection(Watcher) /\ ~\E c \in Conns : DialOk(Watcher, c)
    <3>1. UNCHANGED newConn /\ pc[Watcher] \in Before
      BY <1>2, <2>4, BuildKeeps
    <3> QED
      BY <2>0, <2>r, <2>4, <3>1 DEF OnceInv
  <2>5. CASE pc'[Watcher] \notin Before \cup During
    BY <1>0, <2>0, <2>5
  <2> QED
    BY <2>1, <2>2, <2>3, <2>4, <2>5
<1>3. ASSUME NEW p \in Procs, StartDispatchLoop(p) PROVE OnceInv'
  <2>1. /\ UNCHANGED <<newConn, todo, cur, loops>> /\ OthersKept(p)
        /\ pc[p] = "open" /\ pc'[p] = "consume"
    BY <1>3, DispatchEffect
  <2>2. CASE p = Watcher
    <3>1. RestartedOnce'
      BY <1>r, <2>1
    <3> QED
      BY <2>1, <2>2, <3>1 DEF OnceInv
  <2>3. CASE p # Watcher
    <3>1. UNCHANGED pc[Watcher]
      BY <2>1, <2>3 DEF OthersKept
    <3> QED
      BY <1>0, <2>1, <3>1
  <2> QED
    BY <2>2, <2>3
<1>4. ASSUME NEW p \in Procs, NEW l \in Loops, Consume(p, l) PROVE OnceInv'
  <2>1. pc[p] = "consume"
    BY <1>4 DEF Consume, Step
  <2>2. ~StartDispatchLoop(p)
    BY <2>1 DEF StartDispatchLoop, Step
  <2>3. /\ UNCHANGED <<newConn, todo>> /\ OthersKept(p) /\ (p = Watcher \/ p \in Subs)
        /\ pc'[p] = IF p \in Subs THEN "ok" ELSE "loops"
    BY <1>4, <2>2, DispatchEffect
  <2>4. /\ loops[l] = NoLoop
        /\ loops'[l].sub = cur[p] /\ loops'[l].conn = target[p]
        /\ \A k \in Loops : k # l => loops'[k] = loops[k]
    BY <1>4, ConsumeEffect, Zenon
  <2>5. CASE p \in Subs
    <3>0. loops'[l].user
      BY <1>4, <2>5, ConsumeUser, Zenon
    <3>1. UNCHANGED <<pc[Watcher], cur[Watcher]>>
      BY <2>3, <2>5 DEF OthersKept
    <3>2. RestartedOnce'
      <4> SUFFICES ASSUME NEW j \in Loops, NEW k \in Loops, j # k, loops'[j] # NoLoop,
                          loops'[j].sub = loops'[k].sub, loops'[j].conn = loops'[k].conn
                   PROVE  loops'[j].user \/ loops'[k].user
        BY DEF RestartedOnce
      <4>1. CASE j = l \/ k = l
        BY <3>0, <4>1
      <4>2. CASE j # l /\ k # l
        BY <2>4, <4>2 DEF OnceInv, RestartedOnce
      <4> QED
        BY <4>1, <4>2
    <3>3. pc'[Watcher] \in Before =>
              \A k \in Loops : loops'[k].conn = newConn'[Watcher] => loops'[k].user
      BY <2>3, <2>4, <3>0, <3>1 DEF OnceInv
    <3>4. pc'[Watcher] \in During =>
              \A k \in Loops : loops'[k].conn = newConn'[Watcher] /\ ~loops'[k].user =>
                  /\ loops'[k].sub \notin todo'[Watcher]
                  /\ pc'[Watcher] # "loops" => loops'[k].sub # cur'[Watcher]
      BY <2>3, <2>4, <3>0, <3>1 DEF OnceInv
    <3> QED
      BY <2>3, <3>1, <3>2, <3>3, <3>4 DEF OnceInv
  <2>6. CASE p = Watcher
    <3>1. target[p] = newConn[Watcher] /\ cur[p] \notin todo[Watcher]
      BY <2>1, <2>6 DEF RestartInv, OnceInv
    <3>2. \A k \in Loops : loops[k].conn = newConn[Watcher] /\ ~loops[k].user =>
              loops[k].sub \notin todo[Watcher] /\ loops[k].sub # cur[p]
      BY <2>1, <2>6 DEF OnceInv
    <3>3. RestartedOnce'
      <4> SUFFICES ASSUME NEW j \in Loops, NEW k \in Loops, j # k, loops'[j] # NoLoop,
                          loops'[j].sub = loops'[k].sub, loops'[j].conn = loops'[k].conn
                   PROVE  loops'[j].user \/ loops'[k].user
        BY DEF RestartedOnce
      <4>1. CASE j = l
        BY <2>4, <3>1, <3>2, <4>1
      <4>2. CASE k = l
        BY <2>4, <3>1, <3>2, <4>2
      <4>3. CASE j # l /\ k # l
        BY <2>4, <4>3 DEF OnceInv, RestartedOnce
      <4> QED
        BY <4>1, <4>2, <4>3
    <3>4. \A k \in Loops : loops'[k].conn = newConn'[Watcher] /\ ~loops'[k].user =>
              loops'[k].sub \notin todo'[Watcher]
      BY <2>3, <2>4, <3>1, <3>2
    <3>5. pc'[Watcher] = "loops"
      BY <2>3, <2>6
    <3> QED
      BY <3>3, <3>4, <3>5 DEF OnceInv
  <2> QED
    BY <2>3, <2>5, <2>6
<1>5. CASE StartupStep \/ WatcherRuns
  <2>1. UNCHANGED <<cur, loops, todo[Watcher]>>
    BY <1>5, ManagerEffect DEF subVars
  <2>2. CASE StartupStep
    <3>1. UNCHANGED pc[Watcher] /\ UNCHANGED newConn[Watcher]
      BY <2>2, ManagerEffect
    <3> QED
      BY <1>0, <2>1, <3>1
  <2>3. CASE WatcherBegins \/ WatcherReturns
    <3>1. PICK to \in {"idle", "dial"} : pc' = [pc EXCEPT ![Watcher] = to]
      BY <2>3 DEF WatcherBegins, WatcherReturns, Step
    <3>2. pc'[Watcher] = to
      BY <3>1, PcMoves, Zenon
    <3> QED
      BY <1>0, <2>1, <3>2
  <2>4. CASE WatcherAlone
    <3>1. UNCHANGED <<pc, newConn>>
      BY <2>4 DEF WatcherAlone, clientVars, locVars
    <3> QED
      BY <1>0, <2>1, <3>1
  <2> QED
    BY <1>5, <2>2, <2>3, <2>4 DEF WatcherRuns
<1>6. ASSUME NEW s \in Subs, SubStep(s) PROVE OnceInv'
  <2>1. UNCHANGED <<newConn, loops>> /\ OthersKept(s)
    BY <1>6, SubEffect
  <2>2. UNCHANGED <<pc[Watcher], todo[Watcher], cur[Watcher]>>
    BY <2>1 DEF OthersKept
  <2> QED
    BY <1>0, <2>1, <2>2
<1>7. ASSUME NEW l \in Loops, LoopStep(l) PROVE OnceInv'
  <2>1. UNCHANGED <<pc, todo, cur, newConn>>
    BY <1>7, LoopEffect DEF locVars
  <2>2. \A k \in Loops : loops'[k] = NoLoop \/ Same(k)
    BY <1>7, LoopEffect
  <2> QED
    BY <1>0, <2>1, <2>2
<1>8. CASE (\E s \in Stoppers : EndStep(s)) \/ (\E c \in Conns : Drop(c)) \/ UNCHANGED vars
  <2>1. UNCHANGED <<pc, todo, cur, newConn, loops>>
    BY <1>8, EndEffect DEF Drop, vars, clientVars, locVars, subVars
  <2> QED
    BY <1>0, <2>1
<1> QED
  BY <1>1, <1>2, <1>3, <1>4, <1>5, <1>6, <1>7, <1>8, StepCases


-----------------------------------------------------------------------------
(* The theorems                                                            *)

\* No subscription is recorded and no goroutine runs at first.
LEMMA SubscriptionInit == Init => RestartInv /\ ServeInv /\ OnceInv
<1> SUFFICES ASSUME Init PROVE RestartInv /\ ServeInv /\ OnceInv
  OBVIOUS
<1> USE Processes DEF Init
<1>0. /\ pc[Watcher] = "idle" /\ (\A s \in Subs : pc[s] = "idle") /\ ~connected
      /\ \A l \in Loops : loops[l] = NoLoop
  BY DEF CMInit
<1>1. RestartInv
  BY <1>0 DEF RestartInv
<1>2. ServeInv
  BY <1>0 DEF ServeInv, Serving
<1>3. OnceInv
  BY <1>0 DEF OnceInv, RestartedOnce
<1> QED
  BY <1>1, <1>2, <1>3

\* Subscribe, the rebuild, the dispatch goroutines, the shutdown and lost connections
\* together keep track of the subscriptions.
THEOREM SubscriptionInvariant == Safety => []SubscriptionInv
<1>1. Init => SubscriptionInv
  BY SubscriptionInit DEF SubscriptionInv
<1>2. /\ ClientInv /\ ClientInv' /\ OutageReported /\ WatcherOnly /\ SubscriptionInv
      /\ [Next]_vars
      => SubscriptionInv'
  <2> SUFFICES ASSUME ClientInv, ClientInv', OutageReported, Forcers = {}, RebuildInv,
                      RestartInv, ServeInv, OnceInv, [Next]_vars
               PROVE  (RestartInv /\ ServeInv /\ OnceInv)'
    BY DEF SubscriptionInv, WatcherOnly
  <2>1. TypeOK /\ LocInv /\ StopFirst /\ DrainInv /\ SubTypeOK'
    BY DEF ClientInv, TypeOK
  <2>2. PhaseInv /\ DialledInv /\ CurrentInv /\ RegistryInv
    BY DEF RebuildInv
  <2>3. RestartInv'
    BY <2>1, <2>2, RestartPreserved
  <2>4. ServeInv'
    BY <2>1, <2>2, ServePreserved
  <2>5. OnceInv'
    BY <2>1, <2>2, OncePreserved
  <2> QED
    BY <2>3, <2>4, <2>5
<1>3. Safety => []OutageReported
  BY ManagerSafeInClient, PTL
<1> QED
  BY <1>1, <1>2, <1>3, ClientInvariant, RebuildInvariant, PTL DEF Safety

\* While the manager reports an open connection, a Subscribe that has succeeded has a
\* dispatch goroutine on it: no interleaving of Subscribe with a rebuild loses one.
THEOREM SubscriptionsStayServed == Safety => []SubscriptionsServed
<1>1. WatcherOnly /\ SubscriptionInv /\ OutageReported => SubscriptionsServed
  <2> SUFFICES ASSUME RebuildInv, ServeInv, OutageReported, Forcers = {}, connected, ~closing,
                      IsOpen(connection), NEW s \in Subs, pc[s] = "ok"
               PROVE  Served(s) \/ s \in cancelled \cup revoked
    BY DEF WatcherOnly, SubscriptionInv, SubscriptionsServed
  <2>1. subs[s] # NoName /\ pc[Watcher] = "idle"
    BY DEF RebuildInv, PhaseInv, OutageReported
  <2>2. Covered(s)
    BY <2>1 DEF ServeInv, Serving
  <2>3. ~Pending(s) /\ ~Subscribing(s)
    BY <2>1 DEF Pending, Subscribing
  <2> QED
    BY <2>2, <2>3 DEF Covered
<1>2. Safety => []OutageReported
  BY ManagerSafeInClient, PTL
<1> QED
  BY <1>1, <1>2, RebuildInvariant, SubscriptionInvariant, PTL

\* No rebuild, and no two rebuilds, start two goroutines for one subscription on one
\* connection.
THEOREM SubscriptionsRestartOnce == Safety => []RestartedOnce
<1>1. SubscriptionInv => RestartedOnce
  BY DEF SubscriptionInv, OnceInv, RestartedOnce
<1> QED
  BY <1>1, SubscriptionInvariant, PTL

=============================================================================
