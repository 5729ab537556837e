----------------------- MODULE ConnectionManagerProofs ----------------------
(***************************************************************************)
(* Type correctness and the safety properties of ConnectionManager, for    *)
(* any sets of connections, ForceReconnect callers and Stop callers and    *)
(* any back-off bounds.                                                    *)
(***************************************************************************)
EXTENDS ConnectionManager, TLAPS

\* One Stop call at most is past the section under the mutex, and none is once
\* stopChan is closed.
StopInv ==
    /\ stopClosed => stopped
    /\ \A s \in Stoppers : spc[s] # "idle" => stopped /\ ~stopClosed
    /\ \A s, t \in Stoppers : spc[s] # "idle" /\ spc[t] # "idle" => s = t
    /\ NoDoubleClose

\* An error in a notify channel belongs to a lost connection, and the watcher
\* works on such a connection from the moment it receives the error.
WatchInv ==
    /\ \A c \in Conns : notify[c] = "err" => connState[c] = "lost"
    /\ wpc # "none" => wconn \in Conns
    /\ ReconnectsOnlyAfterLoss

CMInv == CMTypeOK /\ StopInv /\ WatchInv

\* Every step of the manager and of its environment keeps the types, the back-off
\* bounds included.
LEMMA CMTypeCorrect == CMTypeOK /\ [CMNext]_cmVars => CMTypeOK'
<1> USE BackoffAssumption DEF BackoffAssumption, CMTypeOK, AmqpTypeOK
<1> SUFFICES ASSUME CMTypeOK, [CMNext]_cmVars PROVE CMTypeOK'
  OBVIOUS
<1>1. CASE UNCHANGED cmVars
  BY <1>1 DEF cmVars, amqpVars, mgrVars
<1>2. ASSUME NEW c \in Conns, Wire(c) PROVE CMTypeOK'
  BY <1>2 DEF Wire, NotifyClose
<1>3. CASE Start
  BY <1>3 DEF Start, amqpVars
<1>4. CASE WatcherStep
  <2>1. CASE WatchNotified
    BY <2>1 DEF WatchNotified, Goto, amqpVars
  <2>2. CASE WatchShut
    BY <2>2 DEF WatchShut, Goto, amqpVars
  <2>3. CASE WatchStopped
    BY <2>3 DEF WatchStopped, Goto, amqpVars
  <2>4. CASE MarkDisconnected
    <3>1. backoff' \in InitBackoff..MaxBackoff
      BY <2>4 DEF MarkDisconnected
    <3> QED
      BY <2>4, <3>1, Zenon DEF MarkDisconnected, Goto, amqpVars
  <2>5. CASE CallReconnect
    BY <2>5 DEF CallReconnect, Goto, amqpVars
  <2>6. ASSUME NEW c \in Conns, ReconnectOk(c) PROVE CMTypeOK'
    BY <2>6 DEF ReconnectOk, Goto, amqpVars
  <2>7. CASE Rewatch
    BY <2>7 DEF Rewatch, Goto, NotifyClose
  <2>8. CASE ReconnectFail
    BY <2>8 DEF ReconnectFail, Goto, amqpVars
  <2>9. CASE BackoffElapsed
    BY <2>9 DEF BackoffElapsed, Goto, amqpVars
  <2> QED
    BY <1>4, <2>1, <2>2, <2>3, <2>4, <2>5, <2>6, <2>7, <2>8, <2>9 DEF WatcherStep
<1>5. ASSUME NEW s \in Stoppers, StopLock(s) \/ StopStep(s) PROVE CMTypeOK'
  <2>1. CASE StopLock(s)
    <3>1. spc' \in [Stoppers -> {"idle", "check", "close"}]
      BY <2>1 DEF StopLock
    <3> QED
      BY <2>1, <3>1, Zenon DEF StopLock, amqpVars
  <2>2. CASE StopCheck(s)
    BY <2>2 DEF StopCheck, amqpVars
  <2>3. CASE StopClose(s)
    BY <2>3 DEF StopClose, amqpVars
  <2> QED
    BY <1>5, <2>1, <2>2, <2>3 DEF StopStep
<1>6. ASSUME NEW f \in Forcers, ForceBegin(f) \/ ForceReturn(f) PROVE CMTypeOK'
  <2>1. fpc' \in [Forcers -> {"idle", "call"}] /\ connected' \in BOOLEAN
    BY <1>6 DEF ForceBegin, ForceReturn, ForceEnd
  <2>2. UNCHANGED <<amqpVars, stopped, stopClosed, reconnect, connNotify, wpc, wconn, backoff,
                    spc, crashed>>
    BY <1>6 DEF ForceBegin, ForceReturn, ForceEnd
  <2> QED
    BY <2>1, <2>2 DEF amqpVars
<1>7. CASE Environment
  BY <1>7 DEF Environment, DialConfig, BrokerDrop, CloseConn, amqpVars, mgrVars
<1> QED
  BY <1>1, <1>2, <1>3, <1>4, <1>5, <1>6, <1>7 DEF CMNext

\* Only the Stop calls touch what StopInv speaks of; a panic elsewhere in the
\* process is not a double close.
LEMMA StopInvPreserved == CMTypeOK /\ StopInv /\ [CMNext]_cmVars => StopInv'
<1> USE DEF StopInv, NoDoubleClose
<1> SUFFICES ASSUME CMTypeOK, StopInv, [CMNext]_cmVars PROVE StopInv'
  OBVIOUS
<1>1. CASE UNCHANGED <<stopped, stopClosed, spc, crashed>>
  BY <1>1
<1>2. ASSUME NEW s \in Stoppers, StopLock(s) PROVE StopInv'
  BY <1>2 DEF StopLock, CMTypeOK
<1>3. ASSUME NEW s \in Stoppers, StopCheck(s) PROVE StopInv'
  BY <1>3 DEF StopCheck, CMTypeOK
<1>4. ASSUME NEW s \in Stoppers, StopClose(s) PROVE StopInv'
  BY <1>4 DEF StopClose, CMTypeOK
<1>5. CASE Environment
  BY <1>5 DEF Environment, mgrVars
<1>6. ASSUME NEW c \in Conns, Wire(c) PROVE StopInv'
  BY <1>6, <1>1 DEF Wire
<1>7. CASE Start
  BY <1>7, <1>1 DEF Start
<1>8. CASE WatcherStep
  BY <1>8, <1>1 DEF WatcherStep, WatchNotified, WatchShut, WatchStopped, MarkDisconnected,
     CallReconnect, ReconnectOk, Rewatch, ReconnectFail, BackoffElapsed, Goto
<1>9. ASSUME NEW f \in Forcers, ForceBegin(f) \/ ForceReturn(f) PROVE StopInv'
  BY <1>9, <1>1 DEF ForceBegin, ForceReturn, ForceEnd
<1>10. CASE UNCHANGED cmVars
  BY <1>10, <1>1 DEF cmVars, mgrVars
<1> QED
  BY <1>2, <1>3, <1>4, <1>5, <1>6, <1>7, <1>8, <1>9, <1>10 DEF CMNext, StopStep

\* A lost connection stays lost, and nothing but the loss of a connection puts an
\* error into its notify channel.
LEMMA WatchInvPreserved == CMTypeOK /\ WatchInv /\ [CMNext]_cmVars => WatchInv'
<1> USE ConnAssumption DEF ConnAssumption, WatchInv, ReconnectsOnlyAfterLoss, CMTypeOK, AmqpTypeOK
<1> SUFFICES ASSUME CMTypeOK, WatchInv, [CMNext]_cmVars PROVE WatchInv'
  OBVIOUS
<1>1. CASE UNCHANGED <<connState, notify, wpc, wconn>>
  BY <1>1
<1>2. ASSUME NEW c \in Conns, Wire(c) PROVE WatchInv'
  BY <1>2 DEF Wire, NotifyClose
<1>3. CASE Start
  BY <1>3 DEF Start, amqpVars
<1>4. CASE WatcherStep
  <2>1. CASE WatchNotified
    BY <2>1 DEF WatchNotified, Goto, amqpVars
  <2>2. CASE WatchShut \/ WatchStopped
    BY <2>2 DEF WatchShut, WatchStopped, Goto, amqpVars
  <2>3. CASE MarkDisconnected \/ CallReconnect \/ ReconnectFail \/ BackoffElapsed
    BY <2>3 DEF MarkDisconnected, CallReconnect, ReconnectFail, BackoffElapsed, Goto, amqpVars
  <2>4. ASSUME NEW c \in Conns, ReconnectOk(c) PROVE WatchInv'
    BY <2>4 DEF ReconnectOk, Goto, amqpVars
  <2>5. CASE Rewatch
    BY <2>5 DEF Rewatch, Goto, NotifyClose
  <2> QED
    BY <1>4, <2>1, <2>2, <2>3, <2>4, <2>5 DEF WatcherStep
<1>5. ASSUME NEW s \in Stoppers, StopLock(s) \/ StopStep(s) PROVE WatchInv'
  BY <1>5, <1>1 DEF StopLock, StopStep, StopCheck, StopClose, amqpVars
<1>6. ASSUME NEW f \in Forcers, ForceBegin(f) \/ ForceReturn(f) PROVE WatchInv'
  BY <1>6, <1>1 DEF ForceBegin, ForceReturn, ForceEnd, amqpVars
<1>7. CASE Environment
  <2>1. ASSUME NEW c \in Conns, DialConfig(c) \/ BrokerDrop(c) \/ CloseConn(c), UNCHANGED mgrVars
        PROVE WatchInv'
    BY <2>1 DEF DialConfig, BrokerDrop, CloseConn, mgrVars
  <2> QED
    BY <1>7, <2>1, <1>1 DEF Environment, amqpVars
<1>8. CASE UNCHANGED cmVars
  BY <1>8, <1>1 DEF cmVars, mgrVars, amqpVars
<1> QED
  BY <1>2, <1>3, <1>4, <1>5, <1>6, <1>7, <1>8 DEF CMNext

\* NewConnectionManager establishes the invariant.
LEMMA CMInitInv == CMInit => CMInv
<1> SUFFICES ASSUME CMInit PROVE CMInv
  OBVIOUS
<1> USE DEF CMInit, AmqpInit
<1>1. backoff \in InitBackoff..MaxBackoff
  BY BackoffAssumption DEF BackoffAssumption
<1>2. CMTypeOK
  BY <1>1, Zenon DEF CMTypeOK, AmqpTypeOK
<1>3. StopInv
  BY DEF StopInv, NoDoubleClose
<1>4. WatchInv
  BY DEF WatchInv, ReconnectsOnlyAfterLoss
<1> QED
  BY <1>2, <1>3, <1>4 DEF CMInv

\* The conjunction is an invariant of the manager.
THEOREM CMInvariant == CMSafety => []CMInv
<1>1. CMInv /\ [CMNext]_cmVars => CMInv'
  BY CMTypeCorrect, StopInvPreserved, WatchInvPreserved DEF CMInv
<1> QED
  BY CMInitInv, <1>1, PTL DEF CMSafety

\* Every variable of the manager keeps its type, and the back-off of the watcher
\* stays between the first one and the cap however many attempts fail.
THEOREM ManagerTypeCorrect == CMSafety => []CMTypeOK
<1>1. CMInv => CMTypeOK
  BY DEF CMInv
<1> QED
  BY <1>1, CMInvariant, PTL

\* However many goroutines call Stop, stopChan is closed at most once.
THEOREM StopClosesOnce == CMSafety => []NoDoubleClose
<1>1. CMInv => NoDoubleClose
  BY DEF CMInv, StopInv
<1> QED
  BY <1>1, CMInvariant, PTL

\* The watcher calls the reconnect callback only for a connection that was lost.
THEOREM WatcherReconnectsOnlyAfterLoss == CMSafety => []ReconnectsOnlyAfterLoss
<1>1. CMInv => ReconnectsOnlyAfterLoss
  BY DEF CMInv, WatchInv
<1> QED
  BY <1>1, CMInvariant, PTL

\* While the watcher works on an outage IsConnected reports it, if nobody forces a
\* reconnect: only Start and the end of the loop set the flag.
THEOREM OutageIsReported == CMSafety => []OutageReported
<1> USE DEF OutageReported
<1>1. CMInit => OutageReported
  BY DEF CMInit
<1>2. CMInv /\ OutageReported /\ [CMNext]_cmVars => OutageReported'
  <2> SUFFICES ASSUME OutageReported, [CMNext]_cmVars, Forcers = {} PROVE OutageReported'
    OBVIOUS
  <2>1. CASE UNCHANGED <<wpc, connected>>
    BY <2>1
  <2>2. CASE WatcherStep
    BY <2>2 DEF WatcherStep, WatchNotified, WatchShut, WatchStopped, MarkDisconnected,
       CallReconnect, ReconnectOk, Rewatch, ReconnectFail, BackoffElapsed, Goto
  <2>3. CASE Start
    BY <2>3 DEF Start
  <2>4. ASSUME NEW s \in Stoppers, StopLock(s) \/ StopStep(s) PROVE OutageReported'
    BY <2>4, <2>1 DEF StopLock, StopStep, StopCheck, StopClose
  <2>5. ASSUME NEW c \in Conns, Wire(c) PROVE OutageReported'
    BY <2>5, <2>1 DEF Wire
  <2>6. CASE Environment
    BY <2>6, <2>1 DEF Environment, mgrVars
  <2>7. CASE UNCHANGED cmVars
    BY <2>7, <2>1 DEF cmVars, mgrVars
  <2> QED
    BY <2>2, <2>3, <2>4, <2>5, <2>6, <2>7 DEF CMNext
<1> QED
  BY <1>1, <1>2, CMInvariant, PTL DEF CMSafety

=============================================================================
