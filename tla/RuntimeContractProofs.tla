----------------------- MODULE RuntimeContractProofs ------------------------
(***************************************************************************)
(* Safety of RuntimeContract, and with it of HealthChecker, for any sets   *)
(* of connections and cleanups and any number of registered values.        *)
(***************************************************************************)
EXTENDS RuntimeContract, TLAPS

\* stopChan is closed before stopped is set, and the once is over only after it.
StopInv ==
    /\ hstopped => hstopClosed
    /\ once = "done" => hstopped
    /\ \A s \in Stoppers : hsp[s] = "mark" => hstopClosed
    /\ StopReturnsStopped

\* As long as a probe runs, a connection that is installed and open has been
\* noted; so has the one the probe has read, if it is still open.
ProbeInv ==
    /\ Probing /\ IsOpen(connection) => usable
    /\ hpc = "check" /\ IsOpen(seen) => usable
    /\ HealthyVerdictIsFresh

\* A process is publishing or has no publication; only startup publishes "yes",
\* and then ends well; cleanups begin after startup has returned, and publish
\* "no".
PubInv ==
    /\ \A p \in Procs : IF pc[p] = "publish"
                        THEN pub[p].at \in Resources /\ pub[p].next # "none"
                        ELSE pub[p] = NoPub
    /\ \A s \in Stoppers : pc[s] = "publish" => pub[s].value = "no" /\ pub[s].next = "signal"
    /\ pub[Startup].value = "yes" => pub[Startup].next = "ok"
    /\ \A s \in Stoppers : pc[s] # "idle" => StartupReturned

\* The values a cleanup has come past are withdrawn or refused.
ContractInv ==
    /\ \A s \in Stoppers : pc[s] = "publish" =>
          \A i \in Resources : i < pub[s].at /\ contract[i] = "yes" => i \in refused
    /\ ReadyMeansStarted

RCInv == RCTypeOK /\ StopInv /\ ProbeInv /\ PubInv /\ ContractInv

-----------------------------------------------------------------------------
(* Steps                                                                   *)

\* cleanup sets r.closed; cleanup closes the connection.
SetsClosed ==
    /\ closed' = TRUE
    /\ UNCHANGED <<amqpVars, connection, verdictVars, stopVars, probeVars, usable>>
ClosesLink ==
    /\ IF IsOpen(connection) THEN CloseConn(connection) ELSE UNCHANGED amqpVars
    /\ connection' \in (IF IsOpen(connection) THEN {NoConn, connection} ELSE {connection})
    /\ UNCHANGED <<closed, verdictVars, stopVars, probeVars, usable>>

\* What a step does to connection and health checker ...
HCStep ==
    \/ UNCHANGED hcVars
    \/ (\E c \in Conns : Install(c) \/ Drop(c))
    \/ HCStart \/ Tick \/ ProbeStep \/ RunStopped
    \/ (\E s \in Stoppers : StopStep(s))
    \/ SetsClosed \/ ClosesLink

\* ... and to the contract and the processes that publish it.
StartupMoves ==
    \E from \in {"idle", "connect", "channels", "start", "register", "health"},
       to \in {"fail", "channels", "start", "register", "health", "manager"} :
          Step(Startup, from, to) /\ UNCHANGED contractVars
StartupPublishes ==
    \E from \in {"idle", "connect", "channels", "register", "health", "manager"},
       v \in {"no", "yes"}, to \in {"connect", "fail", "ok"} :
          /\ Publish(Startup, from, v, to) /\ UNCHANGED contractVars
          /\ v = "yes" <=> to = "ok"
CleanupMoves(s) ==
    \E from \in {"signal", "stop", "close"}, to \in {"stop", "close", "done"} :
       Step(s, from, to) /\ UNCHANGED contractVars

PubStep ==
    \/ UNCHANGED <<contractVars, pc, pub>>
    \/ StartupMoves \/ StartupPublishes
    \/ (\E p \in Procs : Register(p))
    \/ (\E s \in Stoppers : CleanupBegins(s) \/ CleanupMoves(s))

\* The steps of a startup, of a cleanup, of the checker and of the connection in
\* these terms.
LEMMA StepCases == [RCNext]_rcVars => HCStep /\ PubStep
<1> SUFFICES ASSUME [RCNext]_rcVars PROVE HCStep /\ PubStep
  OBVIOUS
<1> USE DEF contractVars
<1>1. CASE UNCHANGED rcVars
  BY <1>1, Zenon DEF rcVars, HCStep, PubStep
<1>2. CASE StartupBegins \/ CheckManagers \/ StartupFails
  <2>1. StartupPublishes
    BY <1>2, Zenon DEF StartupBegins, CheckManagers, StartupFails, StartupPublishes
  <2> QED
    BY <1>2, <2>1, Zenon DEF StartupBegins, CheckManagers, StartupFails, HCStep, PubStep
<1>3. CASE StartupCancelled \/ StartupChannels \/ StartupRegisters \/ CheckConnection
  <2>1. StartupMoves
    BY <1>3, Zenon DEF StartupCancelled, StartupChannels, StartupRegisters, CheckConnection,
                       StartupMoves
  <2> QED
    BY <1>3, <2>1, Zenon
       DEF StartupCancelled, StartupChannels, StartupRegisters, CheckConnection, HCStep, PubStep
<1>4. CASE StartupStarts \/ \E c \in Conns : StartupConnects(c)
  <2>1. StartupMoves
    BY <1>4, Zenon DEF StartupStarts, StartupConnects, StartupMoves
  <2> QED
    BY <1>4, <2>1, Zenon DEF StartupStarts, StartupConnects, HCStep, PubStep
<1>5. ASSUME NEW p \in Procs, Register(p) PROVE HCStep /\ PubStep
  BY <1>5, Zenon DEF Register, HCStep, PubStep
<1>6. ASSUME NEW s \in Stoppers, CleanupBegins(s) PROVE HCStep /\ PubStep
  BY <1>6, Zenon DEF CleanupBegins, HCStep, PubStep
<1>7. ASSUME NEW s \in Stoppers, CleanupSignal(s) PROVE HCStep /\ PubStep
  <2>1. CleanupMoves(s)
    BY <1>7, Zenon DEF CleanupSignal, CleanupMoves
  <2> QED
    BY <1>7, <2>1, Zenon DEF CleanupSignal, SetsClosed, HCStep, PubStep
<1>8. ASSUME NEW s \in Stoppers, CleanupStop(s) PROVE HCStep /\ PubStep
  <2>1. CASE StopStep(s) /\ UNCHANGED pc
    BY <1>8, <2>1, Zenon DEF CleanupStop, HCStep, PubStep
  <2>2. CASE pc' = [pc EXCEPT ![s] = "close"] /\ UNCHANGED hcVars
    <3>1. CleanupMoves(s)
      BY <1>8, <2>2, Zenon DEF CleanupStop, Step, CleanupMoves
    <3> QED
      BY <2>2, <3>1, Zenon DEF HCStep, PubStep
  <2> QED
    BY <1>8, <2>1, <2>2, Zenon DEF CleanupStop
<1>9. ASSUME NEW s \in Stoppers, CleanupCloses(s) PROVE HCStep /\ PubStep
  <2>1. CleanupMoves(s)
    BY <1>9, Zenon DEF CleanupCloses, CleanupMoves
  <2> QED
    BY <1>9, <2>1, Zenon DEF CleanupCloses, ClosesLink, HCStep, PubStep
<1>10. CASE CheckerStep
  BY <1>10, Zenon DEF CheckerStep, HCStep, PubStep
<1>11. ASSUME NEW c \in Conns, Reconnect(c) \/ (Drop(c) /\ UNCHANGED <<contractVars, pc, pub>>)
       PROVE  HCStep /\ PubStep
  BY <1>11, Zenon DEF Reconnect, HCStep, PubStep
<1>12. Startup \in Procs /\ Stoppers \subseteq Procs
  BY DEF Procs
<1> QED
  BY <1>1, <1>2, <1>3, <1>4, <1>5, <1>6, <1>7, <1>8, <1>9, <1>10, <1>11, <1>12, Zenon
     DEF RCNext, StartupStep, CleanupStep

-----------------------------------------------------------------------------
(* Types                                                                   *)

\* The verdict and the error it comes from change together.
LEMMA HCTypes == HCTypeOK /\ HCStep => HCTypeOK'
<1> SUFFICES ASSUME HCTypeOK, HCStep PROVE HCTypeOK'
  OBVIOUS
<1> USE DEF HCTypeOK, AmqpTypeOK, hcVars, amqpVars, linkVars, verdictVars, stopVars, probeVars
<1>1. CASE UNCHANGED hcVars
  BY <1>1
<1>2. ASSUME NEW c \in Conns, Install(c) PROVE HCTypeOK'
  <2>1. AmqpTypeOK' /\ connection' \in Conns \cup {NoConn}
    BY <1>2 DEF Install, DialConfig
  <2>2. usable' \in BOOLEAN
    BY <1>2 DEF Install, Probing
  <2> QED
    BY <1>2, <2>1, <2>2, Zenon DEF Install
<1>3. ASSUME NEW c \in Conns, Drop(c) PROVE HCTypeOK'
  <2>1. AmqpTypeOK'
    BY <1>3 DEF Drop, BrokerDrop
  <2> QED
    BY <1>3, <2>1 DEF Drop
<1>4. CASE HCStart \/ RunStopped
  <2>1. hpc' \in {"off", "select", "closed", "read", "check", "record", "ended"}
    BY <1>4 DEF HCStart, RunStopped, RunGoto
  <2> QED
    BY <1>4, <2>1, Zenon DEF HCStart, RunStopped
<1>5. CASE Tick
  <2>1. hpc' \in {"off", "select", "closed", "read", "check", "record", "ended"}
    BY <1>5 DEF Tick, RunGoto
  <2>2. usable' \in BOOLEAN
    BY <1>5, Zenon DEF Tick, IsOpen
  <2> QED
    BY <1>5, <2>1, <2>2, Zenon DEF Tick
<1>6. CASE ProbeClosed \/ ProbeRead \/ ProbeCheck
  <2>1. hpc' \in {"off", "select", "closed", "read", "check", "record", "ended"}
    BY <1>6 DEF ProbeClosed, ProbeRead, ProbeCheck, RunGoto
  <2>2. probeErr' \in BOOLEAN
    BY <1>6, Zenon DEF ProbeClosed, ProbeRead, ProbeCheck
  <2>3. seen' \in Conns \cup {NoConn}
    BY <1>6 DEF ProbeClosed, ProbeRead, ProbeCheck
  <2> QED
    BY <1>6, <2>1, <2>2, <2>3, Zenon DEF ProbeClosed, ProbeRead, ProbeCheck
<1>7. CASE Record
  <2>1. hpc' \in {"off", "select", "closed", "read", "check", "record", "ended"}
    BY <1>7 DEF Record, RunGoto
  <2>2. healthy' \in BOOLEAN /\ lastError' = ~healthy' /\ probeErr' \in BOOLEAN /\ usable' \in BOOLEAN
    BY <1>7, Zenon DEF Record, ProbeOver
  <2> QED
    BY <1>7, <2>1, <2>2, Zenon DEF Record
<1>8. ASSUME NEW s \in Stoppers, StopStep(s) PROVE HCTypeOK'
  <2>1. /\ once' \in {"new", "running", "done"}
        /\ hsp' \in [Stoppers -> {"idle", "once", "mark", "returned"}]
    BY <1>8 DEF StopStep, StopRead, StopClose, StopMark, StopWait
  <2>2. hstopped' \in BOOLEAN /\ hstopClosed' \in BOOLEAN
    BY <1>8, Zenon DEF StopStep, StopRead, StopClose, StopMark, StopWait
  <2> QED
    BY <1>8, <2>1, <2>2, Zenon DEF StopStep, StopRead, StopClose, StopMark, StopWait
<1>9. CASE SetsClosed
  <2>1. closed' \in BOOLEAN
    BY <1>9, Zenon DEF SetsClosed
  <2>2. UNCHANGED <<amqpVars, connection, verdictVars, stopVars, probeVars, usable>>
    BY <1>9, Zenon DEF SetsClosed
  <2> QED
    BY <2>1, <2>2
<1>10. CASE ClosesLink
  <2>1. AmqpTypeOK' /\ connection' \in Conns \cup {NoConn}
    BY <1>10 DEF ClosesLink, CloseConn, IsOpen
  <2>2. UNCHANGED <<closed, verdictVars, stopVars, probeVars, usable>>
    BY <1>10, Zenon DEF ClosesLink
  <2> QED
    BY <2>1, <2>2
<1> HIDE DEF HCTypeOK
<1> QED
  BY <1>1, <1>2, <1>3, <1>4, <1>5, <1>6, <1>7, <1>8, <1>9, <1>10, Zenon DEF HCStep, ProbeStep


\* A publication stays within the entries of the contract.
LEMMA RCTypes == RCTypeOK /\ PubInv /\ [RCNext]_rcVars => RCTypeOK'
<1> SUFFICES ASSUME RCTypeOK, PubInv, HCStep, PubStep PROVE RCTypeOK'
  BY StepCases
<1>1. HCTypeOK'
  BY HCTypes DEF RCTypeOK
<1> DEFINE Control == {"idle", "publish", "connect", "channels", "start", "register",
                       "health", "manager", "ok", "fail", "signal", "stop", "close", "done"}
<1> DEFINE Pub == [next : {"none", "connect", "ok", "fail", "signal"},
                   value : {"no", "yes"}, at : Resources \cup {0}]
<1> DEFINE Rest == /\ contract \in [Resources -> {"none", "no", "yes"}]
                   /\ refused \in SUBSET Resources
                   /\ pc \in [Procs -> Control]
                   /\ pub \in [Procs -> Pub]
<1>2. Rest
  BY DEF RCTypeOK
<1>3. /\ Startup \in Procs /\ Stoppers \subseteq Procs
      /\ Entries \in Nat /\ 1 \in Resources /\ Entries \in Resources
  BY RuntimeAssumption DEF RuntimeAssumption, Procs, Resources
<1> USE DEF contractVars
<1>4. ASSUME UNCHANGED <<contractVars, pc, pub>> PROVE Rest'
  BY <1>2, <1>4
<1>5. ASSUME StartupMoves PROVE Rest'
  BY <1>2, <1>3, <1>5 DEF StartupMoves, Step
<1>6. ASSUME StartupPublishes PROVE Rest'
  BY <1>2, <1>3, <1>6 DEF StartupPublishes, Publish
<1>7. ASSUME NEW p \in Procs, Register(p) PROVE Rest'
  <2> DEFINE i == pub[p].at
  <2>1. i \in Resources /\ pub[p] \in Pub
    BY <1>2, <1>7 DEF Register, PubInv
  <2>2. contract' \in [Resources -> {"none", "no", "yes"}] /\ refused' \in SUBSET Resources
    BY <1>2, <1>7, <2>1 DEF Register
  <2>3. NoPub \in Pub
    BY DEF NoPub
  <2>4. CASE i = Entries
    <3>1. /\ pc' = [pc EXCEPT ![p] = pub[p].next]
          /\ pub' = [pub EXCEPT ![p] = NoPub]
          /\ pc[p] = "publish"
      BY <1>7, <2>4, Zenon DEF Register
    <3>2. pub[p].next \in Control
      BY <2>1, <3>1 DEF PubInv
    <3> QED
      BY <1>2, <2>2, <2>3, <3>1, <3>2
  <2>5. CASE i # Entries
    <3>1. i + 1 \in Resources
      BY <1>3, <2>1, <2>5 DEF Resources
    <3>2. pc' = pc /\ pub' = [pub EXCEPT ![p].at = i + 1]
      BY <1>7, <2>5 DEF Register
    <3> QED
      BY <1>2, <2>1, <2>2, <3>1, <3>2
  <2> QED
    BY <2>4, <2>5
<1>8. ASSUME NEW s \in Stoppers, CleanupBegins(s) PROVE Rest'
  BY <1>2, <1>3, <1>8 DEF CleanupBegins, Publish
<1>9. ASSUME NEW s \in Stoppers, CleanupMoves(s) PROVE Rest'
  BY <1>2, <1>3, <1>9 DEF CleanupMoves, Step
<1>10. Rest'
  <2> HIDE DEF Rest
  <2> QED
    BY <1>4, <1>5, <1>6, <1>7, <1>8, <1>9, Zenon DEF PubStep
<1> QED
  BY <1>1, <1>10 DEF RCTypeOK

-----------------------------------------------------------------------------
(* The health checker                                                      *)

\* Only Stop touches its flags.
LEMMA StopPreserved == HCTypeOK /\ StopInv /\ HCStep => StopInv'
<1> SUFFICES ASSUME HCTypeOK, StopInv, HCStep PROVE StopInv'
  OBVIOUS
<1> USE DEF StopInv, StopReturnsStopped
<1>1. CASE UNCHANGED stopVars
  BY <1>1 DEF stopVars
<1>2. ASSUME NEW s \in Stoppers, StopStep(s) PROVE StopInv'
  <2>1. CASE StopRead(s)
    BY <2>1 DEF StopRead, HCTypeOK
  <2>2. CASE StopClose(s)
    BY <2>2 DEF StopClose, HCTypeOK
  <2>3. CASE StopMark(s)
    BY <2>3 DEF StopMark, HCTypeOK
  <2>4. CASE StopWait(s)
    BY <2>4 DEF StopWait, HCTypeOK
  <2> QED
    BY <1>2, <2>1, <2>2, <2>3, <2>4 DEF StopStep
<1>3. UNCHANGED stopVars \/ \E s \in Stoppers : StopStep(s)
  BY Zenon DEF HCStep, hcVars, Install, Drop, HCStart, Tick, ProbeStep, ProbeClosed, ProbeRead,
     ProbeCheck, Record, RunStopped, SetsClosed, ClosesLink
<1> QED
  BY <1>1, <1>2, <1>3

\* No connection becomes open except by being installed, which is noted.
LEMMA ProbePreserved == HCTypeOK /\ ProbeInv /\ HCStep => ProbeInv'
<1> SUFFICES ASSUME HCTypeOK, ProbeInv, HCStep PROVE ProbeInv'
  OBVIOUS
<1> USE DEF ProbeInv, HealthyVerdictIsFresh, Probing, IsOpen, amqpVars, linkVars, probeVars
<1>1. CASE UNCHANGED <<connState, connection, probeVars, usable>>
  BY <1>1
<1>2. ASSUME NEW c \in Conns, Install(c) PROVE ProbeInv'
  BY <1>2 DEF Install
<1>3. ASSUME NEW c \in Conns, Drop(c) PROVE ProbeInv'
  BY <1>3 DEF Drop, BrokerDrop, HCTypeOK, AmqpTypeOK
<1>4. CASE HCStart \/ RunStopped
  BY <1>4 DEF HCStart, RunStopped, RunGoto
<1>5. CASE Tick
  BY <1>5 DEF Tick, RunGoto
<1>6. CASE ProbeClosed
  BY <1>6 DEF ProbeClosed, RunGoto, HCTypeOK
<1>7. CASE ProbeRead
  BY <1>7 DEF ProbeRead, RunGoto
<1>8. CASE ProbeCheck
  BY <1>8 DEF ProbeCheck, RunGoto
<1>9. CASE Record
  BY <1>9 DEF Record, RunGoto
<1>10. CASE ClosesLink
  BY <1>10 DEF ClosesLink, CloseConn, HCTypeOK, AmqpTypeOK
<1>11. ASSUME SetsClosed \/ UNCHANGED hcVars \/ \E s \in Stoppers : StopStep(s)
       PROVE  UNCHANGED <<connState, connection, probeVars, usable>>
  BY <1>11, Zenon DEF SetsClosed, hcVars, StopStep, StopRead, StopClose, StopMark, StopWait
<1> HIDE DEF ProbeInv
<1> QED
  BY <1>1, <1>2, <1>3, <1>4, <1>5, <1>6, <1>7, <1>8, <1>9, <1>10, <1>11, Zenon
     DEF HCStep, ProbeStep


-----------------------------------------------------------------------------
(* The contract                                                            *)

\* Cleanup is not called before startup has returned, and startup does not go on
\* after it.
LEMMA PubPreserved == RCTypeOK /\ PubInv /\ [RCNext]_rcVars => PubInv'
<1> SUFFICES ASSUME RCTypeOK, PubInv, PubStep PROVE PubInv'
  BY StepCases
<1>1. /\ pc \in [Procs -> {"idle", "publish", "connect", "channels", "start", "register",
                          "health", "manager", "ok", "fail", "signal", "stop", "close", "done"}]
      /\ pub \in [Procs -> [next : {"none", "connect", "ok", "fail", "signal"},
                            value : {"no", "yes"}, at : Resources \cup {0}]]
  BY DEF RCTypeOK
<1>2. /\ Startup \in Procs /\ Stoppers \subseteq Procs /\ Startup \notin Stoppers
      /\ Entries \in Nat /\ 1 \in Resources
  BY RuntimeAssumption DEF RuntimeAssumption, Procs, Resources
<1> USE DEF PubInv, StartupReturned, NoPub
<1>3. CASE UNCHANGED <<contractVars, pc, pub>>
  BY <1>3
<1>4. CASE StartupMoves
  BY <1>1, <1>2, <1>4 DEF StartupMoves, Step
<1>5. CASE StartupPublishes
  BY <1>1, <1>2, <1>5 DEF StartupPublishes, Publish
<1>6. ASSUME NEW p \in Procs, Register(p) PROVE PubInv'
  <2> DEFINE i == pub[p].at
  <2>1. /\ pc[p] = "publish" /\ i \in Resources
        /\ \/ /\ pc' = [pc EXCEPT ![p] = pub[p].next]
              /\ pub' = [pub EXCEPT ![p] = NoPub]
           \/ /\ pc' = pc /\ i # Entries
              /\ pub' = [pub EXCEPT ![p].at = i + 1]
    BY <1>6 DEF Register
  <2>2. CASE /\ pc' = [pc EXCEPT ![p] = pub[p].next]
             /\ pub' = [pub EXCEPT ![p] = NoPub]
    BY <1>1, <1>2, <2>1, <2>2
  <2>3. CASE /\ pc' = pc /\ i # Entries
             /\ pub' = [pub EXCEPT ![p].at = i + 1]
    <3>1. i + 1 \in Resources
      BY <1>2, <2>1, <2>3 DEF Resources
    <3>2. /\ pub'[p].at = i + 1 /\ pub'[p].next = pub[p].next /\ pub'[p].value = pub[p].value
          /\ \A q \in Procs : q # p => pub'[q] = pub[q]
      BY <1>1, <2>3
    <3> QED
      BY <1>2, <2>1, <2>3, <3>1, <3>2
  <2> QED
    BY <2>1, <2>2, <2>3
<1>7. ASSUME NEW s \in Stoppers, CleanupBegins(s) PROVE PubInv'
  BY <1>1, <1>2, <1>7 DEF CleanupBegins, Publish
<1>8. ASSUME NEW s \in Stoppers, CleanupMoves(s) PROVE PubInv'
  BY <1>1, <1>2, <1>8 DEF CleanupMoves, Step
<1> HIDE DEF PubInv
<1> QED
  BY <1>3, <1>4, <1>5, <1>6, <1>7, <1>8, Zenon DEF PubStep

\* A cleanup comes past an entry by withdrawing it or by being refused, and
\* nobody publishes "yes" after startup has returned.
LEMMA ContractPreserved == RCTypeOK /\ PubInv /\ ContractInv /\ [RCNext]_rcVars => ContractInv'
<1> SUFFICES ASSUME RCTypeOK, PubInv, ContractInv, PubStep PROVE ContractInv'
  BY StepCases
<1>1. /\ contract \in [Resources -> {"none", "no", "yes"}]
      /\ refused \in SUBSET Resources
      /\ pc \in [Procs -> {"idle", "publish", "connect", "channels", "start", "register",
                          "health", "manager", "ok", "fail", "signal", "stop", "close", "done"}]
      /\ pub \in [Procs -> [next : {"none", "connect", "ok", "fail", "signal"},
                            value : {"no", "yes"}, at : Resources \cup {0}]]
  BY DEF RCTypeOK
<1>2. /\ Startup \in Procs /\ Stoppers \subseteq Procs /\ Startup \notin Stoppers
      /\ Entries \in Nat /\ 1 \in Resources
      /\ \A i \in Resources : i \in Nat /\ 1 <= i /\ i <= Entries
  BY RuntimeAssumption DEF RuntimeAssumption, Procs, Resources
<1> USE DEF ContractInv, ReadyMeansStarted, Checked, Withdrawn, contractVars
<1>3. CASE UNCHANGED <<contractVars, pc, pub>>
  BY <1>3
<1>4. CASE StartupMoves
  <2>1. pc[Startup] # "ok" /\ pub[Startup].value = "no"
    BY <1>1, <1>2, <1>4 DEF StartupMoves, Step, PubInv, NoPub
  <2>2. \A i \in Resources : contract[i] # "yes"
    BY <2>1
  <2> QED
    BY <1>4, <2>2 DEF StartupMoves
<1>5. CASE StartupPublishes
  <2>1. pc[Startup] # "ok" /\ pub[Startup].value = "no"
    BY <1>1, <1>2, <1>5 DEF StartupPublishes, Publish, PubInv, NoPub
  <2>2. \A i \in Resources : contract[i] # "yes"
    BY <2>1
  <2> QED
    BY <1>5, <2>2 DEF StartupPublishes
<1>6. ASSUME NEW p \in Procs, Register(p) PROVE ContractInv'
  <2> DEFINE i == pub[p].at
  <2>1. /\ pc[p] = "publish" /\ i \in Resources
        /\ IF i = Entries
           THEN pc'[p] = pub[p].next
           ELSE pc'[p] = "publish" /\ pub'[p].at = i + 1 /\ pub'[p].value = pub[p].value
        /\ \A q \in Procs : q # p => pc'[q] = pc[q] /\ pub'[q] = pub[q]
    BY <1>1, <1>6 DEF Register, PubInv
  <2>2. /\ \A j \in Resources : j # i => contract'[j] = contract[j]
        /\ \A j \in Resources : j # i /\ j \in refused => j \in refused'
        /\ contract'[i] = "yes" => pub[p].value = "yes" \/ (contract[i] = "yes" /\ i \in refused')
    BY <1>1, <1>6, <2>1 DEF Register
  <2> HIDE DEF i
  <2>3. CASE p = Startup
    <3>1. \A s \in Stoppers : pc[s] = "idle" /\ pc'[s] = "idle"
      BY <1>2, <2>1, <2>3 DEF PubInv, StartupReturned
    <3>2. ASSUME NEW j \in Resources, contract'[j] = "yes" PROVE Checked'
      <4>1. pub[p].value = "yes"
        BY <2>1, <2>2, <2>3, <3>2
      <4>2. pub[p].next = "ok"
        BY <2>3, <4>1 DEF PubInv
      <4> QED
        BY <2>1, <2>3, <4>1, <4>2
    <3> QED
      BY <3>1, <3>2
  <2>4. CASE p \in Stoppers
    <3>1. pub[p].value = "no" /\ pub[p].next = "signal" /\ p # Startup
      BY <1>2, <2>1, <2>4 DEF PubInv
    <3>2. \A j \in Resources : contract'[j] = "yes" =>
             /\ contract[j] = "yes"
             /\ (j \in refused \/ j = i) => j \in refused'
      BY <2>1, <2>2, <3>1
    <3>3. Checked => Checked'
      BY <1>2, <2>1, <3>1
    <3>4. \A j \in Resources : j <= i /\ contract'[j] = "yes" => j \in refused'
      <4>1. \A j \in Resources : j <= i => j < i \/ j = i
        BY <1>2, <2>1
      <4>2. \A j \in Resources : j < i /\ contract[j] = "yes" => j \in refused
        BY <2>1, <2>4 DEF i
      <4> QED
        BY <3>2, <4>1, <4>2
    <3>5. \A s \in Stoppers : Withdrawn(s)' => (s # p /\ Withdrawn(s)) \/ (s = p /\ i = Entries)
      BY <1>2, <2>1, <3>1
    <3>6. \A s \in Stoppers : Withdrawn(s)' =>
             \A j \in Resources : contract'[j] = "yes" => j \in refused'
      BY <1>2, <2>1, <3>2, <3>4, <3>5
    <3>7. ASSUME NEW s \in Stoppers, pc'[s] = "publish",
                 NEW j \in Resources, j < pub'[s].at, contract'[j] = "yes"
          PROVE  j \in refused'
      <4>1. CASE s = p
        <5>1. pub'[s].at = i + 1
          BY <2>1, <3>1, <3>7, <4>1
        <5>2. j <= i
          BY <1>2, <2>1, <3>7, <5>1
        <5> QED
          BY <3>4, <3>7, <5>2
      <4>2. CASE s # p
        BY <1>2, <2>1, <3>2, <3>7, <4>2
      <4> QED
        BY <4>1, <4>2
    <3> QED
      BY <3>2, <3>3, <3>6, <3>7
  <2> QED
    BY <2>3, <2>4 DEF Procs
<1>7. ASSUME NEW s \in Stoppers, CleanupBegins(s) PROVE ContractInv'
  <2>1. /\ pc'[s] = "publish" /\ pub'[s].at = 1
        /\ \A q \in Procs : q # s => pc'[q] = pc[q] /\ pub'[q] = pub[q]
        /\ UNCHANGED contractVars
    BY <1>1, <1>2, <1>7 DEF CleanupBegins, Publish
  <2>2. \A i \in Resources : ~(i < 1)
    BY <1>2
  <2> QED
    BY <1>2, <2>1, <2>2
<1>8. ASSUME NEW s \in Stoppers, CleanupMoves(s) PROVE ContractInv'
  <2>1. /\ Withdrawn(s) /\ pc'[s] # "publish"
        /\ \A q \in Procs : q # s => pc'[q] = pc[q]
        /\ UNCHANGED <<contractVars, pub>>
    BY <1>1, <1>2, <1>8 DEF CleanupMoves, Step
  <2> QED
    BY <1>2, <2>1
<1> HIDE DEF ContractInv
<1> QED
  BY <1>3, <1>4, <1>5, <1>6, <1>7, <1>8, Zenon DEF PubStep


-----------------------------------------------------------------------------
(* The invariant and the properties                                        *)

\* Nothing is registered, probed or stopped at the start.
LEMMA InitRCInv == RCInit => RCInv
<1> SUFFICES ASSUME RCInit PROVE RCInv
  OBVIOUS
<1> USE DEF RCInit, HCInit, AmqpInit
<1>1. HCTypeOK
  <2>1. /\ closed \in BOOLEAN /\ healthy \in BOOLEAN /\ lastError = ~healthy
        /\ hstopped \in BOOLEAN /\ hstopClosed \in BOOLEAN
        /\ probeErr \in BOOLEAN /\ usable \in BOOLEAN
    BY Zenon
  <2>2. /\ AmqpTypeOK /\ connection \in Conns \cup {NoConn} /\ seen \in Conns \cup {NoConn}
        /\ once \in {"new", "running", "done"}
        /\ hpc \in {"off", "select", "closed", "read", "check", "record", "ended"}
        /\ hsp \in [Stoppers -> {"idle", "once", "mark", "returned"}]
    BY DEF AmqpTypeOK
  <2> QED
    BY <2>1, <2>2, Zenon DEF HCTypeOK
<1>2. RCTypeOK
  BY <1>1 DEF RCTypeOK, NoPub
<1>3. StopInv /\ ProbeInv
  BY DEF StopInv, StopReturnsStopped, ProbeInv, Probing, HealthyVerdictIsFresh
<1>4. PubInv /\ ContractInv
  BY DEF PubInv, NoPub, Procs, ContractInv, ReadyMeansStarted
<1> QED
  BY <1>2, <1>3, <1>4 DEF RCInv

\* The invariant holds of startup, cleanups, health checker and connection.
THEOREM RuntimeInvariant == RCSafety => []RCInv
<1>1. RCInv /\ [RCNext]_rcVars => RCInv'
  <2> SUFFICES ASSUME RCInv, [RCNext]_rcVars PROVE RCInv'
    OBVIOUS
  <2>1. HCStep /\ HCTypeOK
    BY StepCases DEF RCInv, RCTypeOK
  <2> QED
    BY <2>1, RCTypes, StopPreserved, ProbePreserved, PubPreserved, ContractPreserved DEF RCInv
<1> QED
  BY InitRCInv, <1>1, PTL DEF RCSafety

\* Verdict and last error of the checker always agree, and a publication stays
\* within the entries of the contract.
THEOREM RuntimeTypeCorrect == RCSafety => []RCTypeOK
<1>1. RCInv => RCTypeOK
  BY DEF RCInv
<1> QED
  BY RuntimeInvariant, <1>1, PTL

\* connectionProbe never records a success for a connection that was not open at
\* any time during the probe.
THEOREM HealthyVerdictsAreFresh == RCSafety => []HealthyVerdictIsFresh
<1>1. RCInv => HealthyVerdictIsFresh
  BY DEF RCInv, ProbeInv
<1> QED
  BY RuntimeInvariant, <1>1, PTL

\* No Stop of the health checker returns before stopChan is closed, whichever of
\* any number of callers closes it.
THEOREM StopIsComplete == RCSafety => []StopReturnsStopped
<1>1. RCInv => StopReturnsStopped
  BY DEF RCInv, StopInv
<1> QED
  BY RuntimeInvariant, <1>1, PTL

\* Readiness is published only past CheckHealth and withdrawn before cleanup goes
\* on, for any number of entries and of cleanups.
THEOREM ReadinessIsHonest == RCSafety => []ReadyMeansStarted
<1>1. RCInv => ReadyMeansStarted
  BY DEF RCInv, ContractInv
<1> QED
  BY RuntimeInvariant, <1>1, PTL

=============================================================================
