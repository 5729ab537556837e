--------------------------- MODULE RuntimeContract ---------------------------
(***************************************************************************)
(* Startup and cleanup as the plugin runtime sees them: the readiness and  *)
(* health values that publishRuntimeContract registers, the health checker *)
(* they start and stop, and CheckHealth in between.  How channels are      *)
(* built and goroutines drained is the subject of Client; here a stage of  *)
(* startup succeeds or fails.                                              *)
(***************************************************************************)
EXTENDS HealthChecker, Naturals

CONSTANTS Startup,   \* the goroutine that runs startupWithContext
          Entries    \* how many values the contract registers

ASSUME RuntimeAssumption == Startup \notin Stoppers /\ Entries \in Nat \ {0}

\* The registrations in their order; in the code four: shared readiness, shared
\* health, private readiness, private health.
Resources == 1 .. Entries

VARIABLES contract,  \* the registered value: "none", "no" or "yes"
          refused,   \* entries that show "yes" because their withdrawal was refused
          pc,        \* control state of the startup and of each cleanup
          pub        \* local: the publication a process is engaged in

contractVars == <<contract, refused>>
rcVars == <<hcVars, contractVars, pc, pub>>

Procs == {Startup} \cup Stoppers
NoPub == [next |-> "none", value |-> "no", at |-> 0]

RCTypeOK ==
    /\ HCTypeOK
    /\ contract \in [Resources -> {"none", "no", "yes"}]
    /\ refused \in SUBSET Resources
    /\ pc \in [Procs -> {"idle", "publish", "connect", "channels", "start", "register",
                         "health", "manager", "ok", "fail", "signal", "stop", "close", "done"}]
    /\ pub \in [Procs -> [next : {"none", "connect", "ok", "fail", "signal"},
                          value : {"no", "yes"}, at : Resources \cup {0}]]

RCInit ==
    /\ HCInit
    /\ contract = [i \in Resources |-> "none"]
    /\ refused = {}
    /\ pc = [p \in Procs |-> "idle"]
    /\ pub = [p \in Procs |-> NoPub]

Step(p, from, to) ==
    /\ pc[p] = from
    /\ pc' = [pc EXCEPT ![p] = to]
    /\ UNCHANGED pub

\* Process p, at from, calls publishRuntimeContract(v, v) and goes on at to.
Publish(p, from, v, to) ==
    /\ pc[p] = from
    /\ pc' = [pc EXCEPT ![p] = "publish"]
    /\ pub' = [pub EXCEPT ![p] = [next |-> to, value |-> v, at |-> 1]]

\* One registration.  A refusal is only logged.
Register(p) ==
    LET i == pub[p].at
    IN /\ pc[p] = "publish"
       /\ \/ /\ contract' = [contract EXCEPT ![i] = pub[p].value]
             /\ refused' = refused \ {i}
          \/ /\ refused' = IF contract[i] = "yes" THEN refused \cup {i} ELSE refused
             /\ UNCHANGED contract
       /\ IF i = Entries
          THEN /\ pc' = [pc EXCEPT ![p] = pub[p].next]
               /\ pub' = [pub EXCEPT ![p] = NoPub]
          ELSE /\ pub' = [pub EXCEPT ![p].at = i + 1]
               /\ UNCHANGED pc
       /\ UNCHANGED hcVars

-----------------------------------------------------------------------------
(* startupWithContext                                                      *)

StartupBegins ==
    /\ Publish(Startup, "idle", "no", "connect")
    /\ UNCHANGED <<hcVars, contractVars>>

\* A context that is done already: nothing is published.
StartupCancelled ==
    /\ Step(Startup, "idle", "fail")
    /\ UNCHANGED <<hcVars, contractVars>>

StartupConnects(c) ==
    /\ Step(Startup, "connect", "channels")
    /\ Install(c)
    /\ UNCHANGED contractVars

\* initializeProducers and initializeConsumers.
StartupChannels ==
    /\ Step(Startup, "channels", "start")
    /\ UNCHANGED <<hcVars, contractVars>>

StartupStarts ==
    /\ Step(Startup, "start", "register")
    /\ HCStart
    /\ UNCHANGED contractVars

\* RegisterSharedResource and the private resources.
StartupRegisters ==
    /\ Step(Startup, "register", "health")
    /\ UNCHANGED <<hcVars, contractVars>>

\* CheckHealth looks at the connection, ...
CheckConnection ==
    /\ IsOpen(connection)
    /\ Step(Startup, "health", "manager")
    /\ UNCHANGED <<hcVars, contractVars>>

\* ... at the connection manager and at the health checker.
CheckManagers ==
    /\ healthy
    /\ Publish(Startup, "manager", "yes", "ok")
    /\ UNCHANGED <<hcVars, contractVars>>

\* Every stage may fail, or find the context done: the contract is published
\* as not ready, and what was started keeps running.
StartupFails ==
    /\ \E from \in {"connect", "channels", "register", "health", "manager"} :
          Publish(Startup, from, "no", "fail")
    /\ UNCHANGED <<hcVars, contractVars>>

StartupReturned == pc[Startup] \in {"ok", "fail"}

-----------------------------------------------------------------------------
(* cleanupWithContext.  With a context that is done it returns at once.    *)

\* Mutated form: the contract is not withdrawn.
CleanupBeginsSilently(s) ==
    /\ StartupReturned
    /\ Step(s, "idle", "signal")
    /\ UNCHANGED <<hcVars, contractVars>>

CleanupBegins(s) ==
    /\ StartupReturned
    /\ Publish(s, "idle", "no", "signal")
    /\ UNCHANGED <<hcVars, contractVars>>

CleanupSignal(s) ==
    /\ Step(s, "signal", "stop")
    /\ closed' = TRUE
    /\ UNCHANGED <<amqpVars, connection, verdictVars, stopVars, probeVars, usable, contractVars>>

\* Mutated form: cleanup waits for the goroutine of the checker to end, also when
\* startup never started it.
CleanupStopJoins(s) ==
    /\ pc[s] = "stop"
    /\ \/ /\ StopStep(s)
          /\ UNCHANGED pc
       \/ /\ hsp[s] = "returned" /\ hpc = "ended"
          /\ pc' = [pc EXCEPT ![s] = "close"]
          /\ UNCHANGED hcVars
    /\ UNCHANGED <<pub, contractVars>>

\* healthChecker.Stop().
CleanupStop(s) ==
    /\ pc[s] = "stop"
    /\ \/ /\ StopStep(s)
          /\ UNCHANGED pc
       \/ /\ hsp[s] = "returned"
          /\ pc' = [pc EXCEPT ![s] = "close"]
          /\ UNCHANGED hcVars
    /\ UNCHANGED <<pub, contractVars>>

\* The rest of cleanup ends with the connection, which is forgotten unless Close
\* reports an error.
CleanupCloses(s) ==
    /\ Step(s, "close", "done")
    /\ IF IsOpen(connection) THEN CloseConn(connection) ELSE UNCHANGED amqpVars
    /\ connection' \in (IF IsOpen(connection) THEN {NoConn, connection} ELSE {connection})
    /\ UNCHANGED <<closed, verdictVars, stopVars, probeVars, usable, contractVars>>

-----------------------------------------------------------------------------
(* The specification                                                       *)

\* The manager, once started, runs the reconnect callback, after a loss or because
\* ForceReconnect was called; a late callback may do so after cleanup.
Reconnect(c) ==
    /\ hpc # "off"
    /\ Install(c)
    /\ UNCHANGED <<contractVars, pc, pub>>

StartupStep ==
    \/ StartupBegins \/ StartupCancelled \/ (\E c \in Conns : StartupConnects(c))
    \/ StartupChannels \/ StartupStarts \/ StartupRegisters
    \/ CheckConnection \/ CheckManagers \/ StartupFails

CleanupStep(s) == CleanupSignal(s) \/ CleanupStop(s) \/ CleanupCloses(s) \/ Register(s)

CheckerStep == (Tick \/ ProbeStep \/ RunStopped) /\ UNCHANGED <<contractVars, pc, pub>>

RCNext ==
    \/ StartupStep \/ Register(Startup)
    \/ \E s \in Stoppers : CleanupBegins(s) \/ CleanupStep(s)
    \/ CheckerStep
    \/ \E c \in Conns : Reconnect(c) \/ (Drop(c) /\ UNCHANGED <<contractVars, pc, pub>>)

\* The ticker keeps firing and every goroutine that can run does run; the select
\* of run() does not pass over a closed stopChan for ever.
RCFairness ==
    /\ WF_rcVars(StartupStep \/ Register(Startup))
    /\ \A s \in Stoppers : WF_rcVars(CleanupStep(s))
    /\ WF_rcVars(CheckerStep)
    /\ SF_rcVars(RunStopped /\ UNCHANGED <<contractVars, pc, pub>>)

RCSafety == RCInit /\ [][RCNext]_rcVars
RCSpec == RCSafety /\ RCFairness

-----------------------------------------------------------------------------
(* Properties                                                              *)

\* Startup has got past CheckHealth.
Checked == pc[Startup] = "ok" \/ pub[Startup].value = "yes"

\* Cleanup s has withdrawn the contract.
Withdrawn(s) == pc[s] \in {"signal", "stop", "close", "done"}

\* Other plugins see readiness or health only after CheckHealth has passed, so
\* never after a startup that failed at whatever stage, and no longer once a
\* cleanup has begun to close things, except for a value whose withdrawal the
\* runtime refused.
ReadyMeansStarted ==
    \A i \in Resources : contract[i] = "yes" =>
        /\ Checked
        /\ \A s \in Stoppers : Withdrawn(s) => i \in refused

\* A cleanup that has withdrawn the contract returns, and the goroutine of the
\* health checker ends, also after a startup that failed late and left it
\* running, and with several cleanups at once.
ShutdownStopsChecker ==
    \A s \in Stoppers : (pc[s] = "signal") ~> (pc[s] = "done" /\ hpc \in {"off", "ended"})

==============================================================================
