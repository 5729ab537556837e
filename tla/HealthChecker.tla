---------------------------- MODULE HealthChecker ----------------------------
(***************************************************************************)
(* HealthChecker of managers.go with connectionProbe of client.go as its   *)
(* probe.  The probe reads r.closed, r.connection and the state of that    *)
(* connection one after the other, and its result is recorded later still; *)
(* meanwhile the connection may be lost or replaced and the client closed. *)
(* The time of the last check and the number of errors are left out.       *)
(***************************************************************************)
EXTENDS AmqpConnection

CONSTANT Stoppers    \* the calls of Stop

VARIABLES connection,   \* r.connection
          closed,       \* r.closed
          healthy,      \* healthy
          lastError,    \* lastError is not nil
          hstopped,     \* stopped
          hstopClosed,  \* stopChan is closed
          once,         \* stopOnce: "new", "running" or "done"
          hpc,          \* control state of the goroutine in run()
          seen,         \* local: the connection the probe has read
          probeErr,     \* local: the probe has failed
          usable,       \* history: r.connection was open at some time since the tick
          hsp           \* control state of each Stop call

linkVars == <<connection, closed>>
verdictVars == <<healthy, lastError>>
stopVars == <<hstopped, hstopClosed, once, hsp>>
probeVars == <<hpc, seen, probeErr>>
hcVars == <<amqpVars, linkVars, verdictVars, stopVars, probeVars, usable>>

HCTypeOK ==
    /\ AmqpTypeOK
    /\ connection \in Conns \cup {NoConn}
    /\ closed \in BOOLEAN
    /\ healthy \in BOOLEAN /\ lastError = ~healthy
    /\ hstopped \in BOOLEAN /\ hstopClosed \in BOOLEAN
    /\ once \in {"new", "running", "done"}
    /\ hpc \in {"off", "select", "closed", "read", "check", "record", "ended"}
    /\ seen \in Conns \cup {NoConn}
    /\ probeErr \in BOOLEAN
    /\ usable \in BOOLEAN
    /\ hsp \in [Stoppers -> {"idle", "once", "mark", "returned"}]

HCInit ==
    /\ AmqpInit
    /\ connection = NoConn
    /\ closed = FALSE
    /\ healthy = TRUE
    /\ lastError = FALSE
    /\ hstopped = FALSE
    /\ hstopClosed = FALSE
    /\ once = "new"
    /\ hpc = "off"
    /\ seen = NoConn
    /\ probeErr = FALSE
    /\ usable = FALSE
    /\ hsp = [s \in Stoppers |-> "idle"]

Probing == hpc \in {"closed", "read", "check", "record"}

\* The goroutine moves on.
RunGoto(from, to) == hpc = from /\ hpc' = to

-----------------------------------------------------------------------------
(* The connection, as the rest of the client changes it                    *)

\* The reconnect callback or connect() installs the fresh connection c.
Install(c) ==
    /\ c \in Fresh({x \in Conns : connState[x] = "none"})
    /\ DialConfig(c)
    /\ connection' = c
    /\ usable' = Probing
    /\ UNCHANGED <<closed, verdictVars, stopVars, probeVars>>

\* External: the broker or the network ends a connection.
Drop(c) ==
    /\ BrokerDrop(c)
    /\ UNCHANGED <<linkVars, verdictVars, stopVars, probeVars, usable>>

-----------------------------------------------------------------------------
(* run() and performHealthCheck()                                          *)

\* SetProbe and Start.
HCStart ==
    /\ hpc' = "select"
    /\ UNCHANGED <<amqpVars, linkVars, verdictVars, stopVars, seen, probeErr, usable>>

\* The select takes a tick; performHealthCheck calls the probe.
Tick ==
    /\ RunGoto("select", "closed")
    /\ usable' = IsOpen(connection)
    /\ UNCHANGED <<amqpVars, linkVars, verdictVars, stopVars, seen, probeErr>>

ProbeClosed ==
    /\ RunGoto("closed", IF closed THEN "record" ELSE "read")
    /\ probeErr' = closed
    /\ UNCHANGED <<amqpVars, linkVars, verdictVars, stopVars, seen, usable>>

\* Under the read lock of connectionMutex.
ProbeRead ==
    /\ RunGoto("read", IF connection = NoConn THEN "record" ELSE "check")
    /\ seen' = connection
    /\ probeErr' = (connection = NoConn)
    /\ UNCHANGED <<amqpVars, linkVars, verdictVars, stopVars, usable>>

\* Mutated form: a connection that is not nil counts as live.
ProbeCheckNotNil ==
    /\ RunGoto("check", "record")
    /\ probeErr' = FALSE
    /\ seen' = NoConn
    /\ UNCHANGED <<amqpVars, linkVars, verdictVars, stopVars, usable>>

\* IsClosed, and a temporary channel, which an open connection may still refuse.
ProbeCheck ==
    /\ RunGoto("check", "record")
    /\ probeErr' \in IF IsOpen(seen) THEN BOOLEAN ELSE {TRUE}
    /\ seen' = NoConn
    /\ UNCHANGED <<amqpVars, linkVars, verdictVars, stopVars, usable>>

\* The locals of a probe go out of scope.
ProbeOver == probeErr' = FALSE /\ usable' = FALSE

\* Mutated form: a failure leaves the last verdict as it was.
RecordKeepsVerdict ==
    /\ RunGoto("record", "select")
    /\ ProbeOver
    /\ UNCHANGED <<amqpVars, linkVars, verdictVars, stopVars, seen>>

\* Mutated form: an error is remembered, the verdict is not changed.
RecordErrorOnly ==
    /\ RunGoto("record", "select")
    /\ lastError' = probeErr
    /\ ProbeOver
    /\ UNCHANGED <<amqpVars, linkVars, healthy, stopVars, seen>>

\* The result is recorded under the mutex, whatever has happened since.
Record ==
    /\ RunGoto("record", "select")
    /\ healthy' = ~probeErr
    /\ lastError' = probeErr
    /\ ProbeOver
    /\ UNCHANGED <<amqpVars, linkVars, stopVars, seen>>

\* The select finds stopChan closed.
RunStopped ==
    /\ hstopClosed
    /\ RunGoto("select", "ended")
    /\ UNCHANGED <<amqpVars, linkVars, verdictVars, stopVars, seen, probeErr, usable>>

-----------------------------------------------------------------------------
(* Stop()                                                                  *)

\* Mutated form: stopped is set in the critical section that reads it.
StopReadSets(s) ==
    /\ hsp[s] = "idle"
    /\ hsp' = [hsp EXCEPT ![s] = IF hstopped THEN "returned" ELSE "once"]
    /\ hstopped' = TRUE
    /\ UNCHANGED <<amqpVars, linkVars, verdictVars, hstopClosed, once, probeVars, usable>>

\* stopped is read under the mutex and looked at after it is released.
StopRead(s) ==
    /\ hsp[s] = "idle"
    /\ hsp' = [hsp EXCEPT ![s] = IF hstopped THEN "returned" ELSE "once"]
    /\ UNCHANGED <<amqpVars, linkVars, verdictVars, hstopped, hstopClosed, once, probeVars, usable>>

\* stopOnce.Do: the first caller closes stopChan ...
StopClose(s) ==
    /\ hsp[s] = "once" /\ once = "new"
    /\ once' = "running"
    /\ hstopClosed' = TRUE
    /\ hsp' = [hsp EXCEPT ![s] = "mark"]
    /\ UNCHANGED <<amqpVars, linkVars, verdictVars, hstopped, probeVars, usable>>

\* ... and sets stopped; ...
StopMark(s) ==
    /\ hsp[s] = "mark"
    /\ once' = "done"
    /\ hstopped' = TRUE
    /\ hsp' = [hsp EXCEPT ![s] = "returned"]
    /\ UNCHANGED <<amqpVars, linkVars, verdictVars, hstopClosed, probeVars, usable>>

\* ... any other waits until it has done so.
StopWait(s) ==
    /\ hsp[s] = "once" /\ once = "done"
    /\ hsp' = [hsp EXCEPT ![s] = "returned"]
    /\ UNCHANGED <<amqpVars, linkVars, verdictVars, hstopped, hstopClosed, once, probeVars, usable>>

-----------------------------------------------------------------------------

ProbeStep == ProbeClosed \/ ProbeRead \/ ProbeCheck \/ Record
StopStep(s) == StopRead(s) \/ StopClose(s) \/ StopMark(s) \/ StopWait(s)

\* A verdict "healthy" that is about to be recorded is not older than its probe:
\* at some moment since the tick r.connection was open, however the reads of the
\* probe interleave with an outage, a reconnect and a shutdown.
HealthyVerdictIsFresh == hpc = "record" /\ ~probeErr => usable

\* When any Stop call has returned, stopChan is closed, also for a caller that
\* came while another one was closing it.
StopReturnsStopped == \A s \in Stoppers : hsp[s] = "returned" => hstopClosed /\ hstopped

\* connectionProbe: "so disconnects are reflected in the health state rather than
\* always reporting healthy".  Unless the checker is stopped, a lasting outage is
\* reported for good, after at most one stale success.
OutageReflected ==
    (<>[](~IsOpen(connection) /\ hpc # "off" /\ ~hstopClosed)) => <>[]~healthy

==============================================================================
