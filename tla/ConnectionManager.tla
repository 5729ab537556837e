-------------------------- MODULE ConnectionManager -------------------------
(***************************************************************************)
(* The ConnectionManager of managers.go: the watcher goroutine that waits  *)
(* for a disconnect and drives the reconnect callback with back-off, Stop, *)
(* and ForceReconnect.  The callback itself (client.go) is only a call     *)
(* that returns a fresh connection or an error here; module Client models  *)
(* its steps and implements this module.                                   *)
(***************************************************************************)
EXTENDS AmqpConnection, Naturals

CONSTANTS Forcers,      \* goroutines that call ForceReconnect
          Stoppers,     \* goroutines that call Stop
          InitBackoff,  \* the first back-off, 500ms
          MaxBackoff    \* the cap of the back-off, 30s

ASSUME BackoffAssumption ==
    /\ InitBackoff \in Nat \ {0}
    /\ MaxBackoff \in Nat
    /\ InitBackoff <= MaxBackoff

VARIABLES connected,    \* the flag IsConnected reports
          stopped,      \* set by the first Stop
          stopClosed,   \* stopChan is closed
          reconnect,    \* the reconnect callback is registered
          connNotify,   \* connection whose notify channel was registered last
          wpc,          \* control state of the watcher goroutine
          wconn,        \* connection the watcher watches
          backoff,      \* the watcher's local backoff
          fpc,          \* control state of each ForceReconnect caller
          spc,          \* control state of each Stop caller
          crashed       \* reason of a panic that ended the process, or "no"

mgrVars == <<connected, stopped, stopClosed, reconnect, connNotify, wpc, wconn,
             backoff, fpc, spc, crashed>>
cmVars == <<amqpVars, mgrVars>>

CMTypeOK ==
    /\ AmqpTypeOK
    /\ connected \in BOOLEAN /\ stopped \in BOOLEAN /\ stopClosed \in BOOLEAN
    /\ reconnect \in BOOLEAN
    /\ connNotify \in Conns \cup {NoConn}
    /\ wpc \in {"none", "watch", "down", "loop", "call", "rewatch", "wait", "exit"}
    /\ wconn \in Conns \cup {NoConn}
    /\ backoff \in InitBackoff..MaxBackoff
    /\ fpc \in [Forcers -> {"idle", "call"}]
    /\ spc \in [Stoppers -> {"idle", "check", "close"}]
    /\ crashed \in {"no", "closeOfClosed", "nilConn", "waitGroup"}

CMInit ==
    /\ AmqpInit
    /\ connected = FALSE /\ stopped = FALSE /\ stopClosed = FALSE
    /\ reconnect = FALSE
    /\ connNotify = NoConn
    /\ wpc = "none" /\ wconn = NoConn /\ backoff = InitBackoff
    /\ fpc = [f \in Forcers |-> "idle"]
    /\ spc = [s \in Stoppers |-> "idle"]
    /\ crashed = "no"

-----------------------------------------------------------------------------
(* Wiring and start                                                        *)

\* connect() registers the callback and the notify channel of the connection
\* c it has just dialled.
Wire(c) ==
    /\ ~reconnect
    /\ connState[c] # "none"
    /\ NotifyClose(c)
    /\ reconnect' = TRUE
    /\ connNotify' = c
    /\ UNCHANGED <<connected, stopped, stopClosed, wpc, wconn, backoff, fpc, spc, crashed>>

\* Start, called once by the startup of the client.
Start ==
    /\ wpc = "none"
    /\ connected' = TRUE
    /\ IF connNotify # NoConn /\ reconnect
         THEN wpc' = "watch" /\ wconn' = connNotify
         ELSE UNCHANGED <<wpc, wconn>>
    /\ UNCHANGED <<amqpVars, stopped, stopClosed, reconnect, connNotify, backoff, fpc, spc, crashed>>

-----------------------------------------------------------------------------
(* watchConnection.  A watcher that has reconnected spawns its successor   *)
(* and returns, so one control state follows the chain of goroutines.      *)

\* Control moves from one state of watchConnection to another.
Goto(from, to) ==
    /\ wpc = from
    /\ wpc' = to
    /\ UNCHANGED <<stopped, stopClosed, reconnect, connNotify, fpc, spc, crashed>>

\* Mutated form: an end without an error is taken for a disconnect.
WatchNotifiedAnyEnd ==
    /\ Goto("watch", "down")
    /\ notify[wconn] \in {"err", "shut"}
    /\ UNCHANGED <<amqpVars, connected, wconn, backoff>>

\* The notify channel yields the error of an abnormal close.
WatchNotified ==
    /\ Goto("watch", "down")
    /\ notify[wconn] = "err"
    /\ UNCHANGED <<amqpVars, connected, wconn, backoff>>

\* The notify channel is closed without an error: return.
WatchShut ==
    /\ Goto("watch", "exit")
    /\ notify[wconn] = "shut"
    /\ UNCHANGED <<amqpVars, connected, wconn, backoff>>

\* Mutated form: the first select does not look at stopChan.
WatchStoppedInLoop ==
    /\ stopClosed
    /\ \E from \in {"loop", "wait"} : Goto(from, "exit")
    /\ UNCHANGED <<amqpVars, connected, wconn, backoff>>

\* stopChan is closed while the watcher waits, at the head of the reconnect
\* loop or during the back-off: return.
WatchStopped ==
    /\ stopClosed
    /\ \E from \in {"watch", "loop", "wait"} : Goto(from, "exit")
    /\ UNCHANGED <<amqpVars, connected, wconn, backoff>>

\* Mutated form: the disconnect is not recorded.
MarkDisconnectedForgets ==
    /\ Goto("down", "loop")
    /\ backoff' = InitBackoff
    /\ UNCHANGED <<amqpVars, connected, wconn>>

MarkDisconnected ==
    /\ Goto("down", "loop")
    /\ connected' = FALSE
    /\ backoff' = InitBackoff
    /\ UNCHANGED <<amqpVars, wconn>>

\* Mutated form: the loop no longer looks at stopChan.
CallReconnectUnchecked ==
    /\ Goto("loop", "call")
    /\ UNCHANGED <<amqpVars, connected, wconn, backoff>>

\* The head of the loop finds stopChan open and calls the callback.
CallReconnect ==
    /\ ~stopClosed
    /\ Goto("loop", "call")
    /\ UNCHANGED <<amqpVars, connected, wconn, backoff>>

\* Mutated form: the successor watches the connection its predecessor did.
ReconnectOkKeepsOld(c) ==
    /\ Goto("call", "rewatch")
    /\ connState[c] # "none" /\ notify[c] = "none"
    /\ connected' = TRUE
    /\ UNCHANGED <<amqpVars, wconn, backoff>>

\* The callback has returned the fresh connection c.
ReconnectOk(c) ==
    /\ Goto("call", "rewatch")
    /\ connState[c] # "none" /\ notify[c] = "none"
    /\ connected' = TRUE
    /\ wconn' = c
    /\ UNCHANGED <<amqpVars, backoff>>

\* The close notification of the fresh connection is registered, and the
\* successor goroutine starts to watch it.
Rewatch ==
    /\ Goto("rewatch", "watch")
    /\ NotifyClose(wconn)
    /\ UNCHANGED <<connected, wconn, backoff>>

\* The callback has returned an error: back off.
ReconnectFail ==
    /\ Goto("call", "wait")
    /\ UNCHANGED <<amqpVars, connected, wconn, backoff>>

\* Mutated form: the back-off has no cap.
BackoffElapsedUncapped ==
    /\ Goto("wait", "loop")
    /\ backoff' = 2 * backoff
    /\ UNCHANGED <<amqpVars, connected, wconn>>

\* The back-off timer fires; the next back-off is twice as long, up to the cap.
BackoffElapsed ==
    /\ Goto("wait", "loop")
    /\ backoff' = IF 2 * backoff > MaxBackoff THEN MaxBackoff ELSE 2 * backoff
    /\ UNCHANGED <<amqpVars, connected, wconn>>

-----------------------------------------------------------------------------
(* Stop                                                                    *)

\* Mutated form: Stop does not return early when it has run before.
StopLockAgain(s) ==
    /\ spc[s] = "idle"
    /\ connected' = FALSE
    /\ stopped' = TRUE
    /\ spc' = [spc EXCEPT ![s] = "check"]
    /\ UNCHANGED <<amqpVars, stopClosed, reconnect, connNotify, wpc, wconn, backoff, fpc, crashed>>

\* The section under the mutex.
StopLock(s) ==
    /\ spc[s] = "idle"
    /\ connected' = FALSE
    /\ stopped' = TRUE
    /\ spc' = IF stopped THEN spc ELSE [spc EXCEPT ![s] = "check"]
    /\ UNCHANGED <<amqpVars, stopClosed, reconnect, connNotify, wpc, wconn, backoff, fpc, crashed>>

\* The select on stopChan: already closed, or about to be closed.
StopCheck(s) ==
    /\ spc[s] = "check"
    /\ spc' = [spc EXCEPT ![s] = IF stopClosed THEN "idle" ELSE "close"]
    /\ UNCHANGED <<amqpVars, connected, stopped, stopClosed, reconnect, connNotify, wpc, wconn, backoff, fpc, crashed>>

\* close(stopChan) panics on a closed channel.
StopClose(s) ==
    /\ spc[s] = "close"
    /\ spc' = [spc EXCEPT ![s] = "idle"]
    /\ stopClosed' = TRUE
    /\ crashed' = IF stopClosed THEN "closeOfClosed" ELSE crashed
    /\ UNCHANGED <<amqpVars, connected, stopped, reconnect, connNotify, wpc, wconn, backoff, fpc>>

-----------------------------------------------------------------------------
(* ForceReconnect                                                          *)

\* With no callback registered the flag ends up set; otherwise it is cleared
\* and the callback is called.
ForceBegin(f) ==
    /\ fpc[f] = "idle"
    /\ connected' = ~reconnect
    /\ fpc' = [fpc EXCEPT ![f] = IF reconnect THEN "call" ELSE @]
    /\ UNCHANGED <<amqpVars, stopped, stopClosed, reconnect, connNotify, wpc, wconn, backoff, spc, crashed>>

\* The callback returns: the flag is set again only if it succeeded.
ForceEnd(f, ok) ==
    /\ fpc[f] = "call"
    /\ connected' = (connected \/ ok)
    /\ fpc' = [fpc EXCEPT ![f] = "idle"]
    /\ UNCHANGED <<amqpVars, stopped, stopClosed, reconnect, connNotify, wpc, wconn, backoff, spc, crashed>>

-----------------------------------------------------------------------------
(* The specification                                                       *)

WatcherStep ==
    \/ WatchNotified \/ WatchShut \/ WatchStopped \/ MarkDisconnected
    \/ CallReconnect \/ (\E c \in Conns : ReconnectOk(c)) \/ Rewatch
    \/ ReconnectFail \/ BackoffElapsed

StopStep(s) == StopCheck(s) \/ StopClose(s)

ForceReturn(f) == \E ok \in BOOLEAN : ForceEnd(f, ok)

\* External: the library, the broker and the rest of the process.  Only the
\* client's shutdown closes connections, and it stops the manager first.
Environment ==
    \/ \E c \in Conns :
         /\ \/ DialConfig(c) \/ BrokerDrop(c) \/ (stopped /\ CloseConn(c))
         /\ UNCHANGED mgrVars
    \/ /\ crashed' \in {"nilConn", "waitGroup"}
       /\ UNCHANGED <<amqpVars, connected, stopped, stopClosed, reconnect,
                      connNotify, wpc, wconn, backoff, fpc, spc>>

CMNext ==
    /\ crashed = "no"
    /\ \/ \E c \in Conns : Wire(c)
       \/ Start
       \/ WatcherStep
       \/ \E s \in Stoppers : StopLock(s) \/ StopStep(s)
       \/ \E f \in Forcers : ForceBegin(f) \/ ForceReturn(f)
       \/ Environment

\* Goroutines that can run do run: the watcher, a Stop that has begun, and a
\* callback that is running (its dial has a timeout).  Nothing obliges the
\* broker to drop a connection or a caller to call.
CMFairness ==
    /\ WF_cmVars(crashed = "no" /\ WatcherStep)
    /\ \A s \in Stoppers : WF_cmVars(crashed = "no" /\ StopStep(s))
    /\ \A f \in Forcers : WF_cmVars(crashed = "no" /\ ForceReturn(f))

CMSafety == CMInit /\ [][CMNext]_cmVars
CMSpec == CMSafety /\ CMFairness

-----------------------------------------------------------------------------
(* Properties                                                              *)

\* However many goroutines call Stop at once, stopChan is closed once: the
\* stopped flag under the mutex keeps the second caller away from close, and
\* the unsynchronised select on stopChan alone would not.
NoDoubleClose == crashed # "closeOfClosed"

\* The watcher is in its reconnect loop only for a connection that was lost:
\* an end without an error (the client's own Close) never makes it dial.
ReconnectsOnlyAfterLoss ==
    wpc \in {"down", "loop", "call", "wait"} => connState[wconn] = "lost"

\* While the watcher is working on an outage, IsConnected reports it, unless
\* a ForceReconnect caller writes the same flag.
OutageReported ==
    Forcers = {} /\ wpc \in {"loop", "call", "wait"} => ~connected

\* Once stopChan is closed the watcher goroutine ends, whether it waits for a
\* disconnect, sleeps in the back-off or is inside the callback.
StopEndsWatcher == stopClosed ~> (wpc \in {"none", "exit"} \/ crashed # "no")

=============================================================================
