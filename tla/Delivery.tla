------------------------------ MODULE Delivery ------------------------------
(***************************************************************************)
(* Messages: publishToChannel, the dispatch goroutines of                  *)
(* startDispatchLoop with dispatchDelivery, and the broker between them,   *)
(* while connections are lost, replaced and shut down.                     *)
(*                                                                         *)
(* Client decides when connections are dialled and dispatch goroutines are *)
(* started; here that may happen at any time a connection is open, which   *)
(* includes the several goroutines a failed or a forced rebuild leaves     *)
(* behind.  A dispatch goroutine owns one AMQP channel, so both are one    *)
(* element of Chans.                                                       *)
(***************************************************************************)
EXTENDS AmqpConnection, Naturals, Sequences, FiniteSets

CONSTANTS Msgs,      \* the messages
          Own,       \* those the plugin publishes; the others are on the queue
          NoMsg,     \* no message
          Chans,     \* dispatch goroutines with their channels, each started once
          NoChan,    \* no channel
          Prefetch   \* the consumer's prefetch_count

ASSUME DeliveryAssumption ==
    /\ Own \subseteq Msgs
    /\ NoMsg \notin Msgs
    /\ NoChan \notin Chans
    /\ Prefetch \in Nat \ {0}

VARIABLES connection,  \* r.connection
          autoAck,     \* the consumer's auto_ack
          closing,     \* closeChan is closed
          teardown,    \* cleanup: "no", "waited" (for subscriptionWG) or "done"
          \* publishing
          ppc,         \* the PublishMessage call of a message
          pconn,       \* the connection of the channel it has read, until the message
                       \* has arrived or the call has failed
          \* dispatch goroutines
          chan,        \* the channel: "none", "open" or "closed"
          chanConn,    \* the connection it is open on
          lpc,         \* control state of the goroutine
          cur,         \* local: the delivery being handled
          deliveries,  \* what the library holds for the goroutine
          \* the broker
          place,       \* "new", "ready", "unacked", "acked" or "dead"
          holder,      \* the channel an unacked message was delivered on
          frames,      \* acks and nacks the broker has not yet seen
          \* history
          calls,       \* how often the handler has been called
          verdicts     \* what it has returned

pubVars == <<ppc, pconn>>
loopVars == <<lpc, cur>>
brokerVars == <<place, holder, frames>>
histVars == <<calls, verdicts>>
sysVars == <<connection, closing, teardown>>
vars == <<amqpVars, autoAck, sysVars, pubVars, chan, chanConn, loopVars, deliveries,
          brokerVars, histVars>>

Frame == [chan : Chans, msg : Msgs, kind : {"ack", "nack"}]

DeliveryTypeOK ==
    /\ AmqpTypeOK
    /\ connection \in Conns \cup {NoConn}
    /\ autoAck \in BOOLEAN
    /\ closing \in BOOLEAN
    /\ teardown \in {"no", "waited", "done"}
    /\ ppc \in [Own -> {"idle", "publish", "sent", "failed"}]
    /\ pconn \in [Own -> Conns \cup {NoConn}]
    /\ chan \in [Chans -> {"none", "open", "closed"}]
    /\ chanConn \in [Chans -> Conns \cup {NoConn}]
    /\ lpc \in [Chans -> {"none", "select", "handling", "ended"}]
    /\ cur \in [Chans -> Msgs \cup {NoMsg}]
    /\ \A ch \in Chans : lpc[ch] = "handling" => cur[ch] \in Msgs
    /\ deliveries \in [Chans -> Seq(Msgs)]
    /\ place \in [Msgs -> {"new", "ready", "unacked", "acked", "dead"}]
    /\ holder \in [Msgs -> Chans \cup {NoChan}]
    /\ frames \in SUBSET Frame
    /\ calls \in [Msgs -> Nat]
    /\ verdicts \in [Msgs -> SUBSET {"ok", "err"}]

Init ==
    /\ AmqpInit
    /\ connection = NoConn
    /\ autoAck \in BOOLEAN
    /\ closing = FALSE
    /\ teardown = "no"
    /\ ppc = [m \in Own |-> "idle"]
    /\ pconn = [m \in Own |-> NoConn]
    /\ chan = [ch \in Chans |-> "none"]
    /\ chanConn = [ch \in Chans |-> NoConn]
    /\ lpc = [ch \in Chans |-> "none"]
    /\ cur = [ch \in Chans |-> NoMsg]
    /\ deliveries = [ch \in Chans |-> <<>>]
    /\ place = [m \in Msgs |-> IF m \in Own THEN "new" ELSE "ready"]
    /\ holder = [m \in Msgs |-> NoChan]
    /\ frames = {}
    /\ calls = [m \in Msgs |-> 0]
    /\ verdicts = [m \in Msgs |-> {}]

\* Process ch of the dispatch goroutines moves on.
Goto(ch, from, to) ==
    /\ lpc[ch] = from
    /\ lpc' = [lpc EXCEPT ![ch] = to]

-----------------------------------------------------------------------------
(* Connections                                                             *)

\* connect() or the reconnect callback dials c and installs it.
Connect(c) ==
    /\ c \in Fresh({x \in Conns : connState[x] = "none"})
    /\ DialConfig(c)
    /\ connection' = c
    /\ UNCHANGED <<autoAck, closing, teardown, pubVars, chan, chanConn, loopVars,
                   deliveries, brokerVars, histVars>>

\* The channels in S end: the broker puts what was delivered on them and not
\* settled back on the queue, and never sees the frames still under way.
ChannelsEnd(S) ==
    LET back == {m \in Msgs : holder[m] \in S}
    IN /\ chan' = [ch \in Chans |-> IF ch \in S THEN "closed" ELSE chan[ch]]
       /\ chanConn' = [ch \in Chans |-> IF ch \in S THEN NoConn ELSE chanConn[ch]]
       /\ place' = [m \in Msgs |-> IF m \in back THEN "ready" ELSE place[m]]
       /\ holder' = [m \in Msgs |-> IF m \in back THEN NoChan ELSE holder[m]]
       /\ frames' = {f \in frames : f.chan \notin S}

OpenOn(c) == {ch \in Chans : chan[ch] = "open" /\ chanConn[ch] = c}

\* External: the broker or the network ends connection c.
Drop(c) ==
    /\ BrokerDrop(c)
    /\ ChannelsEnd(OpenOn(c))
    /\ UNCHANGED <<autoAck, sysVars, pubVars, loopVars, deliveries, histVars>>

\* External: the broker closes one channel.
Revoke(ch) ==
    /\ chan[ch] = "open"
    /\ ChannelsEnd({ch})
    /\ UNCHANGED <<amqpVars, autoAck, sysVars, pubVars, loopVars, deliveries,
                   histVars>>

-----------------------------------------------------------------------------
(* Publishing                                                              *)

\* PublishMessage and PublishMessageWith take a channel out of the map.  It may
\* be one of an older connection, if a rebuild has not yet replaced it.
PublishMessage(m, c) ==
    /\ ppc[m] = "idle"
    /\ connState[c] # "none"
    /\ ppc' = [ppc EXCEPT ![m] = "publish"]
    /\ pconn' = [pconn EXCEPT ![m] = c]
    /\ UNCHANGED <<amqpVars, autoAck, sysVars, chan, chanConn, loopVars, deliveries,
                   brokerVars, histVars>>

\* No channel in the map, an exchange that does not validate or an empty body:
\* the call returns an error.
PublishRefused(m) ==
    /\ ppc[m] \in {"idle", "publish"}
    /\ ppc' = [ppc EXCEPT ![m] = "failed"]
    /\ pconn' = [pconn EXCEPT ![m] = NoConn]
    /\ UNCHANGED <<amqpVars, autoAck, sysVars, chan, chanConn, loopVars, deliveries,
                   brokerVars, histVars>>

\* Mutated form: the error of PublishWithContext is not returned.
PublishToChannelIgnoresError(m) ==
    /\ ppc[m] = "publish"
    /\ ppc' = [ppc EXCEPT ![m] = "sent"]
    /\ UNCHANGED <<amqpVars, autoAck, sysVars, pconn, chan, chanConn, loopVars, deliveries,
                   brokerVars, histVars>>

\* publishToChannel: PublishWithContext writes to the connection, or reports that
\* it has ended or that cleanup has closed the channel.  The broker's confirmation
\* is not waited for.
PublishToChannel(m) ==
    /\ ppc[m] = "publish"
    /\ \/ /\ IsOpen(pconn[m])
          /\ ppc' = [ppc EXCEPT ![m] = "sent"]
          /\ UNCHANGED pconn
       \/ /\ ~IsOpen(pconn[m]) \/ teardown # "no"
          /\ ppc' = [ppc EXCEPT ![m] = "failed"]
          /\ pconn' = [pconn EXCEPT ![m] = NoConn]
    /\ UNCHANGED <<amqpVars, autoAck, sysVars, chan, chanConn, loopVars, deliveries,
                   brokerVars, histVars>>

\* External: the message reaches the broker and is routed to the queue.
BrokerEnqueues(m) ==
    /\ ppc[m] = "sent" /\ place[m] = "new"
    /\ IsOpen(pconn[m])
    /\ place' = [place EXCEPT ![m] = "ready"]
    /\ pconn' = [pconn EXCEPT ![m] = NoConn]
    /\ UNCHANGED <<amqpVars, autoAck, sysVars, ppc, chan, chanConn, loopVars, deliveries,
                   holder, frames, histVars>>

-----------------------------------------------------------------------------
(* Dispatch goroutines                                                     *)

\* startDispatchLoop opens a channel on the connection it has read, which may have
\* been replaced since, sets the prefetch count, consumes and starts the goroutine.
StartDispatchLoop(ch) ==
    /\ ch \in Fresh({x \in Chans : lpc[x] = "none"})
    /\ Goto(ch, "none", "select")
    /\ chan' = [chan EXCEPT ![ch] = "open"]
    /\ \E c \in Conns : IsOpen(c) /\ chanConn' = [chanConn EXCEPT ![ch] = c]
    /\ UNCHANGED <<amqpVars, autoAck, sysVars, pubVars, cur, deliveries,
                   brokerVars, histVars>>

Held(ch) == {m \in Msgs : holder[m] = ch}

\* External: the broker delivers a message.  With auto_ack it counts as acked at
\* once; otherwise the prefetch count bounds what the channel holds.
BrokerDelivers(ch, m) ==
    /\ chan[ch] = "open"
    /\ place[m] = "ready"
    /\ \/ /\ autoAck
          /\ place' = [place EXCEPT ![m] = "acked"]
          /\ UNCHANGED holder
       \/ /\ ~autoAck /\ Cardinality(Held(ch)) < Prefetch
          /\ place' = [place EXCEPT ![m] = "unacked"]
          /\ holder' = [holder EXCEPT ![m] = ch]
    /\ deliveries' = [deliveries EXCEPT ![ch] = Append(@, m)]
    /\ UNCHANGED <<amqpVars, autoAck, sysVars, pubVars, chan, chanConn, loopVars, frames, histVars>>

\* Mutated form: the goroutine does not look whether the deliveries are closed and
\* calls the handler with what a closed channel yields.
ReceiveUnchecked(ch) ==
    /\ Goto(ch, "select", "handling")
    /\ deliveries[ch] # <<>> \/ chan[ch] = "closed"
    /\ cur' = [cur EXCEPT ![ch] = IF deliveries[ch] = <<>> THEN NoMsg ELSE Head(deliveries[ch])]
    /\ deliveries' = [deliveries EXCEPT ![ch] = IF @ = <<>> THEN @ ELSE Tail(@)]
    /\ UNCHANGED <<amqpVars, autoAck, sysVars, pubVars, chan, chanConn, brokerVars, histVars>>

\* The select takes a delivery and dispatchDelivery calls the handler.  A channel
\* that has ended may still hand over what the library had buffered.
Receive(ch) ==
    /\ Goto(ch, "select", "handling")
    /\ deliveries[ch] # <<>>
    /\ cur' = [cur EXCEPT ![ch] = Head(deliveries[ch])]
    /\ deliveries' = [deliveries EXCEPT ![ch] = Tail(@)]
    /\ calls' = [calls EXCEPT ![Head(deliveries[ch])] = @ + 1]
    /\ UNCHANGED <<amqpVars, autoAck, sysVars, pubVars, chan, chanConn, brokerVars,
                   verdicts>>

\* What dispatchDelivery does when the handler has given verdict v, if it writes
\* the frames in F.
DispatchWith(ch, v, F) ==
    /\ Goto(ch, "handling", "select")
    /\ verdicts' = [verdicts EXCEPT ![cur[ch]] = @ \cup {v}]
    /\ frames' = frames \cup F
    /\ cur' = [cur EXCEPT ![ch] = NoMsg]
    /\ UNCHANGED <<amqpVars, autoAck, sysVars, pubVars, chan, chanConn, deliveries, place,
                   holder, calls>>

\* Mutated form: the message is acked whatever the handler returned.
DispatchDeliveryAcksAll(ch, v) ==
    DispatchWith(ch, v, IF autoAck \/ chan[ch] # "open" THEN {}
                        ELSE {[chan |-> ch, msg |-> cur[ch], kind |-> "ack"]})

\* Mutated form: auto_ack is not looked at.
DispatchDeliveryAlways(ch, v) ==
    DispatchWith(ch, v, IF chan[ch] # "open" THEN {}
                        ELSE {[chan |-> ch, msg |-> cur[ch],
                               kind |-> IF v = "ok" THEN "ack" ELSE "nack"]})

\* Mutated form: a message whose handler failed is not nacked.
DispatchDeliveryNoNack(ch, v) ==
    DispatchWith(ch, v, IF autoAck \/ chan[ch] # "open" \/ v # "ok" THEN {}
                        ELSE {[chan |-> ch, msg |-> cur[ch], kind |-> "ack"]})

\* The rest of dispatchDelivery: the handler returns nil, or returns an error or
\* panics, and the message is settled accordingly.  On a channel that has ended
\* Ack and Nack fail, which is only logged.
DispatchDelivery(ch, v) ==
    DispatchWith(ch, v, IF autoAck \/ chan[ch] # "open" THEN {}
                        ELSE {[chan |-> ch, msg |-> cur[ch],
                               kind |-> IF v = "ok" THEN "ack" ELSE "nack"]})

\* External: the broker reads an ack or a nack.  A nack without requeue goes to
\* the dead-letter exchange of the queue, or nowhere.
BrokerSettles(f) ==
    /\ f \in frames
    /\ frames' = frames \ {f}
    /\ place' = [place EXCEPT ![f.msg] = IF f.kind = "ack" THEN "acked" ELSE "dead"]
    /\ holder' = [holder EXCEPT ![f.msg] = NoChan]
    /\ UNCHANGED <<amqpVars, autoAck, sysVars, pubVars, chan, chanConn, loopVars, deliveries, histVars>>

\* Mutated form: the goroutine returns without closing its channel.
EndLoopLeaksChannel(ch) ==
    /\ Goto(ch, "select", "ended")
    /\ deliveries' = [deliveries EXCEPT ![ch] = <<>>]
    /\ UNCHANGED <<amqpVars, autoAck, sysVars, pubVars, chan, chanConn, cur, brokerVars, histVars>>

\* The goroutine returns; its deferred ch.Close() waits for the broker's answer,
\* which comes after all that was sent before.
EndLoop(ch) ==
    /\ Goto(ch, "select", "ended")
    /\ deliveries' = [deliveries EXCEPT ![ch] = <<>>]
    /\ \/ /\ chan[ch] = "open"
          /\ \A f \in frames : f.chan # ch
          /\ ChannelsEnd({ch})
       \/ /\ chan[ch] = "closed"
          /\ UNCHANGED <<chan, chanConn, brokerVars>>
    /\ UNCHANGED <<amqpVars, autoAck, sysVars, pubVars, cur, histVars>>

\* The select finds closeChan closed or the deliveries closed.
LoopReturns(ch) ==
    /\ closing \/ chan[ch] = "closed"
    /\ EndLoop(ch)

\* The application has cancelled the context it gave to Subscribe.
LoopCancelled(ch) == EndLoop(ch)

-----------------------------------------------------------------------------
(* Cleanup                                                                 *)

CleanupSignal ==
    /\ connection # NoConn
    /\ ~closing
    /\ closing' = TRUE
    /\ UNCHANGED <<amqpVars, autoAck, connection, teardown, pubVars, chan, chanConn,
                   loopVars, deliveries, brokerVars, histVars>>

Active == {ch \in Chans : lpc[ch] \notin {"none", "ended"}}

\* subscriptionWG.Wait().
CleanupWait ==
    /\ closing /\ teardown = "no"
    /\ Active = {}
    /\ teardown' = "waited"
    /\ UNCHANGED <<amqpVars, autoAck, connection, closing, pubVars, chan, chanConn,
                   loopVars, deliveries, brokerVars, histVars>>

\* Everything the client has written to connection c has been read.
Flushed(c) ==
    /\ \A m \in Own : ppc[m] = "sent" /\ pconn[m] = c => place[m] # "new"
    /\ \A f \in frames : chanConn[f.chan] # c

\* The connection is closed, if it has not ended by itself; Close returns once
\* the broker has answered, which it does after all it was sent before.
CleanupConnection ==
    /\ teardown = "waited"
    /\ teardown' = "done"
    /\ \/ /\ IsOpen(connection) /\ Flushed(connection)
          /\ CloseConn(connection)
          /\ ChannelsEnd(OpenOn(connection))
          /\ connection' = NoConn
       \/ /\ ~IsOpen(connection)
          /\ UNCHANGED <<amqpVars, chan, chanConn, brokerVars, connection>>
    /\ UNCHANGED <<autoAck, closing, pubVars, loopVars, deliveries,
                   histVars>>

-----------------------------------------------------------------------------
(* The specification                                                       *)

LoopRuns(ch) == Receive(ch) \/ \E v \in {"ok", "err"} : DispatchDelivery(ch, v)

Broker ==
    \/ \E m \in Own : BrokerEnqueues(m)
    \/ \E m \in Msgs, ch \in Chans : BrokerDelivers(ch, m)
    \/ \E f \in frames : BrokerSettles(f)

Outage == (\E c \in Conns : Drop(c)) \/ (\E ch \in Chans : Revoke(ch))

Cleanup == CleanupWait \/ CleanupConnection

Next ==
    \/ \E m \in Own : \/ (\E c \in Conns : PublishMessage(m, c))
                      \/ PublishRefused(m) \/ PublishToChannel(m)
    \/ \E ch \in Chans : \/ StartDispatchLoop(ch) \/ LoopRuns(ch)
                         \/ LoopReturns(ch) \/ LoopCancelled(ch)
    \/ Broker \/ Outage
    \/ (\E c \in Conns : Connect(c))
    \/ CleanupSignal \/ Cleanup

\* The broker works, goroutines that can run do run and handlers return.  The
\* select chooses at random among its ready cases, so neither a closed channel
\* nor a delivery is passed over for ever.
Fairness ==
    /\ WF_vars(Broker)
    /\ \A ch \in Chans : WF_vars(LoopRuns(ch)) /\ SF_vars(LoopReturns(ch))
    /\ WF_vars(Cleanup)

Safety == Init /\ [][Next]_vars
Spec == Safety /\ Fairness

-----------------------------------------------------------------------------
(* Properties                                                              *)

\* The queue as its users see it: a message that was delivered and not settled
\* is still on the queue.
StatusOf(p) ==
    IF p \in {"ready", "unacked"} THEN "pending" ELSE IF p = "acked" THEN "done" ELSE p

Contract == INSTANCE DeliveryContract WITH status <- [m \in Msgs |-> StatusOf(place[m])]

\* Dispatch goroutines, rebuilds, lost connections and shutdown together keep the
\* promise of MessageHandler: without auto_ack no message leaves the queue except
\* by an ack after the handler returned nil, or a nack after it failed; with
\* auto_ack no message is handled twice.
ImplementsContract == Contract!Spec

\* dispatchDelivery never acks or nacks a delivery its channel does not hold (one
\* that was redelivered elsewhere, settled before, or acked by auto_ack): the
\* broker would close the channel for an unknown delivery tag.
SettlesOnlyHeld ==
    \A f \in frames : /\ holder[f.msg] = f.chan
                      /\ \A g \in frames : g.msg = f.msg => g = f

\* A message whose PublishMessage returned nil has reached the broker or is on
\* its way there, unless its connection was lost: neither a rebuild that replaces
\* the channel nor cleanup loses one.  The confirmations that would tell the
\* caller of the loss are switched on by createProducer and not read.
PublishedUnlessLost ==
    \A m \in Own : ppc[m] = "sent" /\ place[m] = "new" =>
        IsOpen(pconn[m]) \/ connState[pconn[m]] = "lost"

\* A dispatch goroutine is running on an open channel.
Serving == \E ch \in Chans : chan[ch] = "open" /\ lpc[ch] \in {"select", "handling"}

\* If the queue is served from some time on, every message on it is settled in the
\* end: no failing handler and no lost ack leaves a message, or the prefetch
\* window, blocked.
QueueDrains ==
    (<>[]Serving) => <>[](\A m \in Msgs : place[m] \notin {"ready", "unacked"})

\* After closeChan is closed every message that was delivered and not settled
\* goes back to the queue for good, also from goroutines that a rebuild in flight
\* starts late and from connections that nobody closes.
ShutdownReleases == (<>[]closing) => <>[](\A m \in Msgs : place[m] # "unacked")

=============================================================================
