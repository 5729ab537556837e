--------------------------- MODULE DeliveryProofs ---------------------------
(***************************************************************************)
(* Safety of Delivery for any sets of messages, channels and connections   *)
(* and any prefetch count, and that it implements DeliveryContract.        *)
(***************************************************************************)
EXTENDS Delivery, TLAPS

\* The ack or nack of message m is not under way.
NoFrame(m) == \A f \in frames : f.msg # m

\* A message is held by an open channel, and a frame is about a message its
\* channel holds, says what the handler said, and is the only one about it.
HoldInv ==
    /\ \A m \in Msgs : holder[m] # NoChan =>
          place[m] = "unacked" /\ chan[holder[m]] = "open" /\ ~autoAck
    /\ \A f \in frames : (f.kind = "ack" => "ok" \in verdicts[f.msg])
                         /\ (f.kind = "nack" => "err" \in verdicts[f.msg])
    /\ SettlesOnlyHeld

\* What an open channel has buffered or is handling it holds, each message once,
\* and has not settled.
OpenOK(ch) ==
    /\ \A i \in 1 .. Len(deliveries[ch]) :
          holder[deliveries[ch][i]] = ch /\ NoFrame(deliveries[ch][i])
    /\ \A i, j \in 1 .. Len(deliveries[ch]) :
          i # j => deliveries[ch][i] # deliveries[ch][j]
    /\ lpc[ch] = "handling" =>
          /\ holder[cur[ch]] = ch /\ NoFrame(cur[ch])
          /\ \A i \in 1 .. Len(deliveries[ch]) : deliveries[ch][i] # cur[ch]

OpenInv == \A ch \in Chans : ~autoAck /\ chan[ch] = "open" => OpenOK(ch)

\* With auto_ack a buffered message is off the queue, not yet handled, and
\* buffered in one place; one that is on the queue was never handled.
AutoOK ==
    /\ \A ch \in Chans : \A i \in 1 .. Len(deliveries[ch]) :
          place[deliveries[ch][i]] = "acked" /\ calls[deliveries[ch][i]] = 0
    /\ \A ch, dh \in Chans :
          \A i \in 1 .. Len(deliveries[ch]), j \in 1 .. Len(deliveries[dh]) :
             deliveries[ch][i] = deliveries[dh][j] => ch = dh /\ i = j
    /\ \A m \in Msgs : place[m] # "acked" => calls[m] = 0

AutoInv == autoAck => AutoOK

\* A goroutine that was not started has no channel; a buffered message has been
\* on the queue, and one being handled has been counted.
LifeInv ==
    /\ \A ch \in Chans : lpc[ch] = "none" => chan[ch] = "none" /\ Len(deliveries[ch]) = 0
    /\ \A ch \in Chans : \A i \in 1 .. Len(deliveries[ch]) : place[deliveries[ch][i]] # "new"
    /\ \A ch \in Chans : lpc[ch] = "handling" => calls[cur[ch]] > 0

\* A publish call that has read a channel has its connection, and so has a message
\* on its way.
SendInv ==
    /\ \A m \in Own : ppc[m] = "publish" => pconn[m] \in Conns
    /\ \A m \in Own : ppc[m] = "sent" /\ place[m] = "new" => pconn[m] \in Conns
    /\ PublishedUnlessLost

DInv == DeliveryTypeOK /\ HoldInv /\ OpenInv /\ AutoInv /\ LifeInv /\ SendInv

-----------------------------------------------------------------------------
(* Steps                                                                   *)

coreVars == <<autoAck, chan, lpc, cur, deliveries, place, holder, frames, calls, verdicts>>

\* The channels in S end, and nothing else happens to a message.
Ends(S) ==
    /\ ChannelsEnd(S)
    /\ UNCHANGED <<autoAck, lpc, cur, deliveries, calls, verdicts>>

OpenChans == {ch \in Chans : chan[ch] = "open"}

\* Publishing, connecting and most of cleanup do not touch a message; an outage
\* and the end of cleanup do so only by ending channels.
LEMMA CoreStep ==
    ASSUME [Next]_vars
    PROVE  \/ UNCHANGED coreVars
           \/ \E ch \in Chans : StartDispatchLoop(ch)
           \/ \E ch \in Chans : Receive(ch)
           \/ \E ch \in Chans, v \in {"ok", "err"} : DispatchDelivery(ch, v)
           \/ \E ch \in Chans : EndLoop(ch)
           \/ \E m \in Own : BrokerEnqueues(m)
           \/ \E m \in Msgs, ch \in Chans : BrokerDelivers(ch, m)
           \/ \E f \in frames : BrokerSettles(f)
           \/ \E S \in SUBSET OpenChans : Ends(S)
<1> USE DEF coreVars, pubVars, loopVars, brokerVars, histVars, sysVars, vars
<1>1. CASE UNCHANGED vars
  BY <1>1
<1>2. ASSUME NEW m \in Own,
             (\E c \in Conns : PublishMessage(m, c)) \/ PublishRefused(m) \/ PublishToChannel(m)
      PROVE  UNCHANGED coreVars
  BY <1>2, Zenon DEF PublishMessage, PublishRefused, PublishToChannel
<1>3. CASE (\E c \in Conns : Connect(c)) \/ CleanupSignal \/ CleanupWait
  BY <1>3, Zenon DEF Connect, CleanupSignal, CleanupWait
<1>4. ASSUME NEW c \in Conns, Drop(c) PROVE \E S \in SUBSET OpenChans : Ends(S)
  <2>1. Ends(OpenOn(c))
    BY <1>4, Zenon DEF Drop, Ends
  <2>2. OpenOn(c) \in SUBSET OpenChans
    BY DEF OpenOn, OpenChans
  <2> QED
    BY <2>1, <2>2
<1>5. ASSUME NEW ch \in Chans, Revoke(ch) PROVE \E S \in SUBSET OpenChans : Ends(S)
  <2>1. Ends({ch})
    BY <1>5, Zenon DEF Revoke, Ends
  <2>2. {ch} \in SUBSET OpenChans
    BY <1>5 DEF Revoke, OpenChans
  <2> QED
    BY <2>1, <2>2
<1>6. CASE CleanupConnection
  <2>1. CASE ChannelsEnd(OpenOn(connection))
    <3>1. Ends(OpenOn(connection))
      BY <1>6, <2>1, Zenon DEF CleanupConnection, Ends
    <3>2. OpenOn(connection) \in SUBSET OpenChans
      BY DEF OpenOn, OpenChans
    <3> QED
      BY <3>1, <3>2
  <2>2. CASE UNCHANGED <<chan, brokerVars>>
    BY <1>6, <2>2, Zenon DEF CleanupConnection
  <2> QED
    BY <1>6, <2>1, <2>2, Zenon DEF CleanupConnection
<1>7. ASSUME NEW ch \in Chans, LoopReturns(ch) \/ LoopCancelled(ch) PROVE EndLoop(ch)
  BY <1>7, Zenon DEF LoopReturns, LoopCancelled
<1> QED
  <2>1. CASE Broker
    BY <2>1, Zenon DEF Broker
  <2>2. CASE Outage
    BY <1>4, <1>5, <2>2, Zenon DEF Outage
  <2>3. ASSUME NEW ch \in Chans, StartDispatchLoop(ch) \/ LoopRuns(ch)
                                 \/ LoopReturns(ch) \/ LoopCancelled(ch)
        PROVE  \/ \E dh \in Chans : StartDispatchLoop(dh)
               \/ \E dh \in Chans : Receive(dh)
               \/ \E dh \in Chans, v \in {"ok", "err"} : DispatchDelivery(dh, v)
               \/ \E dh \in Chans : EndLoop(dh)
    BY <1>7, <2>3, Zenon DEF LoopRuns
  <2> HIDE DEF vars
  <2> QED
    BY <1>1, <1>2, <1>3, <1>6, <2>1, <2>2, <2>3, Zenon DEF Next, Cleanup

\* What the end of channels does to channels, messages and frames.
LEMMA ChannelsEndFacts ==
    ASSUME DeliveryTypeOK, NEW S \in SUBSET Chans, ChannelsEnd(S)
    PROVE  /\ \A ch \in Chans : chan'[ch] = IF ch \in S THEN "closed" ELSE chan[ch]
           /\ \A m \in Msgs : IF holder[m] \in S
                              THEN place'[m] = "ready" /\ holder'[m] = NoChan
                              ELSE place'[m] = place[m] /\ holder'[m] = holder[m]
           /\ frames' \subseteq frames
           /\ \A f \in frames' : f.chan \notin S
BY DEF DeliveryTypeOK, ChannelsEnd

\* A buffer after the library has added a message, and after the goroutine has
\* taken one.
LEMMA AppendFacts ==
    ASSUME NEW q \in Seq(Msgs), NEW m \in Msgs
    PROVE  /\ Len(Append(q, m)) = Len(q) + 1
           /\ \A i \in 1 .. Len(Append(q, m)) :
                 \/ i \in 1 .. Len(q) /\ Append(q, m)[i] = q[i]
                 \/ i = Len(q) + 1 /\ Append(q, m)[i] = m
           /\ \A i \in 1 .. Len(q) : q[i] \in Msgs
<1>1. Len(q) \in Nat /\ Len(Append(q, m)) = Len(q) + 1
  OBVIOUS
<1>2. \A i \in 1 .. Len(q) : q[i] \in Msgs /\ Append(q, m)[i] = q[i]
  OBVIOUS
<1>3. Append(q, m)[Len(q) + 1] = m
  OBVIOUS
<1>4. \A i \in 1 .. Len(q) + 1 : i \in 1 .. Len(q) \/ i = Len(q) + 1
  BY <1>1
<1> QED
  BY <1>1, <1>2, <1>3, <1>4

LEMMA TailFacts ==
    ASSUME NEW q \in Seq(Msgs), q # <<>>
    PROVE  /\ Tail(q) \in Seq(Msgs)
           /\ 1 \in 1 .. Len(q) /\ Head(q) = q[1] /\ q[1] \in Msgs
           /\ Len(Tail(q)) = Len(q) - 1
           /\ \A i \in 1 .. Len(Tail(q)) : i + 1 \in 1 .. Len(q) /\ Tail(q)[i] = q[i + 1]
OBVIOUS

-----------------------------------------------------------------------------
(* Types                                                                   *)

CallerStep ==
    \/ \E m \in Own : \/ (\E c \in Conns : PublishMessage(m, c))
                      \/ PublishRefused(m) \/ PublishToChannel(m)
    \/ \E c \in Conns : Connect(c)
    \/ CleanupSignal \/ Cleanup

MessageStep ==
    \/ \E ch \in Chans : \/ StartDispatchLoop(ch) \/ LoopRuns(ch)
                         \/ LoopReturns(ch) \/ LoopCancelled(ch)
    \/ Broker \/ Outage

\* A publish call, a connection that is dialled and a cleanup keep the types.
LEMMA CallerTypes ==
    ASSUME DeliveryTypeOK, CallerStep PROVE DeliveryTypeOK'
<1> USE ConnAssumption DEF ConnAssumption, DeliveryTypeOK, AmqpTypeOK, amqpVars, pubVars,
        loopVars, brokerVars, histVars, sysVars
<1>1. ASSUME NEW m \in Own,
             (\E c \in Conns : PublishMessage(m, c)) \/ PublishRefused(m) \/ PublishToChannel(m)
      PROVE  DeliveryTypeOK'
  <2>1. ASSUME NEW c \in Conns, PublishMessage(m, c) PROVE DeliveryTypeOK'
    BY <2>1 DEF PublishMessage
  <2>2. CASE PublishRefused(m)
    BY <2>2 DEF PublishRefused
  <2>3. CASE PublishToChannel(m)
    <3>1. ppc' \in [Own -> {"idle", "publish", "sent", "failed"}]
      BY <2>3 DEF PublishToChannel
    <3>2. pconn' = pconn \/ pconn' = [pconn EXCEPT ![m] = NoConn]
      BY <2>3, Zenon DEF PublishToChannel
    <3>3. pconn' \in [Own -> Conns \cup {NoConn}]
      BY <3>2
    <3> QED
      BY <2>3, <3>1, <3>3, Zenon DEF PublishToChannel
  <2> QED
    BY <1>1, <2>1, <2>2, <2>3
<1>2. ASSUME NEW c \in Conns, Connect(c) PROVE DeliveryTypeOK'
  BY <1>2 DEF Connect, DialConfig
<1>3. CASE CleanupSignal
  BY <1>3, Zenon DEF CleanupSignal
<1>5. CASE CleanupWait
  BY <1>5 DEF CleanupWait
<1>4. CASE CleanupConnection
  <2>1. CASE UNCHANGED <<amqpVars, chan, chanConn, brokerVars, connection>>
    BY <1>4, <2>1, Zenon DEF CleanupConnection
  <2>2. CASE /\ IsOpen(connection) /\ CloseConn(connection)
             /\ ChannelsEnd(OpenOn(connection)) /\ connection' = NoConn
    <3>1. /\ AmqpTypeOK'
          /\ chan' \in [Chans -> {"none", "open", "closed"}]
          /\ chanConn' \in [Chans -> Conns \cup {NoConn}]
          /\ place' \in [Msgs -> {"new", "ready", "unacked", "acked", "dead"}]
          /\ holder' \in [Msgs -> Chans \cup {NoChan}]
          /\ frames' \in SUBSET Frame
      BY <2>2 DEF CloseConn, IsOpen, ChannelsEnd
    <3> QED
      BY <1>4, <2>2, <3>1, Zenon DEF CleanupConnection
  <2> QED
    BY <1>4, <2>1, <2>2, Zenon DEF CleanupConnection
<1> QED
  BY <1>1, <1>2, <1>3, <1>4, <1>5, Zenon DEF CallerStep, Cleanup

\* So do the dispatch goroutines, the broker and the outages.
LEMMA MessageTypes ==
    ASSUME DeliveryTypeOK, MessageStep PROVE DeliveryTypeOK'
<1> USE ConnAssumption, DeliveryAssumption
    DEF ConnAssumption, DeliveryAssumption, DeliveryTypeOK, AmqpTypeOK, Frame, amqpVars,
        pubVars, loopVars, brokerVars, histVars, sysVars, Goto
<1>1. ASSUME NEW ch \in Chans, StartDispatchLoop(ch) PROVE DeliveryTypeOK'
  BY <1>1 DEF StartDispatchLoop
<1>2. ASSUME NEW ch \in Chans, Receive(ch) PROVE DeliveryTypeOK'
  <2>1. Head(deliveries[ch]) \in Msgs /\ Tail(deliveries[ch]) \in Seq(Msgs)
    BY <1>2 DEF Receive
  <2> QED
    BY <1>2, <2>1 DEF Receive
<1>3. ASSUME NEW ch \in Chans, NEW v \in {"ok", "err"}, DispatchDelivery(ch, v)
      PROVE  DeliveryTypeOK'
  BY <1>3 DEF DispatchDelivery, DispatchWith
<1>4. ASSUME NEW ch \in Chans, EndLoop(ch) PROVE DeliveryTypeOK'
  BY <1>4 DEF EndLoop, ChannelsEnd
<1>5. ASSUME NEW m \in Own, BrokerEnqueues(m) PROVE DeliveryTypeOK'
  BY <1>5 DEF BrokerEnqueues
<1>6. ASSUME NEW m \in Msgs, NEW ch \in Chans, BrokerDelivers(ch, m) PROVE DeliveryTypeOK'
  <2>1. deliveries' \in [Chans -> Seq(Msgs)]
    BY <1>6 DEF BrokerDelivers
  <2>2. \/ place' = [place EXCEPT ![m] = "acked"] /\ holder' = holder
        \/ /\ place' = [place EXCEPT ![m] = "unacked"]
           /\ holder' = [holder EXCEPT ![m] = ch]
    BY <1>6, Zenon DEF BrokerDelivers
  <2>3. /\ place' \in [Msgs -> {"new", "ready", "unacked", "acked", "dead"}]
        /\ holder' \in [Msgs -> Chans \cup {NoChan}]
    <3>1. CASE place' = [place EXCEPT ![m] = "acked"] /\ holder' = holder
      BY <3>1
    <3>2. CASE /\ place' = [place EXCEPT ![m] = "unacked"]
               /\ holder' = [holder EXCEPT ![m] = ch]
      BY <3>2
    <3> QED
      BY <2>2, <3>1, <3>2, Zenon
  <2> QED
    BY <1>6, <2>1, <2>3 DEF BrokerDelivers
<1>7. ASSUME NEW f \in frames, BrokerSettles(f) PROVE DeliveryTypeOK'
  BY <1>7 DEF BrokerSettles
<1>8. ASSUME NEW c \in Conns, Drop(c) PROVE DeliveryTypeOK'
  BY <1>8 DEF Drop, BrokerDrop, ChannelsEnd
<1>9. ASSUME NEW ch \in Chans, Revoke(ch) PROVE DeliveryTypeOK'
  BY <1>9 DEF Revoke, ChannelsEnd
<1> HIDE DEF DeliveryTypeOK
<1> QED
  BY <1>1, <1>2, <1>3, <1>4, <1>5, <1>6, <1>7, <1>8, <1>9, Zenon
     DEF MessageStep, LoopRuns, LoopReturns, LoopCancelled, Broker, Outage

\* Every step keeps the types.
LEMMA TypePreserved == DeliveryTypeOK /\ [Next]_vars => DeliveryTypeOK'
<1> SUFFICES ASSUME DeliveryTypeOK, [Next]_vars PROVE DeliveryTypeOK'
  OBVIOUS
<1>1. CASE UNCHANGED vars
  BY <1>1 DEF DeliveryTypeOK, AmqpTypeOK, vars, amqpVars, pubVars, loopVars, brokerVars,
              histVars, sysVars
<1>2. CASE Next
  BY <1>2, CallerTypes, MessageTypes, Zenon DEF Next, CallerStep, MessageStep
<1> QED
  BY <1>1, <1>2

-----------------------------------------------------------------------------
(* Messages that channels hold                                             *)

\* Frames are written by the goroutine that handles the message, and go with the
\* channel.
LEMMA HoldPreserved ==
    DeliveryTypeOK /\ HoldInv /\ OpenInv /\ [Next]_vars => HoldInv'
<1> USE DeliveryAssumption
    DEF DeliveryAssumption, HoldInv, SettlesOnlyHeld, DeliveryTypeOK, Frame,
        pubVars, loopVars, brokerVars, histVars, sysVars
<1> SUFFICES ASSUME DeliveryTypeOK, HoldInv, OpenInv, [Next]_vars PROVE HoldInv'
  OBVIOUS
<1>1. CASE UNCHANGED coreVars
  BY <1>1 DEF coreVars
<1>2. ASSUME NEW ch \in Chans, StartDispatchLoop(ch) PROVE HoldInv'
  BY <1>2 DEF StartDispatchLoop
<1>3. ASSUME NEW ch \in Chans, Receive(ch) PROVE HoldInv'
  BY <1>3 DEF Receive
<1>4. ASSUME NEW ch \in Chans, NEW v \in {"ok", "err"}, DispatchDelivery(ch, v) PROVE HoldInv'
  <2>1. /\ lpc[ch] = "handling"
        /\ UNCHANGED <<autoAck, chan, place, holder>>
        /\ verdicts' = [verdicts EXCEPT ![cur[ch]] = @ \cup {v}]
        /\ \/ frames' = frames
           \/ /\ frames' = frames \cup {[chan |-> ch, msg |-> cur[ch],
                                         kind |-> IF v = "ok" THEN "ack" ELSE "nack"]}
              /\ holder[cur[ch]] = ch /\ NoFrame(cur[ch])
    BY <1>4 DEF DispatchDelivery, DispatchWith, Goto, OpenInv, OpenOK
  <2>2. CASE frames' = frames
    BY <2>1, <2>2
  <2>3. CASE /\ frames' = frames \cup {[chan |-> ch, msg |-> cur[ch],
                                        kind |-> IF v = "ok" THEN "ack" ELSE "nack"]}
             /\ holder[cur[ch]] = ch /\ NoFrame(cur[ch])
    BY <2>1, <2>3 DEF NoFrame
  <2> QED
    BY <2>1, <2>2, <2>3
<1>5. ASSUME NEW ch \in Chans, EndLoop(ch) PROVE HoldInv'
  <2>1. CASE ChannelsEnd({ch})
    BY <1>5, <2>1 DEF EndLoop, ChannelsEnd
  <2>2. CASE UNCHANGED <<chan, brokerVars>>
    BY <1>5, <2>2 DEF EndLoop
  <2> QED
    BY <1>5, <2>1, <2>2, Zenon DEF EndLoop
<1>6. ASSUME NEW m \in Own, BrokerEnqueues(m) PROVE HoldInv'
  BY <1>6 DEF BrokerEnqueues
<1>7. ASSUME NEW m \in Msgs, NEW ch \in Chans, BrokerDelivers(ch, m) PROVE HoldInv'
  <2>1. chan[ch] = "open" /\ place[m] = "ready" /\ UNCHANGED <<autoAck, chan, frames, verdicts>>
    BY <1>7, Zenon DEF BrokerDelivers
  <2>2. CASE place' = [place EXCEPT ![m] = "acked"] /\ holder' = holder
    BY <2>1, <2>2
  <2>3. CASE /\ ~autoAck
             /\ place' = [place EXCEPT ![m] = "unacked"]
             /\ holder' = [holder EXCEPT ![m] = ch]
    <3>1. ASSUME NEW g \in frames PROVE g.msg # m
      <4>1. g.chan \in Chans /\ holder[g.msg] = g.chan
        OBVIOUS
      <4>2. holder[m] = NoChan
        BY <2>1
      <4> QED
        BY <4>1, <4>2
    <3>2. \A x \in Msgs : holder'[x] # NoChan =>
             place'[x] = "unacked" /\ chan'[holder'[x]] = "open" /\ ~autoAck'
      BY <2>1, <2>3
    <3>3. \A g \in frames : g.chan \in Chans /\ g.msg \in Msgs
      OBVIOUS
    <3>4. \A g \in frames : holder'[g.msg] = g.chan
      BY <2>3, <3>1, <3>3
    <3> QED
      BY <2>1, <3>2, <3>4
  <2> QED
    BY <1>7, <2>2, <2>3, Zenon DEF BrokerDelivers
<1>8. ASSUME NEW f \in frames, BrokerSettles(f) PROVE HoldInv'
  BY <1>8 DEF BrokerSettles
<1>9. ASSUME NEW S \in SUBSET OpenChans, Ends(S) PROVE HoldInv'
  BY <1>9 DEF Ends, ChannelsEnd, OpenChans
<1> HIDE DEF HoldInv, DeliveryTypeOK
<1> QED
  BY CoreStep, <1>1, <1>2, <1>3, <1>4, <1>5, <1>6, <1>7, <1>8, <1>9, Zenon


\* A channel that keeps its buffer, its goroutine's place and what it holds.
LEMMA OpenKept ==
    ASSUME DeliveryTypeOK, NEW x \in Chans, OpenOK(x),
           deliveries'[x] = deliveries[x], lpc'[x] = lpc[x], cur'[x] = cur[x],
           \A m \in Msgs : holder[m] = x /\ NoFrame(m) => holder'[m] = x /\ NoFrame(m)'
    PROVE  OpenOK(x)'
<1>1. \A i \in 1 .. Len(deliveries[x]) : deliveries[x][i] \in Msgs
  BY DEF DeliveryTypeOK
<1>2. lpc[x] = "handling" => cur[x] \in Msgs
  BY DEF DeliveryTypeOK
<1> HIDE DEF NoFrame
<1> QED
  BY <1>1, <1>2 DEF OpenOK

\* A step of one channel leaves the messages of the others alone.
LEMMA OpenPreserved ==
    DeliveryTypeOK /\ HoldInv /\ OpenInv /\ LifeInv /\ [Next]_vars => OpenInv'
<1> USE DEF pubVars, loopVars, brokerVars, histVars, sysVars
<1> SUFFICES ASSUME DeliveryTypeOK, HoldInv, OpenInv, LifeInv, [Next]_vars,
                    NEW x \in Chans, ~autoAck', chan'[x] = "open"
             PROVE  OpenOK(x)'
  BY DEF OpenInv
<1>f. \A g \in frames : /\ g.chan \in Chans /\ g.msg \in Msgs /\ holder[g.msg] = g.chan
                       /\ place[g.msg] = "unacked"
  BY DeliveryAssumption DEF DeliveryAssumption, DeliveryTypeOK, Frame, HoldInv, SettlesOnlyHeld
<1>1. CASE UNCHANGED coreVars
  <2>1. OpenOK(x)
    BY <1>1 DEF coreVars, OpenInv
  <2> QED
    BY <1>1, <2>1, OpenKept DEF coreVars, NoFrame
<1>2. ASSUME NEW ch \in Chans, StartDispatchLoop(ch) PROVE OpenOK(x)'
  <2>1. CASE x = ch
    BY <1>2, <2>1 DEF StartDispatchLoop, Goto, LifeInv, DeliveryTypeOK, OpenOK
  <2>2. CASE x # ch
    <3>1. OpenOK(x)
      BY <1>2, <2>2 DEF StartDispatchLoop, DeliveryTypeOK, OpenInv
    <3> QED
      BY <1>2, <2>2, <3>1, OpenKept DEF StartDispatchLoop, Goto, DeliveryTypeOK, NoFrame
  <2> QED
    BY <2>1, <2>2
<1>3. ASSUME NEW ch \in Chans, Receive(ch) PROVE OpenOK(x)'
  <2>0. OpenOK(x)
    BY <1>3 DEF Receive, OpenInv
  <2>1. CASE x = ch
    <3> DEFINE q == deliveries[ch]
    <3>1. /\ q \in Seq(Msgs) /\ q # <<>>
          /\ deliveries'[ch] = Tail(q) /\ cur'[ch] = Head(q)
          /\ holder' = holder /\ frames' = frames
      BY <1>3 DEF Receive, DeliveryTypeOK
    <3>2. /\ 1 \in 1 .. Len(q) /\ Head(q) = q[1]
          /\ Len(Tail(q)) = Len(q) - 1
          /\ \A i \in 1 .. Len(Tail(q)) : i + 1 \in 1 .. Len(q) /\ Tail(q)[i] = q[i + 1]
      BY <3>1, TailFacts
    <3>3. /\ \A i \in 1 .. Len(q) : holder[q[i]] = ch /\ NoFrame(q[i])
          /\ \A i, j \in 1 .. Len(q) : i # j => q[i] # q[j]
      BY <2>0, <2>1 DEF OpenOK
    <3>4. \A m : NoFrame(m) => NoFrame(m)'
      BY <3>1 DEF NoFrame
    <3> HIDE DEF q
    <3>5. \A i \in 1 .. Len(Tail(q)) : holder[Tail(q)[i]] = ch /\ NoFrame(Tail(q)[i])
      BY <3>2, <3>3
    <3>6. \A i, j \in 1 .. Len(Tail(q)) : i # j => Tail(q)[i] # Tail(q)[j]
      BY <3>2, <3>3
    <3>7. \A i \in 1 .. Len(Tail(q)) : Tail(q)[i] # q[1]
      BY <3>2, <3>3
    <3> QED
      BY <2>1, <3>1, <3>2, <3>3, <3>4, <3>5, <3>6, <3>7 DEF OpenOK
  <2>2. CASE x # ch
    BY <1>3, <2>0, <2>2, OpenKept DEF Receive, Goto, DeliveryTypeOK, NoFrame
  <2> QED
    BY <2>1, <2>2
<1>4. ASSUME NEW ch \in Chans, NEW v \in {"ok", "err"}, DispatchDelivery(ch, v) PROVE OpenOK(x)'
  <2>0. OpenOK(x)
    BY <1>4 DEF DispatchDelivery, DispatchWith, OpenInv
  <2>1. /\ lpc[ch] = "handling" /\ cur[ch] \in Msgs
        /\ deliveries' = deliveries /\ holder' = holder /\ chan' = chan
        /\ lpc'[ch] = "select"
        /\ frames \subseteq frames' /\ \A f \in frames' \ frames : f.msg = cur[ch]
    BY <1>4 DEF DispatchDelivery, DispatchWith, Goto, DeliveryTypeOK
  <2>2. \A m : m # cur[ch] /\ NoFrame(m) => NoFrame(m)'
    BY <2>1 DEF NoFrame
  <2>3. CASE x = ch
    BY <2>0, <2>1, <2>2, <2>3 DEF OpenOK
  <2>4. CASE x # ch
    <3>1. lpc'[x] = lpc[x] /\ cur'[x] = cur[x]
      BY <1>4, <2>4 DEF DispatchDelivery, DispatchWith, Goto, DeliveryTypeOK
    <3>2. CASE frames' = frames
      BY <2>0, <2>1, <3>1, <3>2, OpenKept DEF NoFrame
    <3>3. CASE ~autoAck /\ chan[ch] = "open"
      <4>1. holder[cur[ch]] = ch
        BY <2>1, <3>3 DEF OpenInv, OpenOK
      <4>2. \A m \in Msgs : holder[m] = x /\ NoFrame(m) => holder'[m] = x /\ NoFrame(m)'
        BY <2>1, <2>2, <2>4, <4>1
      <4> QED
        BY <2>0, <2>1, <3>1, <4>2, OpenKept
    <3> QED
      BY <1>4, <3>2, <3>3 DEF DispatchDelivery, DispatchWith
  <2> QED
    BY <2>3, <2>4
<1>5. ASSUME NEW S \in SUBSET Chans, ChannelsEnd(S), autoAck' = autoAck,
             deliveries'[x] = deliveries[x], lpc'[x] = lpc[x], cur'[x] = cur[x]
      PROVE  OpenOK(x)'
  <2>1. x \notin S /\ chan[x] = "open"
    BY <1>5, ChannelsEndFacts
  <2>2. OpenOK(x)
    BY <1>5, <2>1 DEF OpenInv
  <2>3. \A m \in Msgs : holder[m] = x /\ NoFrame(m) => holder'[m] = x /\ NoFrame(m)'
    BY <1>5, <2>1, ChannelsEndFacts DEF NoFrame
  <2> QED
    BY <1>5, <2>2, <2>3, OpenKept
<1>6. ASSUME NEW ch \in Chans, EndLoop(ch) PROVE OpenOK(x)'
  <2>1. CASE ChannelsEnd({ch})
    <3>1. x # ch
      BY <2>1, ChannelsEndFacts
    <3>2. /\ autoAck' = autoAck
          /\ deliveries'[x] = deliveries[x] /\ lpc'[x] = lpc[x] /\ cur'[x] = cur[x]
      BY <1>6, <3>1 DEF EndLoop, Goto, DeliveryTypeOK
    <3> QED
      BY <1>5, <2>1, <3>2
  <2>2. CASE chan[ch] = "closed" /\ UNCHANGED <<chan, brokerVars>>
    <3>1. x # ch
      BY <2>2
    <3>2. OpenOK(x)
      BY <1>6, <2>2 DEF EndLoop, OpenInv
    <3> QED
      BY <1>6, <2>2, <3>1, <3>2, OpenKept DEF EndLoop, Goto, DeliveryTypeOK, NoFrame
  <2> QED
    BY <1>6, <2>1, <2>2, Zenon DEF EndLoop
<1>7. ASSUME NEW m \in Own, BrokerEnqueues(m) PROVE OpenOK(x)'
  <2>1. OpenOK(x)
    BY <1>7 DEF BrokerEnqueues, OpenInv
  <2> QED
    BY <1>7, <2>1, OpenKept DEF BrokerEnqueues, NoFrame
<1>8. ASSUME NEW m \in Msgs, NEW ch \in Chans, BrokerDelivers(ch, m) PROVE OpenOK(x)'
  <2>0. OpenOK(x)
    BY <1>8 DEF BrokerDelivers, OpenInv
  <2>1. /\ place[m] = "ready" /\ holder' = [holder EXCEPT ![m] = ch]
        /\ deliveries' = [deliveries EXCEPT ![ch] = Append(@, m)]
        /\ UNCHANGED <<autoAck, lpc, cur, frames>>
    BY <1>8, Zenon DEF BrokerDelivers
  <2>2. holder[m] = NoChan /\ holder[m] # x
    BY <2>1, DeliveryAssumption DEF DeliveryAssumption, HoldInv
  <2>3. \A n \in Msgs : holder[n] = x /\ NoFrame(n) => holder'[n] = x /\ NoFrame(n)'
    BY <2>1, <2>2 DEF NoFrame, DeliveryTypeOK
  <2>4. CASE x = ch
    <3> DEFINE q == deliveries[ch]
    <3>1. q \in Seq(Msgs) /\ deliveries'[ch] = Append(q, m)
      BY <2>1 DEF DeliveryTypeOK
    <3> DEFINE r == Append(q, m)
    <3>2. /\ Len(r) = Len(q) + 1
          /\ \A i \in 1 .. Len(r) :
                \/ i \in 1 .. Len(q) /\ r[i] = q[i]
                \/ i = Len(q) + 1 /\ r[i] = m
          /\ \A i \in 1 .. Len(q) : q[i] \in Msgs
          /\ deliveries'[ch] = r
      BY <3>1, AppendFacts, Zenon
    <3>3. /\ \A i \in 1 .. Len(q) : holder[q[i]] = ch /\ NoFrame(q[i])
          /\ \A i, j \in 1 .. Len(q) : i # j => q[i] # q[j]
          /\ lpc[ch] = "handling" =>
                /\ holder[cur[ch]] = ch /\ NoFrame(cur[ch])
                /\ \A i \in 1 .. Len(q) : q[i] # cur[ch]
      BY <2>0, <2>4 DEF OpenOK
    <3>4. holder'[m] = ch /\ NoFrame(m)
      BY <1>f, <2>1 DEF NoFrame, DeliveryTypeOK
    <3>6. \A i \in 1 .. Len(q) : q[i] # m /\ holder'[q[i]] = ch
      BY <2>2, <2>3, <2>4, <3>2, <3>3
    <3>7. lpc[ch] = "handling" => cur[ch] # m /\ holder'[cur[ch]] = ch
      BY <2>2, <2>3, <2>4, <3>3 DEF DeliveryTypeOK
    <3> HIDE DEF q, r
    <3>8. \A i \in 1 .. Len(r) : holder'[r[i]] = ch /\ NoFrame(r[i])
      BY <3>2, <3>3, <3>4, <3>6
    <3>9. ASSUME NEW i \in 1 .. Len(r), NEW j \in 1 .. Len(r), i # j PROVE r[i] # r[j]
      <4>1. CASE i \in 1 .. Len(q) /\ r[i] = q[i]
        BY <3>2, <3>3, <3>6, <3>9, <4>1
      <4>2. CASE i = Len(q) + 1 /\ r[i] = m
        BY <3>2, <3>6, <3>9, <4>2
      <4> QED
        BY <3>2, <4>1, <4>2
    <3>10. lpc[ch] = "handling" => \A i \in 1 .. Len(r) : r[i] # cur[ch]
      BY <3>2, <3>3, <3>7
    <3>11. deliveries'[x] = r /\ UNCHANGED <<lpc, cur, frames>>
      BY <2>1, <2>4, <3>2
    <3> QED
      BY <2>4, <3>3, <3>7, <3>8, <3>9, <3>10, <3>11 DEF OpenOK, NoFrame
  <2>5. CASE x # ch
    BY <2>0, <2>1, <2>3, <2>5, OpenKept DEF DeliveryTypeOK
  <2> QED
    BY <2>4, <2>5
<1>9. ASSUME NEW f \in frames, BrokerSettles(f) PROVE OpenOK(x)'
  <2>1. OpenOK(x)
    BY <1>9 DEF BrokerSettles, OpenInv
  <2> QED
    BY <1>9, <2>1, OpenKept DEF BrokerSettles, DeliveryTypeOK, NoFrame
<1>10. ASSUME NEW S \in SUBSET OpenChans, Ends(S) PROVE OpenOK(x)'
  <2>1. S \in SUBSET Chans
    BY DEF OpenChans
  <2> QED
    BY <1>5, <1>10, <2>1 DEF Ends
<1> QED
  BY CoreStep, <1>1, <1>2, <1>3, <1>4, <1>6, <1>7, <1>8, <1>9, <1>10, Zenon


-----------------------------------------------------------------------------
(* Messages in buffers                                                     *)

\* With auto_ack nothing is held and nothing settled, so a message is buffered once.
LEMMA AutoPreserved ==
    DeliveryTypeOK /\ HoldInv /\ AutoInv /\ [Next]_vars => AutoInv'
<1> USE DEF pubVars, loopVars, brokerVars, histVars, sysVars
<1> SUFFICES ASSUME DeliveryTypeOK, HoldInv, AutoInv, [Next]_vars, autoAck' PROVE AutoOK'
  BY DEF AutoInv
<1>1. autoAck
  BY CoreStep, Zenon DEF coreVars, StartDispatchLoop, Receive, DispatchDelivery, DispatchWith,
     EndLoop, BrokerEnqueues, BrokerDelivers, BrokerSettles, Ends
<1>2. AutoOK
  BY <1>1 DEF AutoInv
<1>3. /\ \A m \in Msgs : holder[m] = NoChan
      /\ frames = {}
  <2>1. \A m \in Msgs : holder[m] = NoChan
    BY <1>1 DEF HoldInv
  <2> QED
    BY <2>1, DeliveryAssumption
       DEF DeliveryAssumption, DeliveryTypeOK, Frame, HoldInv, SettlesOnlyHeld
<1>4. ASSUME UNCHANGED <<deliveries, calls>>, \A m \in Msgs : place'[m] = place[m]
      PROVE  AutoOK'
  <2>1. \A ch \in Chans : \A i \in 1 .. Len(deliveries[ch]) : deliveries[ch][i] \in Msgs
    BY DEF DeliveryTypeOK
  <2> QED
    BY <1>2, <1>4, <2>1 DEF AutoOK
<1>5. CASE UNCHANGED coreVars
  BY <1>4, <1>5 DEF coreVars
<1>6. ASSUME NEW ch \in Chans, NEW v \in {"ok", "err"},
             StartDispatchLoop(ch) \/ DispatchDelivery(ch, v)
      PROVE  AutoOK'
  BY <1>4, <1>6 DEF StartDispatchLoop, DispatchDelivery, DispatchWith
<1>7. ASSUME NEW ch \in Chans, Receive(ch) PROVE AutoOK'
  <2> DEFINE q == deliveries[ch]
  <2>1. /\ q \in Seq(Msgs) /\ q # <<>>
        /\ deliveries' = [deliveries EXCEPT ![ch] = Tail(q)] /\ place' = place
        /\ calls' = [calls EXCEPT ![Head(q)] = @ + 1]
    BY <1>7 DEF Receive, DeliveryTypeOK
  <2>2. /\ 1 \in 1 .. Len(q) /\ Head(q) = q[1] /\ q[1] \in Msgs
        /\ Len(Tail(q)) = Len(q) - 1
        /\ \A i \in 1 .. Len(Tail(q)) : i + 1 \in 1 .. Len(q) /\ Tail(q)[i] = q[i + 1]
    BY <2>1, TailFacts
  <2> DEFINE Old(x, i) == IF x = ch THEN i + 1 ELSE i
  <2>3. ASSUME NEW x \in Chans, NEW i \in 1 .. Len(deliveries'[x])
        PROVE  /\ Old(x, i) \in 1 .. Len(deliveries[x])
               /\ deliveries'[x][i] = deliveries[x][Old(x, i)]
               /\ deliveries'[x][i] \in Msgs
    <3>1. CASE x = ch
      <4> DEFINE t == Tail(q)
      <4>1. deliveries'[x] = t /\ deliveries[x] = q
        BY <2>1, <3>1 DEF DeliveryTypeOK
      <4>2. \A n \in 1 .. Len(t) : n + 1 \in 1 .. Len(q) /\ t[n] = q[n + 1] /\ q[n + 1] \in Msgs
        BY <2>1, <2>2
      <4> HIDE DEF q, t
      <4> QED
        BY <2>3, <3>1, <4>1, <4>2
    <3>2. CASE x # ch
      BY <2>1, <3>2 DEF DeliveryTypeOK
    <3> QED
      BY <3>1, <3>2
  <2>4. \A m \in Msgs : m # q[1] => calls'[m] = calls[m]
    BY <2>1, <2>2 DEF DeliveryTypeOK
  <2>5. place[q[1]] = "acked"
    BY <1>2, <2>2 DEF AutoOK
  <2>6. \A x \in Chans : \A j \in 1 .. Len(deliveries[x]) :
           deliveries[x][j] = q[1] => x = ch /\ j = 1
    BY <1>2, <2>2 DEF AutoOK
  <2>7. \A x \in Chans : \A i \in 1 .. Len(deliveries'[x]) : deliveries'[x][i] # q[1]
    <3>1. \A i \in Nat : i # 0 => i + 1 # 1
      OBVIOUS
    <3> QED
      BY <2>3, <2>6, <3>1
  <2>8. \A x \in Chans : \A i \in 1 .. Len(deliveries'[x]) :
           place'[deliveries'[x][i]] = "acked" /\ calls'[deliveries'[x][i]] = 0
    BY <1>2, <2>1, <2>3, <2>4, <2>7 DEF AutoOK
  <2>9. ASSUME NEW x \in Chans, NEW y \in Chans, NEW i \in 1 .. Len(deliveries'[x]),
               NEW j \in 1 .. Len(deliveries'[y]), deliveries'[x][i] = deliveries'[y][j]
        PROVE  x = y /\ i = j
    <3>1. /\ Old(x, i) \in 1 .. Len(deliveries[x])
          /\ Old(y, j) \in 1 .. Len(deliveries[y])
          /\ deliveries[x][Old(x, i)] = deliveries[y][Old(y, j)]
      BY <2>3, <2>9
    <3>2. x = y /\ Old(x, i) = Old(y, j)
      <4> HIDE DEF Old
      <4> QED
        BY <1>2, <3>1 DEF AutoOK
    <3> QED
      BY <3>2
  <2>10. \A m \in Msgs : place'[m] # "acked" => calls'[m] = 0
    BY <1>2, <2>1, <2>4, <2>5 DEF AutoOK
  <2> QED
    BY <2>8, <2>9, <2>10 DEF AutoOK
<1>8. ASSUME NEW ch \in Chans, EndLoop(ch) PROVE AutoOK'
  <2>1. /\ deliveries' = [deliveries EXCEPT ![ch] = <<>>] /\ calls' = calls
        /\ \A m \in Msgs : place'[m] = place[m]
    <3>1. ASSUME ChannelsEnd({ch}) PROVE \A m \in Msgs : place'[m] = place[m]
      BY <1>3, <3>1, ChannelsEndFacts, DeliveryAssumption DEF DeliveryAssumption
    <3> QED
      BY <1>8, <3>1, Zenon DEF EndLoop
  <2>2. \A x \in Chans : \A i \in 1 .. Len(deliveries'[x]) :
           /\ x # ch /\ deliveries'[x] = deliveries[x] /\ deliveries[x][i] \in Msgs
    BY <2>1 DEF DeliveryTypeOK
  <2> QED
    BY <1>2, <2>1, <2>2 DEF AutoOK
<1>9. ASSUME NEW m \in Own, BrokerEnqueues(m) PROVE AutoOK'
  <2>1. \A n \in Msgs : place'[n] = "acked" <=> place[n] = "acked"
    BY <1>9, DeliveryAssumption DEF DeliveryAssumption, BrokerEnqueues, DeliveryTypeOK
  <2>2. \A ch \in Chans : \A i \in 1 .. Len(deliveries[ch]) : deliveries[ch][i] \in Msgs
    BY DEF DeliveryTypeOK
  <2>3. UNCHANGED <<deliveries, calls>>
    BY <1>9 DEF BrokerEnqueues
  <2> QED
    BY <1>2, <2>1, <2>2, <2>3 DEF AutoOK
<1>10. ASSUME NEW m \in Msgs, NEW ch \in Chans, BrokerDelivers(ch, m) PROVE AutoOK'
  <2> DEFINE q == deliveries[ch]
  <2> DEFINE r == Append(q, m)
  <2>1. /\ q \in Seq(Msgs) /\ place[m] = "ready"
        /\ deliveries' = [deliveries EXCEPT ![ch] = r]
    BY <1>10 DEF BrokerDelivers, DeliveryTypeOK
  <2>2. place' = [place EXCEPT ![m] = "acked"] /\ calls' = calls
    BY <1>1, <1>10, Zenon DEF BrokerDelivers
  <2>3. /\ calls[m] = 0
        /\ \A x \in Chans : \A j \in 1 .. Len(deliveries[x]) : deliveries[x][j] # m
    BY <1>2, <2>1 DEF AutoOK
  <2>4. /\ Len(r) = Len(q) + 1
        /\ \A i \in 1 .. Len(r) : \/ i \in 1 .. Len(q) /\ r[i] = q[i]
                                  \/ i = Len(q) + 1 /\ r[i] = m
    BY <2>1, AppendFacts
  <2>5. ASSUME NEW x \in Chans, NEW i \in 1 .. Len(deliveries'[x])
        PROVE  \/ /\ i \in 1 .. Len(deliveries[x])
                  /\ deliveries'[x][i] = deliveries[x][i] /\ deliveries[x][i] \in Msgs
               \/ x = ch /\ i = Len(deliveries[ch]) + 1 /\ deliveries'[x][i] = m
    <3>1. CASE x = ch
      <4>1. deliveries'[x] = r /\ deliveries[x] = q
        BY <2>1, <3>1 DEF DeliveryTypeOK
      <4>2. \A n \in 1 .. Len(q) : q[n] \in Msgs
        BY <2>1
      <4> HIDE DEF r
      <4> QED
        BY <2>4, <2>5, <3>1, <4>1, <4>2
    <3>2. CASE x # ch
      BY <2>1, <3>2 DEF DeliveryTypeOK
    <3> QED
      BY <3>1, <3>2
  <2>6. \A n \in Msgs : place[n] = "acked" \/ n = m => place'[n] = "acked"
    BY <2>2 DEF DeliveryTypeOK
  <2>7. \A x \in Chans : \A i \in 1 .. Len(deliveries'[x]) :
           place'[deliveries'[x][i]] = "acked" /\ calls'[deliveries'[x][i]] = 0
    BY <1>2, <2>2, <2>3, <2>5, <2>6 DEF AutoOK
  <2>8. ASSUME NEW x \in Chans, NEW y \in Chans, NEW i \in 1 .. Len(deliveries'[x]),
               NEW j \in 1 .. Len(deliveries'[y]), deliveries'[x][i] = deliveries'[y][j]
        PROVE  x = y /\ i = j
    <3>1. /\ \/ i \in 1 .. Len(deliveries[x]) /\ deliveries'[x][i] = deliveries[x][i]
             \/ x = ch /\ i = Len(deliveries[ch]) + 1 /\ deliveries'[x][i] = m
          /\ \/ j \in 1 .. Len(deliveries[y]) /\ deliveries'[y][j] = deliveries[y][j]
             \/ y = ch /\ j = Len(deliveries[ch]) + 1 /\ deliveries'[y][j] = m
      BY <2>5
    <3>2. CASE i \in 1 .. Len(deliveries[x]) /\ deliveries'[x][i] = deliveries[x][i]
      BY <1>2, <2>3, <2>8, <3>1, <3>2 DEF AutoOK
    <3>3. CASE x = ch /\ i = Len(deliveries[ch]) + 1 /\ deliveries'[x][i] = m
      BY <2>3, <2>8, <3>1, <3>3
    <3> QED
      BY <3>1, <3>2, <3>3
  <2>9. \A n \in Msgs : place'[n] # "acked" => calls'[n] = 0
    BY <1>2, <2>2, <2>6 DEF AutoOK
  <2> QED
    BY <2>7, <2>8, <2>9 DEF AutoOK
<1>11. ASSUME NEW f \in frames, BrokerSettles(f) PROVE AutoOK'
  BY <1>3, <1>11
<1>12. ASSUME NEW S \in SUBSET OpenChans, Ends(S) PROVE AutoOK'
  <2>1. S \in SUBSET Chans
    BY DEF OpenChans
  <2>2. \A m \in Msgs : place'[m] = place[m]
    BY <1>3, <1>12, <2>1, ChannelsEndFacts, DeliveryAssumption DEF DeliveryAssumption, Ends
  <2> QED
    BY <1>4, <1>12, <2>2 DEF Ends
<1> QED
  BY CoreStep, <1>5, <1>6, <1>7, <1>8, <1>9, <1>10, <1>11, <1>12, Zenon


\* A goroutine that handles a message has counted the call, and a message that
\* was delivered does not become new again.
LEMMA LifePreserved ==
    DeliveryTypeOK /\ LifeInv /\ HoldInv /\ [Next]_vars => LifeInv'
<1> USE DEF pubVars, loopVars, brokerVars, histVars, sysVars
<1> SUFFICES ASSUME DeliveryTypeOK, LifeInv, HoldInv, [Next]_vars PROVE LifeInv'
  OBVIOUS
<1>b. \A ch \in Chans : \A i \in 1 .. Len(deliveries[ch]) : deliveries[ch][i] \in Msgs
  BY DEF DeliveryTypeOK
<1>0. ASSUME UNCHANGED <<lpc, cur, deliveries, calls>>,
             \A ch \in Chans : chan[ch] = "none" => chan'[ch] = "none",
             \A m \in Msgs : place'[m] = "new" => place[m] = "new"
      PROVE  LifeInv'
  BY <1>b, <1>0 DEF LifeInv
<1>1. CASE UNCHANGED coreVars
  BY <1>0, <1>1 DEF coreVars
<1>2. ASSUME NEW ch \in Chans, StartDispatchLoop(ch) PROVE LifeInv'
  BY <1>2 DEF StartDispatchLoop, Goto, LifeInv, DeliveryTypeOK
<1>3. ASSUME NEW ch \in Chans, Receive(ch) PROVE LifeInv'
  <2> DEFINE q == deliveries[ch]
  <2>1. /\ q \in Seq(Msgs) /\ q # <<>> /\ lpc[ch] = "select"
        /\ UNCHANGED <<chan, place>>
        /\ cur' = [cur EXCEPT ![ch] = Head(q)]
        /\ calls' = [calls EXCEPT ![Head(q)] = @ + 1]
    BY <1>3 DEF Receive, Goto, DeliveryTypeOK
  <2>2. \A x \in Chans : x # ch => deliveries'[x] = deliveries[x] /\ lpc'[x] = lpc[x]
    BY <1>3 DEF Receive, Goto, DeliveryTypeOK
  <2>3. deliveries'[ch] = Tail(q) /\ lpc'[ch] = "handling"
    BY <1>3 DEF Receive, Goto, DeliveryTypeOK
  <2>4. /\ Head(q) \in Msgs
        /\ \A i \in 1 .. Len(Tail(q)) : i + 1 \in 1 .. Len(q) /\ Tail(q)[i] = q[i + 1]
    BY <2>1, TailFacts
  <2>5. \A i \in 1 .. Len(deliveries'[ch]) : place[deliveries'[ch][i]] # "new"
    BY <2>3, <2>4 DEF LifeInv
  <2>6. \A x \in Chans : lpc'[x] = "handling" => calls'[cur'[x]] > 0
    <3>1. \A n \in Msgs : calls[n] \in Nat /\ calls'[n] = IF n = Head(q) THEN calls[n] + 1 ELSE calls[n]
      BY <2>1 DEF DeliveryTypeOK
    <3>2. cur'[ch] = Head(q) /\ \A x \in Chans : x # ch => cur'[x] = cur[x]
      BY <2>1 DEF DeliveryTypeOK
    <3>3. \A x \in Chans : lpc[x] = "handling" => cur[x] \in Msgs /\ calls[cur[x]] > 0
      BY DEF LifeInv, DeliveryTypeOK
    <3> HIDE DEF q
    <3> QED
      BY <2>2, <2>4, <3>1, <3>2, <3>3
  <2>7. \A x \in Chans : lpc'[x] = "none" => chan'[x] = "none" /\ Len(deliveries'[x]) = 0
    BY <2>1, <2>2, <2>3 DEF LifeInv
  <2>8. \A x \in Chans : \A i \in 1 .. Len(deliveries'[x]) : place'[deliveries'[x][i]] # "new"
    BY <2>1, <2>2, <2>5 DEF LifeInv
  <2> QED
    BY <2>6, <2>7, <2>8 DEF LifeInv
<1>4. ASSUME NEW ch \in Chans, NEW v \in {"ok", "err"}, DispatchDelivery(ch, v) PROVE LifeInv'
  <2>1. /\ lpc[ch] = "handling" /\ lpc' = [lpc EXCEPT ![ch] = "select"]
        /\ cur' = [cur EXCEPT ![ch] = NoMsg]
        /\ UNCHANGED <<chan, deliveries, place, calls>>
    BY <1>4, Zenon DEF DispatchDelivery, DispatchWith, Goto
  <2>2. \A x \in Chans : lpc'[x] \in {"none", "handling"} => lpc'[x] = lpc[x] /\ cur'[x] = cur[x]
    BY <2>1 DEF DeliveryTypeOK
  <2> QED
    BY <2>1, <2>2 DEF LifeInv
<1>5. ASSUME NEW S \in SUBSET Chans, ChannelsEnd(S)
      PROVE  /\ \A ch \in Chans : ch \notin S => chan'[ch] = chan[ch]
             /\ \A m \in Msgs : place'[m] = "new" => place[m] = "new"
  BY <1>5, ChannelsEndFacts
<1>6. ASSUME NEW ch \in Chans, EndLoop(ch) PROVE LifeInv'
  <2>1. /\ lpc' = [lpc EXCEPT ![ch] = "ended"]
        /\ deliveries' = [deliveries EXCEPT ![ch] = <<>>]
        /\ UNCHANGED <<cur, calls>>
    BY <1>6 DEF EndLoop, Goto
  <2>2. /\ \A x \in Chans : x # ch => chan'[x] = chan[x]
        /\ \A m \in Msgs : place'[m] = "new" => place[m] = "new"
    <3>1. CASE ChannelsEnd({ch})
      BY <1>5, <3>1
    <3>2. CASE UNCHANGED <<chan, brokerVars>>
      BY <3>2
    <3> QED
      BY <1>6, <3>1, <3>2, Zenon DEF EndLoop
  <2>3. /\ lpc'[ch] = "ended" /\ deliveries'[ch] = <<>>
        /\ \A x \in Chans : x # ch => lpc'[x] = lpc[x] /\ deliveries'[x] = deliveries[x]
    BY <2>1 DEF DeliveryTypeOK
  <2> QED
    BY <1>b, <2>1, <2>2, <2>3 DEF LifeInv
<1>7. ASSUME NEW m \in Own, BrokerEnqueues(m) PROVE LifeInv'
  <2>1. \A n \in Msgs : place'[n] = "new" => place[n] = "new"
    BY <1>7 DEF BrokerEnqueues, DeliveryTypeOK
  <2> QED
    BY <1>0, <1>7, <2>1 DEF BrokerEnqueues
<1>8. ASSUME NEW m \in Msgs, NEW ch \in Chans, BrokerDelivers(ch, m) PROVE LifeInv'
  <2> DEFINE q == deliveries[ch]
  <2> DEFINE r == Append(q, m)
  <2>1. /\ q \in Seq(Msgs) /\ chan[ch] = "open"
        /\ deliveries' = [deliveries EXCEPT ![ch] = r]
        /\ UNCHANGED <<chan, lpc, cur, calls>>
    BY <1>8 DEF BrokerDelivers, DeliveryTypeOK
  <2>2. place' = [place EXCEPT ![m] = "acked"] \/ place' = [place EXCEPT ![m] = "unacked"]
    BY <1>8, Zenon DEF BrokerDelivers
  <2>3. \A n \in Msgs : place'[n] = "new" => place[n] = "new" /\ n # m
    BY <2>2 DEF DeliveryTypeOK
  <2>4. \A i \in 1 .. Len(r) : \/ i \in 1 .. Len(q) /\ r[i] = q[i]
                               \/ i = Len(q) + 1 /\ r[i] = m
    BY <2>1, AppendFacts
  <2>5. /\ deliveries'[ch] = r
        /\ \A x \in Chans : x # ch => deliveries'[x] = deliveries[x]
    BY <2>1 DEF DeliveryTypeOK
  <2> HIDE DEF r
  <2>6. \A x \in Chans : \A i \in 1 .. Len(deliveries'[x]) : place'[deliveries'[x][i]] # "new"
    BY <1>b, <2>3, <2>4, <2>5 DEF LifeInv
  <2>7. lpc[ch] # "none"
    BY <2>1 DEF LifeInv
  <2> QED
    BY <2>1, <2>5, <2>6, <2>7 DEF LifeInv
<1>9. ASSUME NEW f \in frames, BrokerSettles(f) PROVE LifeInv'
  <2>1. \A n \in Msgs : place'[n] = "new" => place[n] = "new"
    BY <1>9 DEF BrokerSettles, DeliveryTypeOK, Frame
  <2> QED
    BY <1>0, <1>9, <2>1 DEF BrokerSettles
<1>10. ASSUME NEW S \in SUBSET OpenChans, Ends(S) PROVE LifeInv'
  <2>1. S \in SUBSET Chans /\ \A ch \in S : chan[ch] # "none"
    BY DEF OpenChans
  <2> QED
    BY <1>0, <1>5, <1>10, <2>1 DEF Ends
<1> QED
  BY CoreStep, <1>1, <1>2, <1>3, <1>4, <1>6, <1>7, <1>8, <1>9, <1>10, Zenon

-----------------------------------------------------------------------------
(* Publishing                                                              *)

\* What PublishMessage wrote stays on its way until the broker has it or the
\* connection is lost: the client closes a connection only when all it wrote
\* there has been read.
LEMMA SendPreserved ==
    DeliveryTypeOK /\ SendInv /\ [Next]_vars => SendInv'
<1> USE DEF SendInv, PublishedUnlessLost, amqpVars, pubVars, loopVars, brokerVars, histVars,
            sysVars, IsOpen
<1> SUFFICES ASSUME DeliveryTypeOK, SendInv, [Next]_vars PROVE SendInv'
  OBVIOUS
<1>t. /\ connState \in [Conns -> {"none", "open", "lost", "closed"}] /\ NoConn \notin Conns
      /\ ppc \in [Own -> {"idle", "publish", "sent", "failed"}]
      /\ pconn \in [Own -> Conns \cup {NoConn}]
      /\ place \in [Msgs -> {"new", "ready", "unacked", "acked", "dead"}]
      /\ connection \in Conns \cup {NoConn}
      /\ Own \subseteq Msgs
  BY ConnAssumption, DeliveryAssumption
     DEF ConnAssumption, DeliveryAssumption, DeliveryTypeOK, AmqpTypeOK
<1>0. ASSUME UNCHANGED pubVars,
             \A m \in Own : place'[m] = "new" => place[m] = "new",
             \A c \in Conns : /\ connState[c] = "open" => connState'[c] \in {"open", "lost"}
                              /\ connState[c] = "lost" => connState'[c] = "lost"
      PROVE  SendInv'
  BY <1>t, <1>0
<1>1. ASSUME NEW S, ChannelsEnd(S) PROVE \A m \in Own : place'[m] = "new" => place[m] = "new"
  BY <1>t, <1>1 DEF ChannelsEnd
<1>c. ASSUME NEW m \in Msgs, NEW q, q # "new", place' = [place EXCEPT ![m] = q]
      PROVE  \A n \in Own : place'[n] = "new" => place[n] = "new"
  BY <1>t, <1>c
<1>2. CASE UNCHANGED vars
  BY <1>0, <1>2 DEF vars
<1>3. ASSUME NEW m \in Own, NEW c \in Conns, PublishMessage(m, c) PROVE SendInv'
  <2>1. /\ ppc'[m] = "publish" /\ pconn'[m] = c
        /\ \A n \in Own : n # m => ppc'[n] = ppc[n] /\ pconn'[n] = pconn[n]
        /\ UNCHANGED <<connState, place>>
    BY <1>t, <1>3 DEF PublishMessage
  <2> QED
    BY <2>1
<1>4. ASSUME NEW m \in Own, PublishRefused(m) \/ PublishToChannel(m) PROVE SendInv'
  <2>1. UNCHANGED <<connState, place>>
    BY <1>4 DEF PublishRefused, PublishToChannel
  <2>2. CASE /\ ppc' = [ppc EXCEPT ![m] = "failed"]
             /\ pconn' = [pconn EXCEPT ![m] = NoConn]
    <3>1. /\ ppc'[m] = "failed"
          /\ \A n \in Own : n # m => ppc'[n] = ppc[n] /\ pconn'[n] = pconn[n]
      BY <1>t, <2>2
    <3> QED
      BY <2>1, <3>1
  <2>3. CASE /\ ppc[m] = "publish" /\ IsOpen(pconn[m])
             /\ ppc' = [ppc EXCEPT ![m] = "sent"] /\ UNCHANGED pconn
    <3>1. ppc'[m] = "sent" /\ \A n \in Own : n # m => ppc'[n] = ppc[n]
      BY <1>t, <2>3
    <3> QED
      BY <2>1, <2>3, <3>1
  <2> QED
    BY <1>4, <2>2, <2>3, Zenon DEF PublishRefused, PublishToChannel
<1>5. ASSUME NEW c \in Conns, Connect(c) PROVE SendInv'
  BY <1>t, <1>0, <1>5 DEF Connect, DialConfig
<1>6. CASE CleanupSignal \/ CleanupWait
  BY <1>0, <1>6 DEF CleanupSignal, CleanupWait
<1>7. CASE CleanupConnection
  <2>1. CASE /\ IsOpen(connection) /\ Flushed(connection) /\ CloseConn(connection)
             /\ ChannelsEnd(OpenOn(connection))
    <3>1. UNCHANGED pubVars
      BY <1>7 DEF CleanupConnection
    <3>2. \A m \in Own : place'[m] = "new" => place[m] = "new"
      BY <1>1, <2>1
    <3>3. \A c \in Conns : c # connection => connState'[c] = connState[c]
      BY <1>t, <2>1 DEF CloseConn
    <3>4. \A m \in Own : ppc[m] = "sent" /\ place[m] = "new" => pconn[m] # connection
      BY <2>1 DEF Flushed
    <3> QED
      BY <3>1, <3>2, <3>3, <3>4
  <2>2. CASE UNCHANGED <<amqpVars, chan, chanConn, brokerVars, connection>>
    BY <1>0, <1>7, <2>2 DEF CleanupConnection
  <2> QED
    BY <1>7, <2>1, <2>2, Zenon DEF CleanupConnection
<1>8. ASSUME NEW ch \in Chans, StartDispatchLoop(ch) \/ LoopRuns(ch) PROVE SendInv'
  <2>1. UNCHANGED <<pubVars, connState, place>>
    BY <1>8, Zenon DEF StartDispatchLoop, LoopRuns, Receive, DispatchDelivery, DispatchWith
  <2> QED
    BY <1>0, <2>1
<1>9. ASSUME NEW ch \in Chans, EndLoop(ch) PROVE SendInv'
  <2>1. UNCHANGED <<pubVars, connState>>
    BY <1>9, Zenon DEF EndLoop
  <2>2. \A m \in Own : place'[m] = "new" => place[m] = "new"
    BY <1>1, <1>9 DEF EndLoop
  <2> QED
    BY <1>0, <2>1, <2>2
<1>10. ASSUME NEW m \in Own, BrokerEnqueues(m) PROVE SendInv'
  <2>1. /\ UNCHANGED <<ppc, connState>> /\ ppc[m] = "sent"
        /\ place' = [place EXCEPT ![m] = "ready"]
        /\ pconn' = [pconn EXCEPT ![m] = NoConn]
    BY <1>10, Zenon DEF BrokerEnqueues
  <2>2. /\ place'[m] = "ready"
        /\ \A n \in Own : n # m => place'[n] = place[n] /\ pconn'[n] = pconn[n]
    BY <1>t, <2>1
  <2> QED
    BY <2>1, <2>2
<1>11. ASSUME NEW m \in Msgs, NEW ch \in Chans, BrokerDelivers(ch, m) PROVE SendInv'
  <2>1. /\ UNCHANGED <<pubVars, connState>>
        /\ \/ place' = [place EXCEPT ![m] = "acked"]
           \/ place' = [place EXCEPT ![m] = "unacked"]
    BY <1>11, Zenon DEF BrokerDelivers
  <2>2. \A n \in Own : place'[n] = "new" => place[n] = "new"
    BY <1>c, <2>1
  <2> QED
    BY <1>0, <2>1, <2>2
<1>12. ASSUME NEW f \in frames, BrokerSettles(f) PROVE SendInv'
  <2>1. /\ f.msg \in Msgs /\ UNCHANGED <<pubVars, connState>>
        /\ place' = [place EXCEPT ![f.msg] = IF f.kind = "ack" THEN "acked" ELSE "dead"]
    BY <1>12 DEF BrokerSettles, DeliveryTypeOK, Frame
  <2>2. \A n \in Own : place'[n] = "new" => place[n] = "new"
    BY <1>c, <2>1
  <2> QED
    BY <1>0, <2>1, <2>2
<1>13. ASSUME NEW c \in Conns, Drop(c) PROVE SendInv'
  <2>1. UNCHANGED pubVars /\ \A m \in Own : place'[m] = "new" => place[m] = "new"
    BY <1>1, <1>13 DEF Drop
  <2>2. connState' = [connState EXCEPT ![c] = "lost"]
    BY <1>13 DEF Drop, BrokerDrop
  <2> QED
    BY <1>t, <1>0, <2>1, <2>2
<1>14. ASSUME NEW ch \in Chans, Revoke(ch) PROVE SendInv'
  BY <1>0, <1>1, <1>14 DEF Revoke
<1> HIDE DEF SendInv
<1> QED
  BY <1>2, <1>3, <1>4, <1>5, <1>6, <1>7, <1>8, <1>9, <1>10, <1>11, <1>12, <1>13, <1>14, Zenon
     DEF Next, LoopReturns, LoopCancelled, Broker, Outage, Cleanup


-----------------------------------------------------------------------------
(* The invariant and the properties                                        *)

\* Nothing is delivered, handled or published at the start.
LEMMA InitDInv == Init => DInv
<1> SUFFICES ASSUME Init PROVE DInv
  OBVIOUS
<1> USE DEF Init, AmqpInit
<1>1. DeliveryTypeOK
  <2>1. closing \in BOOLEAN /\ autoAck \in BOOLEAN
    BY Zenon
  <2> QED
    BY <2>1 DEF DeliveryTypeOK, AmqpTypeOK
<1>2. HoldInv
  BY DEF HoldInv, SettlesOnlyHeld
<1>3. OpenInv
  BY DEF OpenInv
<1>4. AutoOK /\ LifeInv
  BY DEF AutoOK, LifeInv
<1>5. SendInv
  BY DEF SendInv, PublishedUnlessLost
<1> QED
  BY <1>1, <1>2, <1>3, <1>4, <1>5 DEF DInv, AutoInv

\* The invariant holds of publishers, dispatch goroutines and broker together.
THEOREM DeliveryInvariant == Safety => []DInv
<1>1. DInv /\ [Next]_vars => DInv'
  BY TypePreserved, HoldPreserved, OpenPreserved, AutoPreserved, LifePreserved, SendPreserved
     DEF DInv
<1> QED
  BY InitDInv, <1>1, PTL DEF Safety

\* Every variable keeps its type: in particular a handler is only called with a
\* message.
THEOREM DeliveryTypeCorrect == Safety => []DeliveryTypeOK
<1>1. DInv => DeliveryTypeOK
  BY DEF DInv
<1> QED
  BY DeliveryInvariant, <1>1, PTL

\* dispatchDelivery settles only what its channel holds, once, for any number of
\* dispatch goroutines, outages and rebuilds.
THEOREM SettlementsAreHeld == Safety => []SettlesOnlyHeld
<1>1. DInv => SettlesOnlyHeld
  BY DEF DInv, HoldInv
<1> QED
  BY DeliveryInvariant, <1>1, PTL

\* A message PublishMessage has reported as sent is lost only with its connection.
THEOREM PublishedStays == Safety => []PublishedUnlessLost
<1>1. DInv => PublishedUnlessLost
  BY DEF DInv, SendInv
<1> QED
  BY DeliveryInvariant, <1>1, PTL

-----------------------------------------------------------------------------
(* The contract                                                            *)

\* What the steps that move one message do to the status it has for its users.
LEMMA StatusMoves ==
    ASSUME DeliveryTypeOK, NEW m \in Msgs, NEW p, place' = [place EXCEPT ![m] = p]
    PROVE  [n \in Msgs |-> StatusOf(place'[n])]
              = [[n \in Msgs |-> StatusOf(place[n])] EXCEPT ![m] = StatusOf(p)]
BY DEF DeliveryTypeOK

\* Every step of publishers, goroutines, broker and outages is a step of the
\* contract or leaves it alone.
LEMMA ContractStep == DInv /\ [Next]_vars => [Contract!Next]_(Contract!contractVars)
<1> USE DEF pubVars, loopVars, brokerVars, histVars, sysVars
<1> SUFFICES ASSUME DInv, [Next]_vars PROVE [Contract!Next]_(Contract!contractVars)
  OBVIOUS
<1> DEFINE status == [m \in Msgs |-> StatusOf(place[m])]
<1>0. DeliveryTypeOK /\ HoldInv /\ AutoInv /\ LifeInv
  BY DEF DInv
<1>s. ASSUME UNCHANGED <<autoAck, calls, verdicts>>,
             \A m \in Msgs : StatusOf(place'[m]) = StatusOf(place[m])
      PROVE  UNCHANGED Contract!contractVars
  BY <1>s DEF Contract!contractVars
<1>1. CASE UNCHANGED coreVars
  BY <1>1, <1>s DEF coreVars
<1>2. ASSUME NEW ch \in Chans, StartDispatchLoop(ch) PROVE UNCHANGED Contract!contractVars
  BY <1>2, <1>s DEF StartDispatchLoop
<1>3. ASSUME NEW ch \in Chans, Receive(ch) PROVE Contract!Next
  <2> DEFINE m == Head(deliveries[ch])
  <2>1. /\ m \in Msgs /\ m = deliveries[ch][1] /\ 1 \in 1 .. Len(deliveries[ch])
    <3>1. deliveries[ch] \in Seq(Msgs) /\ deliveries[ch] # <<>>
      BY <1>0, <1>3 DEF Receive, DeliveryTypeOK
    <3> QED
      BY <3>1, TailFacts
  <2>2. /\ calls' = [calls EXCEPT ![m] = @ + 1]
        /\ UNCHANGED <<autoAck, place, verdicts>>
    BY <1>3 DEF Receive
  <2>3. place[m] # "new" /\ (autoAck => place[m] = "acked" /\ calls[m] = 0)
    <3>1. place[deliveries[ch][1]] # "new"
      BY <1>0, <2>1 DEF LifeInv
    <3>2. AutoOK => place[deliveries[ch][1]] = "acked" /\ calls[deliveries[ch][1]] = 0
      BY <2>1 DEF AutoOK
    <3> HIDE DEF m
    <3> QED
      BY <1>0, <2>1, <3>1, <3>2 DEF AutoInv
  <2> HIDE DEF m
  <2>4. status[m] # "new" /\ (autoAck => status[m] = "done" /\ calls[m] = 0)
    BY <1>0, <2>1, <2>3 DEF StatusOf, DeliveryTypeOK
  <2>5. Contract!Call(m)
    BY <2>2, <2>4, Zenon DEF Contract!Call
  <2> QED
    BY <2>1, <2>5, Zenon DEF Contract!Next
<1>4. ASSUME NEW ch \in Chans, NEW v \in {"ok", "err"}, DispatchDelivery(ch, v)
      PROVE  Contract!Next
  <2>1. cur[ch] \in Msgs /\ calls[cur[ch]] > 0
    BY <1>0, <1>4 DEF DispatchDelivery, DispatchWith, Goto, DeliveryTypeOK, LifeInv
  <2>2. Contract!Judge(cur[ch], v)
    BY <1>4, <2>1, Zenon DEF DispatchDelivery, DispatchWith, Contract!Judge
  <2> QED
    BY <2>1, <2>2, Zenon DEF Contract!Next
<1>5. ASSUME NEW S \in SUBSET Chans, ChannelsEnd(S)
      PROVE  \A m \in Msgs : StatusOf(place'[m]) = StatusOf(place[m])
  <2>1. \A m \in Msgs : holder[m] \in S => place[m] = "unacked"
    BY <1>0, DeliveryAssumption DEF DeliveryAssumption, HoldInv
  <2>2. \A m \in Msgs : place'[m] = place[m] \/ (place[m] = "unacked" /\ place'[m] = "ready")
    BY <1>0, <1>5, <2>1, ChannelsEndFacts
  <2> QED
    BY <2>2 DEF StatusOf
<1>6. ASSUME NEW ch \in Chans, EndLoop(ch) PROVE UNCHANGED Contract!contractVars
  BY <1>5, <1>6, <1>s DEF EndLoop
<1>7. ASSUME NEW m \in Own, BrokerEnqueues(m) PROVE Contract!Next
  <2>1. m \in Msgs /\ place[m] = "new" /\ place' = [place EXCEPT ![m] = "ready"]
    BY <1>7, DeliveryAssumption DEF DeliveryAssumption, BrokerEnqueues
  <2>2. status' = [status EXCEPT ![m] = "pending"] /\ status[m] = "new"
    BY <1>0, <2>1, StatusMoves DEF StatusOf
  <2>3. Contract!Accept(m)
    BY <1>7, <2>2, Zenon DEF BrokerEnqueues, Contract!Accept
  <2> QED
    BY <2>1, <2>3, Zenon DEF Contract!Next
<1>8. ASSUME NEW m \in Msgs, NEW ch \in Chans, BrokerDelivers(ch, m)
      PROVE  [Contract!Next]_(Contract!contractVars)
  <2>1. place[m] = "ready" /\ UNCHANGED <<autoAck, calls, verdicts>>
    BY <1>8, Zenon DEF BrokerDelivers
  <2>2. CASE autoAck /\ place' = [place EXCEPT ![m] = "acked"]
    <3>1. status' = [status EXCEPT ![m] = "done"] /\ status[m] = "pending"
      BY <1>0, <2>1, <2>2, StatusMoves DEF StatusOf
    <3>2. Contract!Complete(m)
      BY <2>1, <2>2, <3>1, Zenon DEF Contract!Complete
    <3> QED
      BY <3>2, Zenon DEF Contract!Next
  <2>3. CASE place' = [place EXCEPT ![m] = "unacked"]
    <3>1. \A n \in Msgs : StatusOf(place'[n]) = StatusOf(place[n])
      BY <1>0, <2>1, <2>3 DEF StatusOf, DeliveryTypeOK
    <3> QED
      BY <1>s, <2>1, <3>1
  <2> QED
    BY <1>8, <2>2, <2>3, Zenon DEF BrokerDelivers
<1>9. ASSUME NEW f \in frames, BrokerSettles(f) PROVE Contract!Next
  <2> DEFINE m == f.msg
  <2>1. /\ m \in Msgs /\ place[m] = "unacked" /\ ~autoAck
        /\ f.kind = "ack" => "ok" \in verdicts[m]
        /\ f.kind = "nack" => "err" \in verdicts[m]
        /\ f.kind \in {"ack", "nack"}
    <3>1. f.msg \in Msgs /\ f.chan \in Chans /\ f.kind \in {"ack", "nack"}
      BY <1>0 DEF DeliveryTypeOK, Frame
    <3>2. holder[f.msg] = f.chan
      BY <1>0 DEF HoldInv, SettlesOnlyHeld
    <3>3. holder[f.msg] # NoChan
      BY <3>1, <3>2, DeliveryAssumption DEF DeliveryAssumption
    <3> QED
      BY <1>0, <3>1, <3>3 DEF HoldInv
  <2>2. /\ place' = [place EXCEPT ![m] = IF f.kind = "ack" THEN "acked" ELSE "dead"]
        /\ UNCHANGED <<autoAck, calls, verdicts>>
    BY <1>9 DEF BrokerSettles
  <2> HIDE DEF m
  <2>3. status[m] = "pending"
    BY <2>1 DEF StatusOf
  <2>4. CASE f.kind = "ack"
    <3>1. status' = [status EXCEPT ![m] = "done"]
      BY <1>0, <2>1, <2>2, <2>4, StatusMoves DEF StatusOf
    <3>2. Contract!Complete(m)
      BY <2>1, <2>2, <2>3, <2>4, <3>1, Zenon DEF Contract!Complete
    <3> QED
      BY <2>1, <3>2, Zenon DEF Contract!Next
  <2>5. CASE f.kind = "nack"
    <3>1. status' = [status EXCEPT ![m] = "dead"]
      BY <1>0, <2>1, <2>2, <2>5, StatusMoves DEF StatusOf
    <3>2. Contract!Reject(m)
      BY <2>1, <2>2, <2>3, <2>5, <3>1, Zenon DEF Contract!Reject
    <3> QED
      BY <2>1, <3>2, Zenon DEF Contract!Next
  <2> QED
    BY <2>1, <2>4, <2>5
<1>10. ASSUME NEW S \in SUBSET OpenChans, Ends(S) PROVE UNCHANGED Contract!contractVars
  <2>1. S \in SUBSET Chans
    BY DEF OpenChans
  <2> QED
    BY <1>5, <1>10, <1>s, <2>1 DEF Ends
<1> QED
  BY CoreStep, <1>1, <1>2, <1>3, <1>4, <1>6, <1>7, <1>8, <1>9, <1>10, <1>s, Zenon DEF coreVars

\* The system keeps the contract of MessageHandler for any sets of messages,
\* channels and connections: without auto_ack a message leaves the queue only by
\* the handler's verdict, with auto_ack it is handled at most once.
THEOREM DeliveryKeepsContract == Safety => ImplementsContract
<1>1. Init => Contract!Init
  BY DEF Init, Contract!Init, StatusOf
<1> QED
  BY <1>1, ContractStep, DeliveryInvariant, PTL DEF Safety, ImplementsContract, Contract!Spec

=============================================================================
