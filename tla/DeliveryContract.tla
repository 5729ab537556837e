-------------------------- MODULE DeliveryContract --------------------------
(***************************************************************************)
(* What a subscription promises about messages, whatever happens to        *)
(* connections, channels and goroutines: interfaces.go on MessageHandler   *)
(* and README.md on the consumer ("acks on a nil return and nacks on a     *)
(* non-nil error, unless the consumer has auto_ack enabled").              *)
(*                                                                         *)
(* Without auto_ack a message leaves the queue only by a verdict of the    *)
(* handler, and may be handled more than once (at least once).  With       *)
(* auto_ack it leaves the queue when it is handed out, and is handled at   *)
(* most once.                                                              *)
(***************************************************************************)
EXTENDS Naturals

CONSTANT Msgs

VARIABLES autoAck,   \* the consumer's auto_ack
          status,    \* "new", "pending" (on the queue), "done" or "dead"
          calls,     \* how often the handler has been called with a message
          verdicts   \* the verdicts the handler has given on a message

contractVars == <<autoAck, status, calls, verdicts>>

Init ==
    /\ autoAck \in BOOLEAN
    /\ status \in [Msgs -> {"new", "pending"}]
    /\ calls = [m \in Msgs |-> 0]
    /\ verdicts = [m \in Msgs |-> {}]

Accept(m) ==
    /\ status[m] = "new"
    /\ status' = [status EXCEPT ![m] = "pending"]
    /\ UNCHANGED <<autoAck, calls, verdicts>>

Call(m) ==
    /\ status[m] # "new"
    /\ autoAck => status[m] = "done" /\ calls[m] = 0
    /\ calls' = [calls EXCEPT ![m] = @ + 1]
    /\ UNCHANGED <<autoAck, status, verdicts>>

\* A call has returned: there are never more verdicts than calls.
Judge(m, v) ==
    /\ calls[m] > 0
    /\ verdicts' = [verdicts EXCEPT ![m] = @ \cup {v}]
    /\ UNCHANGED <<autoAck, status, calls>>

Complete(m) ==
    /\ status[m] = "pending"
    /\ autoAck \/ "ok" \in verdicts[m]
    /\ status' = [status EXCEPT ![m] = "done"]
    /\ UNCHANGED <<autoAck, calls, verdicts>>

Reject(m) ==
    /\ status[m] = "pending"
    /\ ~autoAck /\ "err" \in verdicts[m]
    /\ status' = [status EXCEPT ![m] = "dead"]
    /\ UNCHANGED <<autoAck, calls, verdicts>>

Next == \E m \in Msgs : \/ Accept(m) \/ Call(m) \/ Complete(m) \/ Reject(m)
                        \/ \E v \in {"ok", "err"} : Judge(m, v)

Spec == Init /\ [][Next]_contractVars

=============================================================================
