--------------------------- MODULE AmqpConnection ---------------------------
(***************************************************************************)
(* External: the connections of the amqp091-go library, as far as          *)
(* client.go and managers.go rely on them.  A connection is dialled once,  *)
(* and ends either because the broker or the network closed it ("lost") or *)
(* because the client called Close ("closed").  Each connection carries at *)
(* most one close-notification channel, registered with NotifyClose:       *)
(*   "armed"  open and empty                                               *)
(*   "err"    holds the *amqp.Error of an abnormal close                   *)
(*   "shut"   closed without an error                                      *)
(***************************************************************************)
CONSTANTS Conns,    \* the connections that can be dialled
          NoConn    \* the nil *amqp.Connection

ASSUME ConnAssumption == NoConn \notin Conns

VARIABLES connState,  \* "none" (not dialled), "open", "lost" or "closed"
          notify      \* the registered close-notification channel, or "none"

amqpVars == <<connState, notify>>

AmqpTypeOK ==
    /\ connState \in [Conns -> {"none", "open", "lost", "closed"}]
    /\ notify \in [Conns -> {"none", "armed", "err", "shut"}]

AmqpInit ==
    /\ connState = [c \in Conns |-> "none"]
    /\ notify = [c \in Conns |-> "none"]

\* (*amqp.Connection).IsClosed is the negation of this.
IsOpen(c) == c # NoConn /\ connState[c] = "open"

\* One element of S, if there is one: things that are not in use yet are alike,
\* so that it is of no consequence which of them is used next.
Fresh(S) == {x \in S : x = CHOOSE y \in S : TRUE}

\* amqp.DialConfig succeeds with the fresh connection c.
DialConfig(c) ==
    /\ connState[c] = "none"
    /\ connState' = [connState EXCEPT ![c] = "open"]
    /\ UNCHANGED notify

\* NotifyClose registers a channel on c.  A connection that has already ended
\* closes the channel at once; one that is being torn down at this moment may
\* still deliver its error.
NotifyClose(c) ==
    /\ notify' \in {[notify EXCEPT ![c] = n] :
                      n \in CASE connState[c] = "open" -> {"armed"}
                              [] connState[c] = "lost" -> {"err", "shut"}
                              [] OTHER -> {"shut"}}
    /\ UNCHANGED connState

\* The broker or the network ends c with an error.
BrokerDrop(c) ==
    /\ connState[c] = "open"
    /\ connState' = [connState EXCEPT ![c] = "lost"]
    /\ notify' = [notify EXCEPT ![c] = IF @ = "armed" THEN "err" ELSE @]

\* The client's own Close of the open connection c.
CloseConn(c) ==
    /\ connState[c] = "open"
    /\ connState' = [connState EXCEPT ![c] = "closed"]
    /\ notify' = [notify EXCEPT ![c] = IF @ = "armed" THEN "shut" ELSE @]

=============================================================================
