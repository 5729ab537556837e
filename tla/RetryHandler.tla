---------------------------- MODULE RetryHandler ----------------------------
(***************************************************************************)
(* The retry handler and the configuration it works from.  The plugin may  *)
(* be initialised again at any time, from any configuration the source     *)
(* yields; one call of DoWithRetry runs beside that, on the plugin's       *)
(* handler or on one built by a caller with NewRetryHandler, and its       *)
(* context may be cancelled at any time.  Calls share nothing but the      *)
(* configuration, which they only read, so that one call is enough.        *)
(***************************************************************************)
EXTENDS Config

CONSTANTS
    RawConfigs,  \* what the configuration source may yield
    Direct,      \* configurations callers give to NewRetryHandler themselves
    Cap          \* the ceiling of the back-off, 30s

\* A caller's own handler needs a first producer that is not nil, if any.
ASSUME RetryAssumption ==
    /\ Cap \in Nat \ {0}
    /\ RawConfigs \subseteq RabbitMQ
    /\ Direct \subseteq {cfg \in RabbitMQ :
                            cfg.Producers # <<>> => cfg.Producers[1] # Nil}

VARIABLES
    config,      \* the configuration r.retryHandler holds, Nil while there is none
    ctxDone,     \* the context of the call is cancelled
    pc,          \* where DoWithRetry is
    maxRetries, first, backoff, attempt,  \* its locals; first is backoffTime
    result,      \* what it returned
    began,       \* operations begun so far
    late,        \* operations begun after the cancellation
    slept        \* the back-offs begun so far, in order

call == <<maxRetries, first>>
history == <<began, late, slept>>
vars == <<config, ctxDone, pc, call, backoff, attempt, result, history>>

Init ==
    /\ config = Nil
    /\ ctxDone = FALSE
    /\ pc = "idle"
    /\ maxRetries = 0 /\ first = 0 /\ backoff = 0 /\ attempt = 0
    /\ result = "none"
    /\ began = 0 /\ late = 0 /\ slept = <<>>

\* Mutant: r.config is set before it is checked and normalised.
InitializeResourcesEarly(raw) ==
    /\ config' = IF ConfigInvalid(raw) THEN raw ELSE NormalConfig(raw)
    /\ UNCHANGED <<ctxDone, pc, call, backoff, attempt, result, history>>

\* The checks and the normalisation run on a local configuration; r.config
\* and r.retryHandler, built from it, are replaced only once they have succeeded.
InitializeResources(raw) ==
    /\ config' = IF ConfigInvalid(raw) THEN config ELSE NormalConfig(raw)
    /\ UNCHANGED <<ctxDone, pc, call, backoff, attempt, result, history>>

Cancel ==
    /\ ~ctxDone
    /\ ctxDone' = TRUE
    /\ UNCHANGED <<config, pc, call, backoff, attempt, result, history>>

\* The first producer's settings, enabled or not, replace the defaults.
DoWithRetry(cfg) ==
    /\ pc = "idle"
    /\ LET own == cfg.Producers # <<>> IN
       /\ maxRetries' = IF own THEN cfg.Producers[1].MaxRetries
                               ELSE defaultMaxRetries
       /\ first' = IF own /\ cfg.Producers[1].RetryBackoff # Nil
                   THEN cfg.Producers[1].RetryBackoff ELSE defaultRetryBackoff
    /\ backoff' = first'
    /\ pc' = "loop"
    /\ UNCHANGED <<config, ctxDone, attempt, result, history>>

Return(r) == pc' = "returned" /\ result' = r

\* Mutant: the loop runs maxRetries times in all.
AttemptOneLess ==
    /\ pc = "loop"
    /\ \/ attempt >= maxRetries /\ Return("exceeded")
       \/ attempt < maxRetries /\ ctxDone /\ Return("cancelled")
       \/ attempt < maxRetries /\ ~ctxDone /\ pc' = "call" /\ UNCHANGED result
    /\ UNCHANGED <<config, ctxDone, call, backoff, attempt, history>>

\* Mutant: the context is looked at during the back-off only.
AttemptUnchecked ==
    /\ pc = "loop"
    /\ \/ attempt > maxRetries /\ Return("exceeded")
       \/ attempt <= maxRetries /\ pc' = "call" /\ UNCHANGED result
    /\ UNCHANGED <<config, ctxDone, call, backoff, attempt, history>>

\* The head of the loop and the check of the context.
Attempt ==
    /\ pc = "loop"
    /\ \/ attempt > maxRetries /\ Return("exceeded")
       \/ attempt <= maxRetries /\ ctxDone /\ Return("cancelled")
       \/ attempt <= maxRetries /\ ~ctxDone /\ pc' = "call" /\ UNCHANGED result
    /\ UNCHANGED <<config, ctxDone, call, backoff, attempt, history>>

\* The context may be cancelled between the check and this step.
BeginOperation ==
    /\ pc = "call"
    /\ pc' = "operation"
    /\ began' = began + 1
    /\ late' = late + (IF ctxDone THEN 1 ELSE 0)
    /\ UNCHANGED <<config, ctxDone, call, backoff, attempt, result, slept>>

EndOperation(err) ==
    /\ pc = "operation"
    /\ \/ ~err /\ Return("nil") /\ UNCHANGED slept
       \/ err /\ attempt = maxRetries /\ Return("exceeded") /\ UNCHANGED slept
       \/ /\ err /\ attempt # maxRetries
          /\ pc' = "sleep"
          /\ slept' = Append(slept, backoff)
          /\ UNCHANGED result
    /\ UNCHANGED <<config, ctxDone, call, backoff, attempt, began, late>>

\* Mutant: the arm breaks out of the select and not out of the loop.
SleepCancelledBreaks ==
    /\ pc = "sleep"
    /\ ctxDone
    /\ pc' = "loop" /\ result' = "cancelled"
    /\ UNCHANGED <<config, ctxDone, call, backoff, attempt, history>>

\* Mutant: a plain time.Sleep.
SleepUninterrupted ==
    /\ pc = "sleep"
    /\ FALSE
    /\ UNCHANGED vars

\* The two arms of the select.  When both are ready either is taken.
SleepCancelled ==
    /\ pc = "sleep"
    /\ ctxDone
    /\ Return("cancelled")
    /\ UNCHANGED <<config, ctxDone, call, backoff, attempt, history>>

\* Mutant: the ceiling is tested before the doubling.
TimerFiresCapFirst ==
    /\ pc = "sleep"
    /\ pc' = "loop"
    /\ attempt' = attempt + 1
    /\ backoff' = IF backoff > Cap THEN Cap ELSE 2 * backoff
    /\ UNCHANGED <<config, ctxDone, call, result, history>>

TimerFires ==
    /\ pc = "sleep"
    /\ pc' = "loop"
    /\ attempt' = attempt + 1
    /\ backoff' = IF 2 * backoff > Cap THEN Cap ELSE 2 * backoff
    /\ UNCHANGED <<config, ctxDone, call, result, history>>

Caller ==
    \/ Attempt
    \/ BeginOperation
    \/ \E err \in BOOLEAN : EndOperation(err)
    \/ SleepCancelled

Next ==
    \/ \E raw \in RawConfigs \cup {defaultRabbitMQConfig} : InitializeResources(raw)
    \/ \E cfg \in Direct \cup ({config} \ {Nil}) : DoWithRetry(cfg)
    \/ Cancel
    \/ Caller
    \/ TimerFires

\* The goroutine of the call runs on and its operation ends.  No back-off is
\* assumed to be over in the time the property is about.
Spec == Init /\ [][Next]_vars /\ WF_vars(Caller)

-----------------------------------------------------------------------------

\* Type correctness of the call's state, and that a result is set by the steps
\* that return and by no other.
RetryTypeOK ==
    /\ ctxDone \in BOOLEAN
    /\ pc \in {"idle", "loop", "call", "operation", "sleep", "returned"}
    /\ maxRetries \in Int /\ first \in Int /\ backoff \in Int
    /\ attempt \in Nat /\ began \in Nat /\ late \in Nat
    /\ slept \in Seq(Int)
    /\ result \in {"none", "nil", "cancelled", "exceeded"}
    /\ (result = "none") <=> (pc # "returned")

\* DoWithRetry (managers.go:337) "executes operation up to maxRetries+1 times":
\* never more, and a call that gives up has made all of them, with a back-off
\* between any two and none after the last.  A negative number of retries, which
\* only a handler built around normalizeRabbitMQConfig can have, makes none.
AttemptsAccounted ==
    LET allowed == IF maxRetries < 0 THEN 0 ELSE maxRetries + 1 IN
    /\ began <= allowed
    /\ result = "exceeded" => /\ began = allowed
                              /\ Len(slept) = (IF allowed = 0 THEN 0 ELSE allowed - 1)
    /\ result = "nil" => began = Len(slept) + 1

\* The powers of two.
Pow2[n \in Nat] == IF n = 0 THEN 1 ELSE 2 * Pow2[n - 1]

\* The k-th back-off in the closed form of capped exponential back-off, except
\* that the first one is never cut (managers.go:381): a configured back-off
\* above 30s is slept in full once.
Scheduled(k) ==
    IF k = 1 \/ first * Pow2[k - 1] <= Cap THEN first * Pow2[k - 1] ELSE Cap

\* The doubling from attempt to attempt yields that schedule: each back-off is
\* the scheduled one.
BackoffSchedule == \A k \in DOMAIN slept : slept[k] = Scheduled(k)

\* Every back-off is a real one (positive, so that the retries do not spin)
\* when the configured one is, and no longer than the ceiling or the first.
BackoffBounded ==
    first > 0 => \A k \in DOMAIN slept : /\ slept[k] > 0
                                         /\ slept[k] <= first \/ slept[k] <= Cap

\* The check of the context and the call of the operation are two steps, and a
\* back-off whose timer has fired goes on although the context is cancelled
\* (select picks either arm).  Still at most one operation begins after the
\* cancellation: the check before the next attempt sees it.
LateOperations == late <= 1

\* cfg is one that dial, the loops over the enabled producers and consumers, and
\* DoWithRetry can work with: no nil entry, a URL, positive durations and sizes,
\* at least one retry; and normalising it again changes nothing.
Usable(cfg) ==
    /\ ~ConfigInvalid(cfg)
    /\ NormalConfig(cfg) = cfg
    /\ cfg.Urls # <<>>
    /\ cfg.DialTimeout > 0 /\ cfg.Heartbeat > 0
    /\ \A i \in DOMAIN cfg.Producers :
           LET p == cfg.Producers[i] IN
           /\ p.ExchangeType \in ExchangeTypes
           /\ p.MaxRetries > 0 /\ p.RetryBackoff > 0 /\ p.PublishTimeout > 0
    /\ \A i \in DOMAIN cfg.Consumers :
           cfg.Consumers[i].MaxConcurrency > 0 /\ cfg.Consumers[i].PrefetchCount > 0

\* Whatever the source yields and however often the plugin is initialised, with
\* or without success, the configuration it holds is a usable one.
ConfigUsable == config # Nil => Usable(config)

\* Once the context is cancelled the call returns, without waiting for the
\* back-off it may be in to run out.
CancelReturns == (ctxDone /\ pc # "idle") ~> (pc = "returned")

=============================================================================
