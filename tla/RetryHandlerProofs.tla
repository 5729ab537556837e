------------------------- MODULE RetryHandlerProofs -------------------------
(***************************************************************************)
(* What DoWithRetry does for any configuration, any number of retries and  *)
(* any ceiling of the back-off, and what normalizeRabbitMQConfig leaves    *)
(* for any configuration the source may yield.                             *)
(***************************************************************************)
EXTENDS RetryHandler, SequenceTheorems, WellFoundedInduction, TLAPS

-----------------------------------------------------------------------------
(* Normalisation                                                           *)

\* A nil pointer is neither a duration nor a producer or a consumer.
LEMMA NilDistinct == Nil \notin Int /\ Nil \notin Producer /\ Nil \notin Consumer
BY ConfigAssumption, Zenon DEF ConfigAssumption

\* OrDuration yields a positive duration when its default is one, and keeps a
\* positive one.
LEMMA OrDurationPositive ==
    ASSUME NEW d \in Duration, NEW default \in Nat \ {0}
    PROVE  /\ OrDuration(d, default) \in Int
           /\ OrDuration(d, default) > 0
           /\ OrDuration(OrDuration(d, default), default) = OrDuration(d, default)
<1> DEFINE e == IF d = Nil THEN default ELSE OrPositive(d, default)
<1>1. e \in Int /\ e > 0
  <2>1. CASE d = Nil
    BY <2>1
  <2>2. CASE d # Nil
    <3>1. d \in Int
      BY <2>2 DEF Duration
    <3> QED
      BY <2>2, <3>1 DEF OrPositive
  <2> QED
    BY <2>1, <2>2
<1>2. OrDuration(d, default) = e
  BY DEF OrDuration
<1> HIDE DEF e
<1>3. OrDuration(e, default) = e
  BY <1>1, NilDistinct DEF OrDuration, OrPositive
<1> QED
  BY <1>1, <1>2, <1>3

\* The defaults for strings: a string is kept unless it is empty.
LEMMA OrDefaultKeeps ==
    ASSUME NEW s \in Strings, NEW default \in Strings
    PROVE  /\ OrDefault(s, default) \in Strings
           /\ OrDefault(OrDefault(s, default), default) = OrDefault(s, default)
<1>1. CASE s = ""
  <2>1. OrDefault(s, default) = default
    BY <1>1, Zenon DEF OrDefault
  <2>2. OrDefault(default, default) = default
    BY Zenon DEF OrDefault
  <2> QED
    BY <2>1, <2>2, Zenon
<1>2. CASE s # ""
  <2>1. OrDefault(s, default) = s
    BY <1>2, Zenon DEF OrDefault
  <2> QED
    BY <2>1, Zenon
<1> QED
  BY <1>1, <1>2, Zenon

\* A producer the loop of normalizeRabbitMQConfig accepts is left usable, and
\* as it is by a second pass.
LEMMA NormalProducerUsable ==
    ASSUME NEW p \in Producer, ~ProducerInvalid(p)
    PROVE  LET q == NormalProducer(p) IN
           /\ q \in Producer
           /\ ~ProducerInvalid(q)
           /\ NormalProducer(q) = q
           /\ q.ExchangeType \in ExchangeTypes
           /\ q.MaxRetries > 0 /\ q.RetryBackoff > 0 /\ q.PublishTimeout > 0
<1> DEFINE q == NormalProducer(p)
           t == OrDuration(p.PublishTimeout, defaultTimeout)
           b == OrDuration(p.RetryBackoff, defaultRetryBackoff)
           n == IF p.MaxRetries = 0 THEN defaultMaxRetries ELSE p.MaxRetries
           x == OrDefault(p.Exchange, "lynx.exchange")
           y == OrDefault(p.ExchangeType, "direct")
<1>1. q = [Name |-> p.Name, Enabled |-> p.Enabled, Exchange |-> x, ExchangeType |-> y,
           PublishTimeout |-> t, MaxRetries |-> n, RetryBackoff |-> b]
  BY DEF NormalProducer
<1>2. /\ p.Name \in Strings /\ p.Enabled \in BOOLEAN /\ p.Exchange \in Strings
      /\ p.ExchangeType \in Strings /\ p.PublishTimeout \in Duration
      /\ p.MaxRetries \in Int /\ p.RetryBackoff \in Duration
  BY DEF Producer
<1>3. /\ ~(p.Enabled /\ p.Name = "") /\ p.ExchangeType \in ExchangeTypes \cup {""}
      /\ ~(p.MaxRetries < 0)
  BY Zenon DEF ProducerInvalid
<1>4. /\ t \in Int /\ t > 0 /\ OrDuration(t, defaultTimeout) = t
      /\ b \in Int /\ b > 0 /\ OrDuration(b, defaultRetryBackoff) = b
  BY <1>2, OrDurationPositive DEF defaultTimeout, defaultRetryBackoff
<1>5. n \in Int /\ n > 0
  <2>1. \A m \in Int : ~(m < 0) => (IF m = 0 THEN 3 ELSE m) \in Int
                                  /\ (IF m = 0 THEN 3 ELSE m) > 0
    OBVIOUS
  <2> QED
    BY <1>2, <1>3, <2>1, Zenon DEF defaultMaxRetries
<1>6. x \in Strings /\ OrDefault(x, "lynx.exchange") = x
  <2>1. "lynx.exchange" \in Strings
    BY ConfigAssumption, Zenon DEF ConfigAssumption
  <2> QED
    BY <1>2, <2>1, OrDefaultKeeps, Zenon
<1>7. y \in ExchangeTypes /\ y \in Strings /\ OrDefault(y, "direct") = y
  <2>1. "direct" \in Strings /\ "direct" \in ExchangeTypes
    BY ConfigAssumption, Zenon DEF ConfigAssumption, ExchangeTypes
  <2>2. y \in ExchangeTypes
    BY <1>3, <2>1, Zenon DEF OrDefault
  <2> QED
    BY <1>2, <2>1, <2>2, OrDefaultKeeps, Zenon
<1> HIDE DEF q, t, b, n, x, y
<1>8. q \in Producer
  BY <1>1, <1>2, <1>4, <1>5, <1>6, <1>7, Zenon DEF Producer, Duration
<1>9. ~ProducerInvalid(q)
  <2>1. q # Nil
    BY <1>8, NilDistinct
  <2>2. ~(q.Enabled /\ q.Name = "")
    BY <1>1, <1>3, Zenon
  <2>3. q.ExchangeType \in ExchangeTypes \cup {""}
    BY <1>1, <1>7, Zenon
  <2>4. ~(n < 0)
    BY <1>5
  <2>5. ~(q.MaxRetries < 0)
    BY <1>1, <2>4, Zenon
  <2> QED
    BY <2>1, <2>2, <2>3, <2>5, Zenon DEF ProducerInvalid
<1>10. NormalProducer(q) = q
  <2>1. (IF n = 0 THEN defaultMaxRetries ELSE n) = n
    BY <1>5
  <2> QED
    BY <1>1, <1>4, <1>6, <1>7, <2>1, Zenon DEF NormalProducer
<1>11. /\ q.ExchangeType \in ExchangeTypes
       /\ q.MaxRetries > 0 /\ q.RetryBackoff > 0 /\ q.PublishTimeout > 0
  BY <1>1, <1>4, <1>5, <1>7
<1> QED
  BY <1>8, <1>9, <1>10, <1>11, Zenon DEF q

\* The same of a consumer.
LEMMA NormalConsumerUsable ==
    ASSUME NEW c \in Consumer, ~ConsumerInvalid(c)
    PROVE  LET d == NormalConsumer(c) IN
           /\ d \in Consumer
           /\ ~ConsumerInvalid(d)
           /\ NormalConsumer(d) = d
           /\ d.MaxConcurrency > 0 /\ d.PrefetchCount > 0
<1> DEFINE d == NormalConsumer(c)
           q == OrDefault(c.Queue, "lynx.queue")
           t == OrDefault(c.ConsumerTag, "lynx.consumer")
           m == OrPositive(c.MaxConcurrency, 1)
           f == OrPositive(c.PrefetchCount, 1)
<1>1. d = [Name |-> c.Name, Enabled |-> c.Enabled, Queue |-> q, ConsumerTag |-> t,
           MaxConcurrency |-> m, PrefetchCount |-> f]
  BY DEF NormalConsumer
<1>2. /\ c.Name \in Strings /\ c.Enabled \in BOOLEAN /\ c.Queue \in Strings
      /\ c.ConsumerTag \in Strings /\ c.MaxConcurrency \in Int /\ c.PrefetchCount \in Int
  BY DEF Consumer
<1>3. ~(c.Enabled /\ c.Name = "")
  BY Zenon DEF ConsumerInvalid
<1>4. \A n \in Int : /\ OrPositive(n, 1) \in Int /\ OrPositive(n, 1) > 0
                     /\ OrPositive(OrPositive(n, 1), 1) = OrPositive(n, 1)
  BY DEF OrPositive
<1>5. /\ m \in Int /\ m > 0 /\ OrPositive(m, 1) = m
      /\ f \in Int /\ f > 0 /\ OrPositive(f, 1) = f
  BY <1>2, <1>4, Zenon
<1>6. "lynx.queue" \in Strings /\ "lynx.consumer" \in Strings
  BY ConfigAssumption, Zenon DEF ConfigAssumption
<1>7. /\ q \in Strings /\ OrDefault(q, "lynx.queue") = q
      /\ t \in Strings /\ OrDefault(t, "lynx.consumer") = t
  BY <1>2, <1>6, OrDefaultKeeps, Zenon
<1> HIDE DEF d, q, t, m, f
<1>8. d \in Consumer
  BY <1>1, <1>2, <1>5, <1>7, Zenon DEF Consumer
<1>9. ~ConsumerInvalid(d)
  BY <1>1, <1>3, <1>8, NilDistinct, Zenon DEF ConsumerInvalid
<1>10. NormalConsumer(d) = d
  BY <1>1, <1>5, <1>7, Zenon DEF NormalConsumer
<1>11. d.MaxConcurrency > 0 /\ d.PrefetchCount > 0
  BY <1>1, <1>5
<1> QED
  BY <1>8, <1>9, <1>10, <1>11, Zenon DEF d

\* Every configuration normalizeRabbitMQConfig accepts is left usable.
LEMMA NormalConfigUsable ==
    ASSUME NEW raw \in RabbitMQ, ~ConfigInvalid(raw)
    PROVE  NormalConfig(raw) \in RabbitMQ /\ Usable(NormalConfig(raw))
<1> DEFINE cfg == NormalConfig(raw)
           u == IF raw.Urls = <<>> THEN <<"amqp://localhost:5672/">> ELSE raw.Urls
           v == OrDefault(raw.VirtualHost, "/")
           t == OrDuration(raw.DialTimeout, defaultTimeout)
           h == OrDuration(raw.Heartbeat, defaultHeartbeat)
           n == OrPositive(raw.ChannelPoolSize, 10)
           P == [i \in DOMAIN raw.Producers |-> NormalProducer(raw.Producers[i])]
           K == [i \in DOMAIN raw.Consumers |-> NormalConsumer(raw.Consumers[i])]
<1>1. cfg = [Urls |-> u, VirtualHost |-> v, DialTimeout |-> t, Heartbeat |-> h,
             ChannelPoolSize |-> n, Producers |-> P, Consumers |-> K]
  BY DEF NormalConfig, defaultRabbitMQConfig
<1>2. /\ raw.Urls \in Seq(Strings) /\ raw.VirtualHost \in Strings
      /\ raw.DialTimeout \in Duration /\ raw.Heartbeat \in Duration
      /\ raw.ChannelPoolSize \in Int
      /\ raw.Producers \in Seq({Nil} \cup Producer)
      /\ raw.Consumers \in Seq({Nil} \cup Consumer)
  BY DEF RabbitMQ
<1>3. /\ \A i \in DOMAIN raw.Urls : raw.Urls[i] # ""
      /\ \A i \in DOMAIN raw.Producers : ~ProducerInvalid(raw.Producers[i])
      /\ \A i \in DOMAIN raw.Consumers : ~ConsumerInvalid(raw.Consumers[i])
  BY Zenon DEF ConfigInvalid
<1>4. /\ "amqp://localhost:5672/" \in Strings /\ "amqp://localhost:5672/" # ""
      /\ "/" \in Strings
  BY ConfigAssumption DEF ConfigAssumption
<1>5. u \in Seq(Strings) /\ u # <<>> /\ \A i \in DOMAIN u : u[i] # ""
  <2>1. CASE raw.Urls = <<>>
    <3>1. u = <<"amqp://localhost:5672/">>
      BY <2>1
    <3>2. /\ \A s \in Strings : <<s>> \in Seq(Strings) /\ <<s>> # <<>>
          /\ \A s \in Strings : DOMAIN <<s>> = {1} /\ <<s>>[1] = s
      OBVIOUS
    <3> QED
      BY <1>4, <3>1, <3>2, Zenon
  <2>2. CASE raw.Urls # <<>>
    BY <2>2, <1>2, <1>3, Zenon
  <2> QED
    BY <2>1, <2>2
<1>6. v \in Strings /\ OrDefault(v, "/") = v
  BY <1>2, <1>4, OrDefaultKeeps, Zenon
<1>7. /\ t \in Int /\ t > 0 /\ OrDuration(t, defaultTimeout) = t
      /\ h \in Int /\ h > 0 /\ OrDuration(h, defaultHeartbeat) = h
  <2>1. defaultTimeout \in Nat \ {0} /\ defaultHeartbeat \in Nat \ {0}
    BY DEF defaultTimeout, defaultHeartbeat
  <2> QED
    BY <1>2, <2>1, OrDurationPositive, Zenon
<1>8. n \in Int /\ OrPositive(n, 10) = n
  <2>1. \A k \in Int : /\ OrPositive(k, 10) \in Int
                       /\ OrPositive(OrPositive(k, 10), 10) = OrPositive(k, 10)
    BY DEF OrPositive
  <2> QED
    BY <1>2, <2>1, Zenon
<1> HIDE DEF u, v, t, h, n
<1>9. /\ P \in Seq({Nil} \cup Producer)
      /\ \A i \in DOMAIN P : /\ ~ProducerInvalid(P[i])
                             /\ NormalProducer(P[i]) = P[i]
                             /\ P[i].ExchangeType \in ExchangeTypes
                             /\ P[i].MaxRetries > 0 /\ P[i].RetryBackoff > 0
                             /\ P[i].PublishTimeout > 0
  <2>1. \A i \in DOMAIN raw.Producers : raw.Producers[i] \in Producer
    <3> TAKE i \in DOMAIN raw.Producers
    <3>1. raw.Producers[i] \in {Nil} \cup Producer
      BY <1>2
    <3> QED
      BY <1>3, <3>1, Zenon DEF ProducerInvalid
  <2>2. \A i \in DOMAIN raw.Producers : P[i] = NormalProducer(raw.Producers[i])
    BY Zenon
  <2>3. DOMAIN P = DOMAIN raw.Producers
    BY Zenon
  <2>4. \A i \in DOMAIN P : P[i] \in Producer
    BY <1>3, <2>1, <2>2, <2>3, NormalProducerUsable, Zenon
  <2>5. P \in Seq({Nil} \cup Producer)
    <3>1. DOMAIN raw.Producers = 1 .. Len(raw.Producers) /\ Len(raw.Producers) \in Nat
      BY <1>2
    <3> HIDE DEF P
    <3>2. P = [i \in DOMAIN P |-> P[i]]
      BY Zenon DEF P
    <3>3. P \in [1 .. Len(raw.Producers) -> {Nil} \cup Producer]
      BY <2>3, <2>4, <3>1, <3>2, Zenon
    <3> QED
      BY <3>1, <3>3, SeqDef, Zenon
  <2> QED
    BY <1>3, <2>1, <2>2, <2>3, <2>5, NormalProducerUsable, Zenon
<1>10. /\ K \in Seq({Nil} \cup Consumer)
       /\ \A i \in DOMAIN K : /\ ~ConsumerInvalid(K[i])
                              /\ NormalConsumer(K[i]) = K[i]
                              /\ K[i].MaxConcurrency > 0 /\ K[i].PrefetchCount > 0
  <2>1. \A i \in DOMAIN raw.Consumers : raw.Consumers[i] \in Consumer
    <3> TAKE i \in DOMAIN raw.Consumers
    <3>1. raw.Consumers[i] \in {Nil} \cup Consumer
      BY <1>2
    <3> QED
      BY <1>3, <3>1, Zenon DEF ConsumerInvalid
  <2>2. \A i \in DOMAIN raw.Consumers : K[i] = NormalConsumer(raw.Consumers[i])
    BY Zenon
  <2>3. DOMAIN K = DOMAIN raw.Consumers
    BY Zenon
  <2>4. \A i \in DOMAIN K : K[i] \in Consumer
    BY <1>3, <2>1, <2>2, <2>3, NormalConsumerUsable, Zenon
  <2>5. K \in Seq({Nil} \cup Consumer)
    <3>1. DOMAIN raw.Consumers = 1 .. Len(raw.Consumers) /\ Len(raw.Consumers) \in Nat
      BY <1>2
    <3> HIDE DEF K
    <3>2. K = [i \in DOMAIN K |-> K[i]]
      BY Zenon DEF K
    <3>3. K \in [1 .. Len(raw.Consumers) -> {Nil} \cup Consumer]
      BY <2>3, <2>4, <3>1, <3>2, Zenon
    <3> QED
      BY <3>1, <3>3, SeqDef, Zenon
  <2> QED
    BY <1>3, <2>1, <2>2, <2>3, <2>5, NormalConsumerUsable, Zenon
<1>11. [i \in DOMAIN P |-> NormalProducer(P[i])] = P
  <2>1. P = [i \in DOMAIN P |-> P[i]]
    BY Zenon
  <2> HIDE DEF P
  <2> QED
    BY <1>9, <2>1, Zenon
<1>12. [i \in DOMAIN K |-> NormalConsumer(K[i])] = K
  <2>1. K = [i \in DOMAIN K |-> K[i]]
    BY Zenon
  <2> HIDE DEF K
  <2> QED
    BY <1>10, <2>1, Zenon
<1> HIDE DEF P, K, cfg
<1>13. cfg \in RabbitMQ
  BY <1>1, <1>5, <1>6, <1>7, <1>8, <1>9, <1>10, Zenon DEF RabbitMQ, Duration
<1>14. NormalConfig(cfg) = cfg
  BY <1>1, <1>5, <1>6, <1>7, <1>8, <1>11, <1>12, Zenon DEF NormalConfig
<1>15. ~ConfigInvalid(cfg)
  BY <1>1, <1>5, <1>9, <1>10, Zenon DEF ConfigInvalid
<1>16. Usable(cfg)
  BY <1>1, <1>5, <1>7, <1>9, <1>10, <1>14, <1>15, Zenon DEF Usable
<1> QED
  BY <1>13, <1>16, Zenon DEF cfg

-----------------------------------------------------------------------------
(* The configuration                                                       *)

\* The default configuration has the type of a configuration.
LEMMA DefaultConfigTyped == defaultRabbitMQConfig \in RabbitMQ
<1>1. /\ "amqp://localhost:5672/" \in Strings /\ "/" \in Strings /\ "direct" \in Strings
      /\ "default-producer" \in Strings /\ "lynx.exchange" \in Strings
      /\ "default-consumer" \in Strings /\ "lynx.queue" \in Strings
      /\ "lynx.consumer" \in Strings
  BY ConfigAssumption, Zenon DEF ConfigAssumption, ExchangeTypes
<1>2. \A S : \A s \in S : <<s>> \in Seq(S)
  OBVIOUS
<1>3. 1 \in Int /\ 3 \in Int /\ 10 \in Int /\ 30 \in Int /\ 300 \in Int
  OBVIOUS
<1>4. defaultProducer \in Producer
  BY <1>1, <1>3, Zenon DEF defaultProducer, Producer, Duration, defaultTimeout,
     defaultRetryBackoff, defaultMaxRetries
<1>5. defaultConsumer \in Consumer
  BY <1>1, <1>3, Zenon DEF defaultConsumer, Consumer
<1>6. /\ <<defaultProducer>> \in Seq({Nil} \cup Producer)
      /\ <<defaultConsumer>> \in Seq({Nil} \cup Consumer)
      /\ <<"amqp://localhost:5672/">> \in Seq(Strings)
  BY <1>1, <1>2, <1>4, <1>5, Zenon
<1> QED
  BY <1>1, <1>3, <1>6, Zenon DEF defaultRabbitMQConfig, RabbitMQ, Duration, defaultTimeout,
     defaultHeartbeat

\* What the plugin holds is typed and usable.
ConfigInv == config # Nil => config \in RabbitMQ /\ Usable(config)

\* InitializeResources, the only step that changes the configuration, keeps it so.
THEOREM ConfigInvariant == Spec => []ConfigInv
<1>1. Init => ConfigInv
  BY DEF Init, ConfigInv
<1>2. ConfigInv /\ [Next]_vars => ConfigInv'
  <2> SUFFICES ASSUME ConfigInv, [Next]_vars PROVE ConfigInv'
    OBVIOUS
  <2>1. ASSUME NEW raw \in RawConfigs \cup {defaultRabbitMQConfig}, InitializeResources(raw)
        PROVE  ConfigInv'
    <3>1. raw \in RabbitMQ
      BY RetryAssumption, DefaultConfigTyped DEF RetryAssumption
    <3>2. CASE ConfigInvalid(raw)
      BY <2>1, <3>2, Zenon DEF InitializeResources, ConfigInv
    <3>3. CASE ~ConfigInvalid(raw)
      <4>1. config' = NormalConfig(raw)
        BY <2>1, <3>3, Zenon DEF InitializeResources
      <4> QED
        BY <3>1, <3>3, <4>1, NormalConfigUsable, Zenon DEF ConfigInv
    <3> QED
      BY <3>2, <3>3
  <2>2. CASE UNCHANGED config
    BY <2>2, Zenon DEF ConfigInv
  <2>3. (\E raw \in RawConfigs \cup {defaultRabbitMQConfig} : InitializeResources(raw))
        \/ UNCHANGED config
    BY Zenon DEF Next, vars, DoWithRetry, Cancel, Caller, Attempt, BeginOperation,
       EndOperation, SleepCancelled, TimerFires
  <2> QED
    BY <2>1, <2>2, <2>3
<1> QED
  BY <1>1, <1>2, PTL DEF Spec

\* However often the plugin is initialised, and from whatever configurations, it
\* holds none or one that the rest of the code can use: a configuration that is
\* refused leaves the former one in place.
THEOREM ConfigStaysUsable == Spec => []ConfigUsable
<1>1. ConfigInv => ConfigUsable
  BY DEF ConfigInv, ConfigUsable
<1> QED
  BY <1>1, ConfigInvariant, PTL

-----------------------------------------------------------------------------
(* The call                                                                *)

\* How many operations have begun and back-offs have been taken at each place of
\* the loop.
CountInv ==
    /\ pc = "idle" => attempt = 0 /\ began = 0 /\ slept = <<>>
    /\ pc \in {"call", "operation"} => attempt <= maxRetries
    /\ pc = "sleep" => attempt < maxRetries
    /\ pc = "loop" => attempt <= maxRetries \/ attempt = 0
    /\ pc \in {"loop", "call"} => began = attempt /\ Len(slept) = attempt
    /\ pc = "operation" => began = attempt + 1 /\ Len(slept) = attempt
    /\ pc = "sleep" => began = attempt + 1 /\ Len(slept) = attempt + 1
    /\ AttemptsAccounted

\* No operation has begun late as long as the context is open, nor when the check
\* has just found it so.
LateInv ==
    /\ ~ctxDone => late = 0
    /\ pc = "call" => late = 0
    /\ LateOperations

\* The next back-off is as good as those already taken.
BackoffInv ==
    /\ first > 0 /\ pc # "idle" => backoff > 0 /\ (backoff <= first \/ backoff <= Cap)
    /\ BackoffBounded
    /\ pc = "idle" => slept = <<>>

CallInv == RetryTypeOK /\ CountInv /\ LateInv /\ BackoffInv

\* The settings DoWithRetry reads are integers, for the plugin's own handler
\* because its configuration is a usable one.
LEMMA SettingsTyped ==
    ASSUME ConfigInv, NEW cfg \in Direct \cup ({config} \ {Nil}), DoWithRetry(cfg)
    PROVE  maxRetries' \in Int /\ first' \in Int
<1>1. cfg \in RabbitMQ
  BY RetryAssumption DEF RetryAssumption, ConfigInv
<1>2. CASE cfg.Producers = <<>>
  <2>1. defaultMaxRetries \in Int /\ defaultRetryBackoff \in Int
    BY DEF defaultMaxRetries, defaultRetryBackoff
  <2> QED
    BY <1>2, <2>1, Zenon DEF DoWithRetry
<1>3. CASE cfg.Producers # <<>>
  <2>1. cfg.Producers \in Seq({Nil} \cup Producer)
    BY <1>1 DEF RabbitMQ
  <2>2. 1 \in DOMAIN cfg.Producers /\ cfg.Producers[1] \in {Nil} \cup Producer
    BY <1>3, <2>1
  <2>3. cfg.Producers[1] # Nil
    <3>1. CASE cfg \in Direct
      BY <1>3, <3>1, RetryAssumption, Zenon DEF RetryAssumption
    <3>2. CASE cfg = config /\ config # Nil
      BY <2>2, <3>2, Zenon DEF ConfigInv, Usable, ConfigInvalid, ProducerInvalid
    <3> QED
      BY <3>1, <3>2
  <2> DEFINE p == cfg.Producers[1]
  <2>4. p \in Producer
    BY <2>2, <2>3, Zenon
  <2> HIDE DEF p
  <2>5. p.MaxRetries \in Int /\ p.RetryBackoff \in {Nil} \cup Int
    BY <2>4 DEF Producer, Duration
  <2>6. maxRetries' = p.MaxRetries
    BY <1>3, Zenon DEF DoWithRetry, p
  <2>7. first' = IF p.RetryBackoff # Nil THEN p.RetryBackoff ELSE defaultRetryBackoff
    BY <1>3, Zenon DEF DoWithRetry, p
  <2>8. defaultRetryBackoff \in Int
    BY DEF defaultRetryBackoff
  <2> QED
    BY <2>5, <2>6, <2>7, <2>8, Zenon
<1> QED
  BY <1>2, <1>3

\* Every step keeps the invariant of the call.
LEMMA CallInvPreserved == ConfigInv /\ CallInv /\ [Next]_vars => CallInv'
<1> SUFFICES ASSUME ConfigInv, CallInv, [Next]_vars PROVE CallInv'
  OBVIOUS
<1> USE RetryAssumption DEF RetryAssumption, CallInv, RetryTypeOK, CountInv, AttemptsAccounted,
        LateInv, LateOperations, BackoffInv, BackoffBounded, call, history, Return
<1>1. ASSUME NEW raw, InitializeResources(raw) PROVE CallInv'
  BY <1>1 DEF InitializeResources
<1>2. ASSUME NEW cfg \in Direct \cup ({config} \ {Nil}), DoWithRetry(cfg) PROVE CallInv'
  <2>1. maxRetries' \in Int /\ first' \in Int
    BY <1>2, SettingsTyped
  <2>2. /\ pc = "idle" /\ pc' = "loop" /\ backoff' = first'
        /\ UNCHANGED <<config, ctxDone, attempt, result, history>>
    BY <1>2, Zenon DEF DoWithRetry
  <2>3. DOMAIN slept' = {} /\ slept' = <<>> /\ attempt' = 0 /\ began' = 0 /\ result' = "none"
    BY <2>2
  <2>4. RetryTypeOK' /\ LateInv' /\ BackoffInv'
    BY <2>1, <2>2, <2>3
  <2>5. CountInv'
    <3>1. Len(slept') = 0 /\ pc' = "loop"
      BY <2>2, <2>3
    <3>2. AttemptsAccounted'
      <4>1. result' # "exceeded" /\ result' # "nil"
        BY <2>3
      <4>2. \A m \in Int : 0 <= (IF m < 0 THEN 0 ELSE m + 1)
        OBVIOUS
      <4> QED
        BY <2>1, <2>3, <4>1, <4>2, Zenon
    <3> QED
      BY <2>1, <2>3, <3>1, <3>2, Zenon
  <2> QED
    BY <2>4, <2>5
<1>3. CASE Cancel
  BY <1>3 DEF Cancel
<1>4. CASE Attempt
  BY <1>4 DEF Attempt
<1>5. CASE BeginOperation
  BY <1>5 DEF BeginOperation
<1>6. ASSUME NEW err \in BOOLEAN, EndOperation(err) PROVE CallInv'
  <2>1. UNCHANGED <<config, ctxDone, call, backoff, attempt, began, late>> /\ pc = "operation"
    BY <1>6 DEF EndOperation
  <2>2. CASE ~err /\ Return("nil") /\ UNCHANGED slept
    BY <2>1, <2>2
  <2>3. CASE err /\ attempt = maxRetries /\ Return("exceeded") /\ UNCHANGED slept
    BY <2>1, <2>3
  <2>4. CASE /\ attempt # maxRetries
             /\ pc' = "sleep"
             /\ slept' = Append(slept, backoff)
             /\ UNCHANGED result
    <3>1. /\ slept' \in Seq(Int) /\ Len(slept') = Len(slept) + 1
          /\ DOMAIN slept' = 1 .. Len(slept) + 1
          /\ \A k \in 1 .. Len(slept) : slept'[k] = slept[k]
          /\ slept'[Len(slept) + 1] = backoff
      BY <2>4
    <3>2. RetryTypeOK' /\ LateInv' /\ CountInv'
      BY <2>1, <2>4, <3>1
    <3>3. BackoffInv'
      BY <2>1, <2>4, <3>1
    <3> QED
      BY <3>2, <3>3
  <2> QED
    BY <1>6, <2>2, <2>3, <2>4 DEF EndOperation
<1>7. CASE SleepCancelled
  BY <1>7 DEF SleepCancelled
<1>8. CASE TimerFires
  BY <1>8 DEF TimerFires
<1>9. CASE UNCHANGED vars
  BY <1>9 DEF vars
<1> QED
  BY <1>1, <1>2, <1>3, <1>4, <1>5, <1>6, <1>7, <1>8, <1>9 DEF Next, Caller

\* In every behaviour of the plugin.
THEOREM CallInvariant == Spec => []CallInv
<1>1. Init => CallInv
  <2> SUFFICES ASSUME Init PROVE CallInv
    OBVIOUS
  <2>1. slept \in Seq(Int) /\ Len(slept) = 0 /\ DOMAIN slept = {}
    BY DEF Init
  <2>2. RetryTypeOK /\ LateInv
    <3>1. 0 \in Nat /\ 0 \in Int /\ 0 <= 1
      OBVIOUS
    <3> QED
      BY <2>1, <3>1, Zenon DEF Init, RetryTypeOK, LateInv, LateOperations
  <2>3. AttemptsAccounted
    BY DEF Init, AttemptsAccounted
  <2>4. CountInv
    BY <2>3, Zenon DEF Init, CountInv
  <2>5. BackoffInv
    BY <2>1, Zenon DEF Init, BackoffInv, BackoffBounded
  <2> QED
    BY <2>2, <2>4, <2>5 DEF CallInv
<1> QED
  BY <1>1, CallInvPreserved, ConfigInvariant, PTL DEF Spec

\* The locals of DoWithRetry keep their types, and a result is set exactly when
\* the call returns.
THEOREM RetryTypeCorrect == Spec => []RetryTypeOK
<1>1. CallInv => RetryTypeOK
  BY DEF CallInv
<1> QED
  BY <1>1, CallInvariant, PTL

\* DoWithRetry begins at most maxRetries+1 operations, and exactly so many before
\* it gives up, whatever the configuration and whenever the context is cancelled.
THEOREM RetriesAccounted == Spec => []AttemptsAccounted
<1>1. CallInv => AttemptsAccounted
  BY DEF CallInv, CountInv
<1> QED
  BY <1>1, CallInvariant, PTL

\* At most one operation begins after the cancellation of the context.
THEOREM CancellationHonoured == Spec => []LateOperations
<1>1. CallInv => LateOperations
  BY DEF CallInv, LateInv
<1> QED
  BY <1>1, CallInvariant, PTL

\* A positive configured back-off makes every back-off positive and at most the
\* ceiling or the configured one, after any number of doublings.
THEOREM BackoffStaysBounded == Spec => []BackoffBounded
<1>1. CallInv => BackoffBounded
  BY DEF CallInv, BackoffInv
<1> QED
  BY <1>1, CallInvariant, PTL

-----------------------------------------------------------------------------
(* The schedule of the back-offs                                           *)

\* A non-empty set of natural numbers has a least element.
LEMMA LeastNatural ==
    ASSUME NEW T \in SUBSET Nat, T # {}
    PROVE  \E x \in T : \A y \in T : x <= y
<1> DEFINE R == OpToRel(<, Nat)
<1>1. IsWellFoundedOn(R, Nat)
  BY NatLessThanWellFounded, Zenon
<1>2. \A x, y \in Nat : y < x => <<y, x>> \in R
  BY DEF OpToRel
<1> HIDE DEF R
<1>3. PICK x \in T : \A y \in T : ~(<<y, x>> \in R)
  BY <1>1, WFMin, Zenon
<1>4. \A y \in T : ~(y < x)
  BY <1>2, <1>3, Zenon
<1> QED
  BY <1>4

\* Induction, with the set of the numbers for which it has been shown in place of
\* a predicate.
LEMMA SetInduction ==
    ASSUME NEW T \in SUBSET Nat, 0 \in T, \A n \in T : n + 1 \in T
    PROVE  T = Nat
<1> SUFFICES ASSUME Nat \ T # {} PROVE FALSE
  BY Zenon
<1>1. PICK x \in Nat \ T : \A y \in Nat \ T : x <= y
  BY LeastNatural, Zenon
<1>2. x - 1 \in Nat /\ x - 1 \in T
  BY <1>1
<1> QED
  BY <1>2

\* The first n + 1 powers of two, as a function.
Doubling(g, n) ==
    /\ g \in [0 .. n -> Nat]
    /\ g[0] = 1
    /\ \A i \in 0 .. n : i # 0 => g[i] = 2 * g[i - 1]

\* There are such functions of every length.
LEMMA DoublingExists == \A n \in Nat : \E g : Doubling(g, n)
<1> DEFINE T == {n \in Nat : \E g : Doubling(g, n)}
<1>1. 0 \in T
  <2> DEFINE g == [i \in 0 .. 0 |-> 1]
  <2>1. Doubling(g, 0)
    BY DEF Doubling
  <2> QED
    BY <2>1
<1>2. ASSUME NEW n \in T PROVE n + 1 \in T
  <2>1. PICK g : Doubling(g, n)
    OBVIOUS
  <2> DEFINE h == [i \in 0 .. n + 1 |-> IF i = n + 1 THEN 2 * g[n] ELSE g[i]]
  <2>2. n \in Nat /\ g[n] \in Nat
    BY <2>1 DEF Doubling
  <2>3. h \in [0 .. n + 1 -> Nat] /\ h[0] = 1
    BY <2>1, <2>2 DEF Doubling
  <2>4. ASSUME NEW i \in 0 .. n + 1, i # 0 PROVE h[i] = 2 * h[i - 1]
    <3>1. CASE i = n + 1
      BY <2>2, <3>1
    <3>2. CASE i # n + 1
      <4>1. i \in 0 .. n /\ i - 1 \in 0 .. n /\ i - 1 # n + 1
        BY <2>2, <2>4, <3>2
      <4>2. h[i] = g[i] /\ h[i - 1] = g[i - 1]
        BY <2>2, <2>4, <3>2, <4>1
      <4> QED
        BY <2>1, <2>4, <4>1, <4>2 DEF Doubling
    <3> QED
      BY <3>1, <3>2
  <2>5. Doubling(h, n + 1)
    BY <2>3, <2>4, Zenon DEF Doubling
  <2> QED
    BY <2>2, <2>5
<1> HIDE DEF T
<1>3. T = Nat
  <2>1. T \in SUBSET Nat
    BY DEF T
  <2> QED
    BY <1>1, <1>2, <2>1, SetInduction
<1> QED
  BY <1>3, Zenon DEF T

\* The recursive function Pow2 satisfies the equation that defines it.
LEMMA Pow2Def == Pow2 = [n \in Nat |-> IF n = 0 THEN 1 ELSE 2 * Pow2[n - 1]]
<1> DEFINE F(n) == CHOOSE g : Doubling(g, n)
           f == [n \in Nat |-> F(n)[n]]
           T == {n \in Nat : \A m, k \in Nat : n <= m /\ n <= k => F(m)[n] = F(k)[n]}
<1>1. \A n \in Nat : Doubling(F(n), n)
  BY DoublingExists, Zenon
<1> HIDE DEF F
<1>2. T = Nat
  <2>1. 0 \in T
    BY <1>1, Zenon DEF Doubling
  <2>2. ASSUME NEW n \in T PROVE n + 1 \in T
    <3>1. ASSUME NEW m \in Nat, n + 1 <= m PROVE F(m)[n + 1] = 2 * F(m)[n]
      <4>1. n \in Nat /\ n + 1 \in 0 .. m /\ n + 1 # 0 /\ (n + 1) - 1 = n
        BY <3>1
      <4> QED
        BY <1>1, <4>1 DEF Doubling
    <3>2. ASSUME NEW m \in Nat, NEW k \in Nat, n + 1 <= m, n + 1 <= k
          PROVE  F(m)[n + 1] = F(k)[n + 1]
      <4>1. n \in Nat /\ n <= m /\ n <= k
        BY <3>2
      <4>2. F(m)[n] = F(k)[n]
        BY <4>1
      <4> QED
        BY <3>1, <3>2, <4>2
    <3>3. n + 1 \in Nat
      OBVIOUS
    <3> QED
      BY <3>2, <3>3
  <2>3. T \in SUBSET Nat
    OBVIOUS
  <2> HIDE DEF T
  <2> QED
    BY <2>1, <2>2, <2>3, SetInduction
<1>3. ASSUME NEW n \in Nat PROVE f[n] = IF n = 0 THEN 1 ELSE 2 * f[n - 1]
  <2>1. CASE n = 0
    BY <1>1, <2>1 DEF Doubling
  <2>2. CASE n # 0
    <3>1. n - 1 \in Nat /\ n \in 0 .. n /\ n - 1 <= n /\ n - 1 <= n - 1
      BY <2>2
    <3>2. F(n)[n] = 2 * F(n)[n - 1]
      BY <1>1, <2>2, <3>1 DEF Doubling
    <3>3. F(n)[n - 1] = F(n - 1)[n - 1]
      BY <1>2, <3>1
    <3> QED
      BY <2>2, <3>1, <3>2, <3>3
  <2> QED
    BY <2>1, <2>2
<1>4. f = [n \in Nat |-> IF n = 0 THEN 1 ELSE 2 * f[n - 1]]
  BY <1>3
<1> HIDE DEF f
<1> QED
  BY <1>4, Zenon DEF Pow2

\* What the definition gives for the first power and for the next one.
LEMMA Pow2Doubles ==
    /\ Pow2 \in [Nat -> Nat]
    /\ Pow2[0] = 1
    /\ \A n \in Nat : Pow2[n + 1] = 2 * Pow2[n]
<1>1. \A n \in Nat : Pow2[n] = IF n = 0 THEN 1 ELSE 2 * Pow2[n - 1]
  BY Pow2Def, Zenon
<1>2. Pow2[0] = 1
  BY <1>1
<1>3. ASSUME NEW n \in Nat PROVE Pow2[n + 1] = 2 * Pow2[n]
  <2>1. n + 1 \in Nat /\ n + 1 # 0 /\ (n + 1) - 1 = n
    OBVIOUS
  <2> QED
    BY <1>1, <2>1
<1>4. \A n \in Nat : Pow2[n] \in Nat
  <2> DEFINE T == {n \in Nat : Pow2[n] \in Nat}
  <2>1. T \in SUBSET Nat /\ 0 \in T /\ \A n \in T : n + 1 \in T
    BY <1>2, <1>3
  <2> HIDE DEF T
  <2>2. T = Nat
    BY <2>1, SetInduction
  <2> QED
    BY <2>2 DEF T
<1>5. Pow2 \in [Nat -> Nat]
  <2> DEFINE f == [n \in Nat |-> IF n = 0 THEN 1 ELSE 2 * Pow2[n - 1]]
  <2>1. f \in [Nat -> Nat]
    BY <1>1, <1>4
  <2> QED
    BY <2>1, Pow2Def, Zenon
<1> QED
  BY <1>2, <1>3, <1>5

\* Doubling the scheduled back-off and cutting the result yields the next one,
\* also after one that was not cut.
LEMMA ScheduleStep ==
    ASSUME first \in Int, NEW n \in Nat, NEW b, b = Scheduled(n + 1)
    PROVE  /\ b \in Int
           /\ (IF 2 * b > Cap THEN Cap ELSE 2 * b) = Scheduled(n + 2)
<1> DEFINE q == first * Pow2[n]
<1>1. q \in Int /\ Cap \in Nat \ {0}
  BY Pow2Doubles, RetryAssumption DEF RetryAssumption
<1>2. first * Pow2[n + 1] = 2 * q
  <2>1. Pow2[n] \in Int /\ Pow2[n + 1] = 2 * Pow2[n]
    BY Pow2Doubles
  <2>2. \A x, y \in Int : x * (2 * y) = 2 * (x * y)
    OBVIOUS
  <2> QED
    BY <2>1, <2>2
<1>3. b = IF n = 0 \/ q <= Cap THEN q ELSE Cap
  <2>1. (n + 1) - 1 = n /\ (n + 1 = 1 <=> n = 0)
    OBVIOUS
  <2> QED
    BY <2>1 DEF Scheduled
<1>4. Scheduled(n + 2) = IF 2 * q <= Cap THEN 2 * q ELSE Cap
  <2>1. (n + 2) - 1 = n + 1 /\ n + 2 # 1
    OBVIOUS
  <2> QED
    BY <1>2, <2>1 DEF Scheduled
<1> HIDE DEF q
<1> QED
  BY <1>1, <1>3, <1>4

\* The back-off the call would take next is the scheduled one, and so were all
\* those it took.
ScheduleInv ==
    /\ pc # "idle" => backoff = Scheduled(attempt + 1)
    /\ BackoffSchedule

\* Every step keeps to the schedule.
LEMMA SchedulePreserved == ConfigInv /\ CallInv /\ ScheduleInv /\ [Next]_vars => ScheduleInv'
<1> SUFFICES ASSUME ConfigInv, CallInv, ScheduleInv, [Next]_vars PROVE ScheduleInv'
  OBVIOUS
<1> USE DEF ScheduleInv, BackoffSchedule, call, history, Return
<1>t. /\ first \in Int /\ backoff \in Int /\ attempt \in Nat /\ slept \in Seq(Int)
      /\ pc = "idle" => attempt = 0 /\ slept = <<>>
      /\ pc = "operation" => Len(slept) = attempt
  BY DEF CallInv, RetryTypeOK, CountInv
<1>1. CASE UNCHANGED <<first, backoff, attempt, slept>> /\ (pc' = pc \/ pc # "idle")
  BY <1>1 DEF Scheduled
<1>2. ASSUME NEW cfg \in Direct \cup ({config} \ {Nil}), DoWithRetry(cfg) PROVE ScheduleInv'
  <2>1. first' \in Int
    BY <1>2, SettingsTyped
  <2>2. backoff' = first' /\ attempt' = 0 /\ slept' = <<>>
    BY <1>2, <1>t, Zenon DEF DoWithRetry
  <2>3. Scheduled(0 + 1)' = first'
    BY <2>1, Pow2Doubles DEF Scheduled
  <2>4. backoff' = Scheduled(attempt + 1)'
    BY <2>2, <2>3 DEF Scheduled
  <2> QED
    BY <2>2, <2>4
<1>3. ASSUME NEW err \in BOOLEAN, EndOperation(err) PROVE ScheduleInv'
  <2>1. UNCHANGED <<first, backoff, attempt>> /\ pc = "operation"
    BY <1>3 DEF EndOperation
  <2>2. CASE UNCHANGED slept
    BY <1>1, <2>1, <2>2
  <2>3. CASE slept' = Append(slept, backoff)
    <3>1. DOMAIN slept' = 1 .. attempt + 1 /\ DOMAIN slept = 1 .. attempt
      BY <1>t, <2>1, <2>3
    <3>2. \A k \in 1 .. attempt : slept'[k] = slept[k]
      BY <1>t, <2>1, <2>3
    <3>3. slept'[attempt + 1] = backoff
      BY <1>t, <2>1, <2>3
    <3>4. \A k : Scheduled(k)' = Scheduled(k)
      BY <2>1 DEF Scheduled
    <3>5. \A k \in DOMAIN slept' : slept'[k] = Scheduled(k)
      BY <1>t, <2>1, <3>1, <3>2, <3>3
    <3>6. backoff' = Scheduled(attempt + 1)'
      BY <2>1 DEF Scheduled
    <3> QED
      BY <3>4, <3>5, <3>6
  <2> QED
    BY <1>3, <2>2, <2>3, Zenon DEF EndOperation
<1>4. CASE TimerFires
  <2>1. /\ pc = "sleep" /\ attempt' = attempt + 1 /\ UNCHANGED <<first, slept>>
        /\ backoff' = IF 2 * backoff > Cap THEN Cap ELSE 2 * backoff
    BY <1>4, Zenon DEF TimerFires
  <2>2. backoff' = Scheduled(attempt + 2)
    BY <1>t, <2>1, ScheduleStep
  <2>3. attempt' + 1 = attempt + 2
    BY <1>t, <2>1
  <2>4. backoff' = Scheduled(attempt + 1)'
    BY <2>1, <2>2, <2>3 DEF Scheduled
  <2>5. BackoffSchedule'
    BY <2>1 DEF Scheduled
  <2> QED
    BY <2>4, <2>5
<1>5. CASE \/ \E raw : InitializeResources(raw)
           \/ Cancel \/ Attempt \/ BeginOperation \/ SleepCancelled \/ UNCHANGED vars
  <2>1. UNCHANGED <<first, backoff, attempt, slept>> /\ (pc' = pc \/ pc # "idle")
    BY <1>5 DEF InitializeResources, Cancel, Attempt, BeginOperation, SleepCancelled, vars
  <2> QED
    BY <1>1, <2>1
<1> QED
  BY <1>2, <1>3, <1>4, <1>5, Zenon DEF Next, Caller

\* However many retries, whatever the configured back-off and the ceiling, the
\* doubling in the loop of DoWithRetry sleeps the closed form.
THEOREM BackoffFollowsSchedule == Spec => []BackoffSchedule
<1>1. Init => ScheduleInv
  <2> SUFFICES ASSUME Init PROVE ScheduleInv
    OBVIOUS
  <2>1. pc = "idle" /\ DOMAIN slept = {}
    BY DEF Init
  <2> QED
    BY <2>1 DEF ScheduleInv, BackoffSchedule
<1>2. ScheduleInv => BackoffSchedule
  BY DEF ScheduleInv
<1> QED
  BY <1>1, <1>2, SchedulePreserved, CallInvariant, ConfigInvariant, PTL DEF Spec

=============================================================================
