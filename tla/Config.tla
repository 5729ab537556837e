------------------------------- MODULE Config -------------------------------
(***************************************************************************)
(* The plugin's configuration: the defaults, and the normalisation that    *)
(* InitializeResources runs on whatever the configuration source yields.   *)
(* Strings are kept only as far as the code tells them apart: "" is the    *)
(* empty string, any other value a string the user wrote.  Durations are   *)
(* integers in units of the default retry back-off (100ms); Nil is a nil   *)
(* pointer, to a duration, a producer or a consumer.                       *)
(***************************************************************************)
EXTENDS Integers, Sequences

CONSTANTS
    Nil,      \* the nil pointer
    Strings   \* the strings that occur in configurations

\* The messages of conf/rabbitmq.proto, as far as they are modelled.
Duration == {Nil} \cup Int

Producer ==
    [Name : Strings, Enabled : BOOLEAN, Exchange : Strings, ExchangeType : Strings,
     PublishTimeout : Duration, MaxRetries : Int, RetryBackoff : Duration]

Consumer ==
    [Name : Strings, Enabled : BOOLEAN, Queue : Strings, ConsumerTag : Strings,
     MaxConcurrency : Int, PrefetchCount : Int]

RabbitMQ ==
    [Urls : Seq(Strings), VirtualHost : Strings, DialTimeout : Duration,
     Heartbeat : Duration, ChannelPoolSize : Int,
     Producers : Seq({Nil} \cup Producer), Consumers : Seq({Nil} \cup Consumer)]

ExchangeTypes == {"direct", "fanout", "topic", "headers"}

ASSUME ConfigAssumption ==
    /\ Nil \notin Int \cup Producer \cup Consumer
    /\ ExchangeTypes \cup {"", "/", "lynx.exchange", "lynx.queue", "lynx.consumer",
                          "default-producer", "default-consumer",
                          "amqp://localhost:5672/"} \subseteq Strings

defaultMaxRetries == 3

defaultRetryBackoff == 1

\* 3s and 30s.
defaultTimeout == 30
defaultHeartbeat == 300

defaultProducer ==
    [Name |-> "default-producer", Enabled |-> TRUE, Exchange |-> "lynx.exchange",
     ExchangeType |-> "direct", PublishTimeout |-> defaultTimeout,
     MaxRetries |-> defaultMaxRetries, RetryBackoff |-> defaultRetryBackoff]

defaultConsumer ==
    [Name |-> "default-consumer", Enabled |-> TRUE, Queue |-> "lynx.queue",
     ConsumerTag |-> "lynx.consumer", MaxConcurrency |-> 1, PrefetchCount |-> 1]

\* The configuration used when the source has no section for the plugin.
defaultRabbitMQConfig ==
    [Urls |-> <<"amqp://localhost:5672/">>, VirtualHost |-> "/",
     DialTimeout |-> defaultTimeout, Heartbeat |-> defaultHeartbeat,
     ChannelPoolSize |-> 10,
     Producers |-> <<defaultProducer>>, Consumers |-> <<defaultConsumer>>]

OrDefault(s, default) == IF s = "" THEN default ELSE s

OrPositive(n, default) == IF n <= 0 THEN default ELSE n

OrDuration(d, default) == IF d = Nil THEN default ELSE OrPositive(d, default)

-----------------------------------------------------------------------------

\* The checks of the loop over cfg.Producers.  An empty exchange type is
\* replaced before it is checked.
ProducerInvalid(p) ==
    \/ p = Nil
    \/ p.Enabled /\ p.Name = ""
    \/ p.ExchangeType \notin ExchangeTypes \cup {""}
    \/ p.MaxRetries < 0

NormalProducer(p) ==
    [Name |-> p.Name, Enabled |-> p.Enabled,
     Exchange |-> OrDefault(p.Exchange, "lynx.exchange"),
     ExchangeType |-> OrDefault(p.ExchangeType, "direct"),
     PublishTimeout |-> OrDuration(p.PublishTimeout, defaultTimeout),
     MaxRetries |-> IF p.MaxRetries = 0 THEN defaultMaxRetries ELSE p.MaxRetries,
     RetryBackoff |-> OrDuration(p.RetryBackoff, defaultRetryBackoff)]

ConsumerInvalid(c) == c = Nil \/ (c.Enabled /\ c.Name = "")

NormalConsumer(c) ==
    [Name |-> c.Name, Enabled |-> c.Enabled,
     Queue |-> OrDefault(c.Queue, "lynx.queue"),
     ConsumerTag |-> OrDefault(c.ConsumerTag, "lynx.consumer"),
     MaxConcurrency |-> OrPositive(c.MaxConcurrency, 1),
     PrefetchCount |-> OrPositive(c.PrefetchCount, 1)]

\* normalizeRabbitMQConfig returns an error exactly for these.
ConfigInvalid(cfg) ==
    \/ \E i \in DOMAIN cfg.Urls : cfg.Urls[i] = ""
    \/ \E i \in DOMAIN cfg.Producers : ProducerInvalid(cfg.Producers[i])
    \/ \E i \in DOMAIN cfg.Consumers : ConsumerInvalid(cfg.Consumers[i])

\* What normalizeRabbitMQConfig leaves in cfg when it returns no error.
NormalConfig(cfg) ==
    [Urls |-> IF cfg.Urls = <<>> THEN defaultRabbitMQConfig.Urls ELSE cfg.Urls,
     VirtualHost |-> OrDefault(cfg.VirtualHost, "/"),
     DialTimeout |-> OrDuration(cfg.DialTimeout, defaultTimeout),
     Heartbeat |-> OrDuration(cfg.Heartbeat, defaultHeartbeat),
     ChannelPoolSize |-> OrPositive(cfg.ChannelPoolSize, 10),
     Producers |-> [i \in DOMAIN cfg.Producers |-> NormalProducer(cfg.Producers[i])],
     Consumers |-> [i \in DOMAIN cfg.Consumers |-> NormalConsumer(cfg.Consumers[i])]]

=============================================================================
