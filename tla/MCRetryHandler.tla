--------------------------- MODULE MCRetryHandler ---------------------------
(***************************************************************************)
(* Instances of RetryHandler for TLC: configurations that vary one part at *)
(* a time, with the combinations of the fields of a producer that the      *)
(* retry handler or the validity checks read together.                     *)
(***************************************************************************)
EXTENDS RetryHandler

MCStrings ==
    {"", "/", "v", "p", "c", "e", "amqp://localhost:5672/", "amqp://h", "direct", "fanout",
     "topic", "headers", "x-delayed", "lynx.exchange", "lynx.queue", "lynx.consumer",
     "default-producer", "default-consumer"}

\* Back-offs: nil, zero or negative, below the ceiling, and above it.
MCBackoffs == {Nil, -1, 0, 1, 3, 7}

MCCap == 6

MCProducers ==
    [Name : {"", "p"}, Enabled : BOOLEAN, Exchange : {""},
     ExchangeType : {"", "topic", "x-delayed"}, PublishTimeout : {Nil},
     MaxRetries : {0, 2}, RetryBackoff : {3}]
    \cup [Name : {"p"}, Enabled : {FALSE}, Exchange : {"e"},
          ExchangeType : {"topic"}, PublishTimeout : {0},
          MaxRetries : -1..2, RetryBackoff : MCBackoffs]

MCConsumers ==
    [Name : {"", "c"}, Enabled : BOOLEAN, Queue : {""}, ConsumerTag : {""},
     MaxConcurrency : {-1, 2}, PrefetchCount : {0}]

OnlyRetries(n, d) ==
    [defaultRabbitMQConfig EXCEPT
        !.Producers = <<[defaultProducer EXCEPT !.MaxRetries = n, !.RetryBackoff = d]>>]

MCRawConfigs ==
    {[defaultRabbitMQConfig EXCEPT !.Producers = <<p>>] : p \in MCProducers}
    \cup {[defaultRabbitMQConfig EXCEPT !.Consumers = <<c>>] : c \in MCConsumers}
    \cup {[defaultRabbitMQConfig EXCEPT !.Producers = ps, !.Consumers = cs] :
             ps \in {<<>>, <<Nil>>, <<defaultProducer, Nil>>},
             cs \in {<<>>, <<Nil>>}}
    \cup {[defaultRabbitMQConfig EXCEPT !.Urls = u, !.VirtualHost = v,
             !.DialTimeout = d, !.Heartbeat = d, !.ChannelPoolSize = n] :
             u \in {<<>>, <<"amqp://h">>, <<"amqp://h", "">>}, v \in {"", "v"},
             d \in {Nil, 0, 2}, n \in {0}}

MCDirect ==
    {OnlyRetries(n, d) : n \in -1..3, d \in MCBackoffs}
    \cup {[defaultRabbitMQConfig EXCEPT !.Producers = <<>>]}

=============================================================================
