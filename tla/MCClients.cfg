CONSTANTS
    m1 = m1
    n1 = n1
    h1 = h1
    Mqtt <- MqttClients
    Nats <- NatsClients
    Http <- HttpClients
    MaxCalls = 4
    MaxDrops = 2
SPECIFICATION FairSpec
INVARIANTS
    TypeOK
    ConnectionsBalance
    RequestsAreCounted
PROPERTY
    CallsReturn
CHECK_DEADLOCK FALSE
