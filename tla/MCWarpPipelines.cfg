\* Two producers and two consumers go five times through a ring of two slots;
\* FMHA CTAs of every kind.
CONSTANTS
    p1 = p1
    p2 = p2
    c1 = c1
    c2 = c2
    Stages = 2
    Producers <- TwoProducers
    Consumers <- TwoConsumers
    Items = 5
    M = 4
    N = 4
    MaxCopies = 2
    Launches <- Ctas
SPECIFICATION PipelinesSpec
INVARIANTS
    ReadsWholeItem
    NoWriteUnderRead
    ParityUnambiguous
    IInv
    CtaParityUnambiguous
    FreedQuiet
    CtaNeverStuck
PROPERTIES
    ImplementsChannel
    RingDelivers
    AttendsRight
    ScoresRight
