\* Two Q-split tiles of an FMHA CTA.
CONSTANTS
    p1 = p1
    p2 = p2
    c1 = c1
    c2 = c2
    Stages = 2
    Producers <- TwoProducers
    Consumers <- TwoConsumers
    Items = 2
    M = 4
    N = 4
    MaxCopies = 1
    Launches <- Consecutive
SPECIFICATION PipelinesSpec
INVARIANT StoredKept
