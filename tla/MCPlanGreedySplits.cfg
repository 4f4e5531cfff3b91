\* One tile of 29 iterations in 7 splits: chunks of 5 pass the end.
CONSTANTS
    GivenSms = 3
    GivenRows = 1
    GivenHeads = 1
    GivenSplits = 7
    GivenIters = {29}
SPECIFICATION DirectSpec
INVARIANTS RangesOrdered
