\* Eight tiles on four SMs of four places each: 16 places, unequal tiles.
CONSTANTS
    NumBuckets = 4
    Shapes <- EightTiles
    MaxSplits = 4
    MaxTasks = 4
    MaxRounds = 8
    KvIters = {1, 40}
SPECIFICATION Spec
INVARIANTS TasksFit
