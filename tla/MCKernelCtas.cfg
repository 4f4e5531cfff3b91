SPECIFICATION CtasSpec
CONSTANTS
    Launches <- Interleaved
    DecodeLaunches <- InTurn
    MaxCopies = 1
INVARIANTS
    OutputsRight
    RaceFree
    FreedQuiet
    ParitiesUnambiguous
PROPERTIES
    SlotsAlternate
    DecodeImplementsAttend
