SPECIFICATION CtasSpec
CONSTANTS
    Launches <- NoGroups
    DecodeLaunches <- TwoTiles
    MaxCopies = 1
INVARIANTS
    StatsKept
