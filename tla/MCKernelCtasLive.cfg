SPECIFICATION CtasFairSpec
CONSTANTS
    Launches <- Progress
    DecodeLaunches <- DecodeProgress
    MaxCopies = 1
PROPERTIES
    PrefillEnds
    DecodeEnds
