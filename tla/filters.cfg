SPECIFICATION Spec
CONSTANTS
    LongOffset = 32
    Terms <- AllTerms
    Rare <- RareTerms
    MaxTerms = 3
    MaxNots = 2
    Packets <- MCPackets
    SnapLen = 1024
INVARIANTS CodeMeans EveryRoundCounts
CHECK_DEADLOCK FALSE
