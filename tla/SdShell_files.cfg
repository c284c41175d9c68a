SPECIFICATION Spec
SYMMETRY Names
CONSTANTS
    Cards = {c1}
    NoCard = NoCard
    Files = {f1, f2}
    NumClusters = 3
    PerSector = 2
    MaxSize = 3
    MaxFaults = 1
INVARIANTS EntryIsBacked ChainsApart
PROPERTIES SuccessIsOnCard
