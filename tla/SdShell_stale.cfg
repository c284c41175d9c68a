SPECIFICATION Spec
CONSTANTS
    Cards = {c1, c2}
    NoCard = NoCard
    Files = {f1}
    NumClusters = 2
    PerSector = 2
    MaxSize = 1
    MaxFaults = 1
PROPERTIES ObjectIsValid
