SPECIFICATION Spec
CONSTANTS
    Cards = {c1, c2}
    NoCard = NoCard
    MaxTries = 2
    MaxCount = 2
INVARIANTS BusReleased OneCard
PROPERTIES SwapIsRecovered CallsReturn
