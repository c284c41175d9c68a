SPECIFICATION Spec
CONSTANTS
    W = 8
    H = 4
    Size = 2
    FlagDim = 1
    Grip = 1
    Dists = {1, 2}
    StartX <- MCStartX
    StartY <- MCStartY
    FlagStartX <- MCFlagStartX
    FlagStartY <- MCFlagStartY
    Carriers = {"player1"}
    None = None
INVARIANTS NoTouch CarriedFlagFollows
PROPERTIES NoPassThrough
CHECK_DEADLOCK FALSE
