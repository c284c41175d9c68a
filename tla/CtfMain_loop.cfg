SPECIFICATION MainSpec
CONSTANTS
    W = 640
    H = 480
    Size = 50
    FlagDim = 30
    Grip = 20
    Dists = {5}
    Dist = 5
    StartX <- MCStartX
    StartY <- MCStartY
    FlagStartX <- MCFlagStartX
    FlagStartY <- MCFlagStartY
    Carriers = {"player1"}
    None = None
PROPERTIES NoStepAfterTouch HoldingRightWins
CHECK_DEADLOCK FALSE
