SPECIFICATION TextSpec
CONSTANTS
    Width = 20
    Height = 20
    Menu <- MCMenu
    Ground = 2
    Font <- MCFont
    LF = LF
    CR = CR
    Tab = Tab
    Settings <- MCSettings
    MaxText = 4
INVARIANTS PixelAlone LineIsStraight CircleIsRound FillMeetsOutline TextIsWhole
CHECK_DEADLOCK FALSE
