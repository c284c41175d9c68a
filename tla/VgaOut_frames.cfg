SPECIFICATION Spec
CONSTANTS
    H_ACTIVE = 655
    V_ACTIVE = 1
    RGB_ACTIVE = 319
    TXCOUNT = 640
    FrontPorch = 1
    BackPorch = 1
    Slack = 8
INVARIANTS LinesAligned DarkInPulses NeverStarved
PROPERTIES LinePeriod EveryLineShown
