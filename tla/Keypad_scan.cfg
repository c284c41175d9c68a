SPECIFICATION KeypadSpec
CONSTANTS
    N = 3
    Cols = 2
    Rows = 2
    Touched = {2, 3}
    Events <- MCEvents
    NoEvent = NoEvent
INVARIANTS SlotStable ViewCatchesUp EventsAlternate
PROPERTIES ImplementsFifo OnlyOverflowIsDropped HeldKeyIsSeen SeenPressIsDelivered
