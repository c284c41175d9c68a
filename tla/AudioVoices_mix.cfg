SPECIFICATION Spec
CONSTANTS
    Voices = {0, 1, 2}
    Length <- MCLen
    Samples <- MCSamples
    Period = 3401
    Gap = 1
INVARIANTS LevelInRange ReadsInsideTable NoStuckVoice MixIsBetween
PROPERTIES StartIsHeard VoicesEnd
