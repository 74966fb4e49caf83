\* Typing beside taps; short counts in the order of the real ones (8, 8, 3, 20, 255).
SPECIFICATION FairTouchSpec
CONSTANTS
    TOUCH_TO = 3
    CLICK_MS = 3
    PRETAP = 1
    TP_LOCK = 3
    TimeMax = 4
    Fingers = {0, 1}
    Buttons = {}
    Keys = TRUE
INVARIANTS
    GuardCounts
PROPERTIES
    GuardEnds
    LockedPadQuiets
    TapTaken
