\* Taps and buttons; short counts in the order of the real ones (8, 8, 3, 20, 255).
SPECIFICATION TouchSpec
CONSTANTS
    TOUCH_TO = 3
    CLICK_MS = 3
    PRETAP = 1
    TP_LOCK = 3
    TimeMax = 4
    Fingers = {0, 1, 2, 3}
    Buttons = {"left"}
    Keys = FALSE
INVARIANTS
    ClickOnce
