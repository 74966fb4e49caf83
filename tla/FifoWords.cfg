\* A producer that heeds O_write_full, and the display.
SPECIFICATION FairFifoSpec
CONSTANTS
    PointerWidth = 2
    Depth = 4
    a = a
    b = b
    Word = {a, b}
    Junk = Junk
    Gray <- MCGray
    Binary <- MCBinary
    Obedient = TRUE
INVARIANTS
    FifoTypeOK
    ReadsSettledWord
PROPERTIES
    KeepsWords
    WordsArrive
    FullClears
