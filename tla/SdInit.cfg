\* Two polls and one retry instead of ten and fifteen.
SPECIFICATION FairSdSpec
CONSTANTS
    speed = 1
    Answers <- MCAnswers
    InitBytes = 11
    Polls = 1
    MaxRetries = 1
INVARIANTS
    SdTypeOK
    PowerUpClocks
    CardHearsCommand
    BytesExchanged
PROPERTIES
    SelectSteady
    InitEnds
