CONSTANTS
    None = None
    R1 = R1
    R2 = R2
    T1 = T1
    T2 = T2
    T6 = T6
    V6 <- MCV6
    Bits <- MCBits
    MapOrder <- MCOrder
    Cap = 1
    Batch = 2
    NumThemes = 3
    KeyText = "key"
    Profiles <- MCBatches
SPECIFICATION Spec
INVARIANT AnswersAwaited
