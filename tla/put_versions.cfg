SPECIFICATION FairSpec
CONSTANTS
    c1 = c1
    c2 = c2
    p1 = p1
    p2 = p2
    t1 = t1
    t2 = t2
    NoFile = NoFile
    Torn = Torn
    Cut = Cut
    Garbled = Garbled
    Content = {c1, c2}
    ZipLen <- TwoLens
    Path = {p1}
    Trailer = {t1}
    KeyCases = {TRUE}
    ServerSends = FALSE
    SkipMax = 9
    MayVanish = TRUE
    MaxFaults = 3
INVARIANTS
    IInv
    InSync
    NoUnderflow
    NoDeathTearsCkpt
    SenderSuccessVerified
    SuccessLeavesNoResidue
    ReceiverSuccessTruthful
PROPERTIES
    OnlyOfferedInstalled
    Delivers
    EventuallyClean
    Delivered
    ServerEnds
    ClientEnds
CHECK_DEADLOCK FALSE
