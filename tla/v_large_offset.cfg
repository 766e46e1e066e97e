SPECIFICATION Spec
CONSTANTS
    c1 = c1
    c2 = c2
    p1 = p1
    p2 = p2
    t1 = t1
    t2 = t2
    NoFile = NoFile
    Torn = Torn
    Cut = Cut
    Garbled = Garbled
    Content = {c1}
    ZipLen <- OneLen3
    Path = {p1}
    Trailer = {t1}
    KeyCases = {TRUE}
    ServerSends = FALSE
    SkipMax = 1
    MayVanish = FALSE
    MaxFaults = 1
INVARIANTS
    ResumeIntact
