SPECIFICATION Spec
CONSTANTS
    c1 = c1
    c2 = c2
    p1 = p1
    p2 = p2
    t1 = t1
    t2 = t2
    NoFile = NoFile
    Torn = Torn
    Cut = Cut
    Garbled = Garbled
    Content = {c1, c2}
    ZipLen <- TwoLens
    Path = {p1, p2}
    Trailer = {t1}
    KeyCases = {TRUE, FALSE}
    ServerSends = TRUE
    SkipMax = 9
    MayVanish = TRUE
    MaxFaults = 2
PROPERTIES
    Delivers
CHECK_DEADLOCK FALSE
SYMMETRY Destinations
