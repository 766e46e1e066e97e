SPECIFICATION FairSpec
CONSTANTS
    v1 = v1
    v2 = v2
    Names <- Listing
    Dirs <- Folders
    Version = {v1, v2}
    Holds <- Contents
    Absent = Absent
    Dir = Dir
    MaxWalks = 3
    MaxOverlaps = 1
INVARIANTS
    IInv
    AloneExact
    OneRemoves
PROPERTIES
    WalksEnd
CHECK_DEADLOCK FALSE
