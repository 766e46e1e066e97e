SPECIFICATION FairSpec
CONSTANTS
    MD5_HASH_LENGTH = 2
    MAX_RESOURCE_LENGTH = 2
    MAX_PATH_LENGTH = 3
    BUFFER_SIZE = 2
    Byte <- Bytes
    Message <- Messages
    WordSize = 4
    SizeWord <- Htonl
    SizeOf <- FromBigEndian
    Serialize <- Pack
    Deserialize <- Unpack
    Room = 3
    MaxSent = 2
    MaxFaults = 2
INVARIANTS
    FramesIntact
PROPERTIES
    Implements
    Arrives
    SendReturns
    EndNoticed
CHECK_DEADLOCK FALSE
