SPECIFICATION PartsSpec
CONSTANTS
    Lists = {l1, l2}
    Nodes = {n1, n2, n3}
    Free = Free
    Absent = Absent
    None = None
    NoElement = NoElement
    Infohashes = {h1}
    Addresses = {a1, a2}
    Callbacks = {w1, w2}
    Jobs = {j1}
    Loop = loop
    MaxCalls = 3
    MaxFaults = 1
    Peers = {p1, p2, p3}
    Workers = {w1, w2}
    K = 2
    MaxPushes = 5
    CharBase = 256
    Int32 = 1
    Short = 1
    BlockSize = 4
    Cipher <- ToyCipher
    InvCipher <- ToyInvCipher
    MD5 <- ToyMD5
    RsaEncrypt <- ToyPublic
    RsaDecrypt <- ToyPrivate
    InfoIdLen = 4
    PeerIdLen = 2
    ReserveRoom = 13
    Version <- OneChar
    ProductId = 33
    CipherLen = 6
    Magic = 77
    KeyVersion = 3
    Queries <- SomeQueries
    Pointers = {3, 200}
    Responses <- SomeResponses
    MaxQueries = 2
    BufferLen = 5
    Sealed <- SealedFile
    Faults = {"read_error", "write_error", "delete_error"}
    MaxCrashes = 2
PROPERTY
    SumsAreSums
CHECK_DEADLOCK FALSE
