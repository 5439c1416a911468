SPECIFICATION PartsSpec
CONSTANTS
    Items = {1, 2}
    Default = 0
    Capacity = 4
    a = a
    b = b
    nl = nl
    zero = zero
    Bytes = {a, b}
    NL = nl
    Zero = zero
    MaxLength = 2
    MaxChunk = 3
    MaxInput = 6
    Leftovers <- MCLeftovers
    K = 2
    CollisionBitLength = 2
    IndicesPerHashOutput = 2
    HashLen = 3
    ByteBits = 2
    WordBits = 4
    DigestBits = 4
    Difficulties = {1, 2, 3, 4, 5, 7}
    GenerateHash <- MCHashes
INVARIANTS
    LinesAreSent
    VerdictIsRight
PROPERTIES
    ImplementsDeque
CHECK_DEADLOCK FALSE
