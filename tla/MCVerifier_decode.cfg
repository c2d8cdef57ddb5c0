SPECIFICATION Spec
CONSTANTS
    MaxInt64 = 127
    Undecodable = Undecodable
    Absent = Absent
    Nil = Nil
    NotHex = NotHex
    EmptyBytes <- MCEmptyBytes
    blake2b224 <- MCblake2b224
    size <- MCsize
    hexDigits <- MChexDigits
    hexDecode <- MChexDecode
    SignRequests <- DecodeRequests
    Calls <- DecodeCalls
PROPERTY
    ImplementsContract
