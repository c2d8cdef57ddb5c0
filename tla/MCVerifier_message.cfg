SPECIFICATION Spec
CONSTANTS
    MaxInt64 = 127
    Undecodable = Undecodable
    Absent = Absent
    Nil = Nil
    NotHex = NotHex
    EmptyBytes <- MCEmptyBytes
    blake2b224 <- MCblake2b224
    size <- MCsize
    hexDigits <- MChexDigits
    hexDecode <- MChexDecode
    SignRequests <- MessageRequests
    Calls <- MessageCalls
INVARIANTS
    MessageWasSigned
    WalletResponseAccepted
    DetachedVerdictsAgree
PROPERTY
    ImplementsContract
