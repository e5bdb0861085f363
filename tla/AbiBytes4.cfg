\* The same calls as in Algorithms.cfg.
CONSTANTS
    Byte = 5
    Direct = 1
    Septet = 4
    Nil = Nil
    AbiByte = 8
    AbiWord = 2
    AbiAddress = 1
    AbiWidths <- SmallWidths
    Decimals = 2
    AmountTop = 512
    NoAmount = NoAmount
    Base = 9
    Interval = 7
    Clamp = 3
    DogeBase = 40
    DogeInterval = 5
    DogeHalvings = 3
    DogeTail = 4
    DashBase = 20
    DashYear = 16
    HeightTop = 128
    Digit = 3
    Width = 4
    Trunc = 2
    Cofactor = 2
    Order = 7
    Hardened = 2
    Chains = {0, 1, 2}
    Hmac <- SomeHmac
    NoKey = NoKey
    GroupOrder = 7
    NoSignature = NoSignature
    ScalarLen = 2
    Absent = Absent
    ParseError = ParseError
    AccountTop = 4
    TooMany = TooMany
SPECIFICATION Spec
INVARIANT SupportedTypesAreRead
