CONSTANTS
    k1 = k1
    k2 = k2
    Signers = {k1, k2}
    Stranger = Stranger
    Drafts <- SomeDrafts
    Requests <- SomeRequests
    Token <- SomeToken
    BadAddress = BadAddress
    FeeLimits = {0, 7}
    Contracts <- SomeContracts
    Int64Top = 64
    MaxContracts = 2
    MaxSignatures = 2
    Nil = Nil
    AbiByte = 4
    AbiWord = 2
    AbiAddress = 1
SPECIFICATION Spec
INVARIANTS NodeReadsWhatWasAsked SignersMeantThis
PROPERTY KeepsPromise
