CONSTANTS
    s1 = s1
    s2 = s2
    in1 = in1
    addr1 = addr1
    Signers = {s1, s2}
    Drafts <- AllDrafts
    InputLists <- TwoInputLists
    Fees = {0, 1}
    Requests <- SomeRequests
    ShortId = ShortId
    NoAddress = NoAddress
    Top = 4
    MaxWitnesses = 3
    Nil = Nil
SPECIFICATION Spec
INVARIANTS SumsAreTrue AnsweredMeansWitnessed
PROPERTY KeepsPromise
