CONSTANTS
    k1 = k1
    k2 = k2
    b1 = b1
    b2 = b2
    Keys = {k1, k2}
    Stranger = stranger
    Bodies = {b1, b2}
    Tips = {"tip"}
    AccessLists <- SomeAccessLists
    AuthIds = {"code"}
    ChainIds = {0, 2}
    Drafts <- LegacyDrafts
    Foreign <- NoForeign
    Reuse = "same"
    Careless = TRUE
    Nil = Nil
SPECIFICATION Spec
INVARIANT SignsForMeantChain
