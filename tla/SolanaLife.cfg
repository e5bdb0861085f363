CONSTANTS
    Byte = 8
    Texts = {"zero", "h0", "h1", "none", "d", "e"}
    Orders <- SignOrders
    Hashes = {"h0", "h1"}
    KeyLists <- SignLists
    Foreign <- SomeForeign
    Cuts = {0, 1, 2, 3, 4, 5, 6, 7, 8}
    Reuse = "same"
    Nil = Nil
SPECIFICATION Spec
INVARIANTS CompiledMeansInstructions VerifyMeansAllSigned CosigningCompletes BytesReadBack PanicsOnlyWhenShort
PROPERTY SignKeepsOthers
