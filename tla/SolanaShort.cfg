\* Bytes that are whole, some with fewer signatures than their header requires.
CONSTANTS
    Byte = 8
    Texts = {"zero", "h0", "h1", "none", "d", "e"}
    Orders <- SignOrders
    Hashes = {"h0", "h1"}
    KeyLists <- SignLists
    Foreign <- SomeForeign
    Cuts = {8}
    Reuse = "same"
    Nil = Nil
SPECIFICATION Spec
INVARIANT SignStaysInBounds
