\* One input of every kind, with every careful and every careless argument.
CONSTANTS
    k1 = k1
    k2 = k2
    o1 = o1
    bad = bad
    N = 1
    Keys = {k1, k2}
    Amounts = {1, 2}
    Outputs = {o1}
    BadOutput = bad
    MaxOuts = 1
    Flags = {0, 1, 2, 65, 129, 257}
    Prefills <- AllPrefills
    PrevOuts <- AllPrevOuts
    Offers <- AnyOffers
SPECIFICATION Spec
INVARIANTS SignedInputsSpend OnlyOwedInputsSpend ExtractInvertsSign
