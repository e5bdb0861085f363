\* Two inputs of five kinds, prefilled, signed, failing for any reason and signed
\* again in any order.
CONSTANTS
    k1 = k1
    k2 = k2
    o1 = o1
    bad = bad
    N = 2
    Keys = {k1}
    Amounts = {1}
    Outputs = {o1}
    BadOutput = bad
    MaxOuts = 1
    Flags = {0, 1, 65}
    Prefills = {"p2pkh", "p2wpkh"}
    PrevOuts <- SomePrevOuts
    Offers <- MixedOffers
SPECIFICATION Spec
INVARIANTS TypeOK SignedInputsSpend RestUntouched
