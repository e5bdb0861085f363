CONSTANTS
    Byte = 6
    TxidLen = 2
    MaxIns = 2
    MaxOuts = 3
    MaxItems = 3
    MaxBuf = 4
    Sources <- MCSources
    Nil = Nil
SPECIFICATION Spec
INVARIANTS TypeOK OwnBytesRead AcceptedIsInTheBytes RereadIsSame SizeIsVirtualSize
PROPERTY ReadFromReturns
CHECK_DEADLOCK FALSE
