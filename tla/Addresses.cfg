CONSTANTS
    Nil = Nil
    Keys <- MCKeys
    Foreign <- MCForeign
    MaxCached = 3
SPECIFICATION Spec
INVARIANTS CacheIsFresh OwnNetworkReads NobodyElsePaid ReadingIsStable RecognitionAgrees
CHECK_DEADLOCK FALSE
