SPECIFICATION Spec
CONSTANTS
    Locates = {1, 2}
    W = 2
    Cap = 2
    StreamLen = 3
INVARIANTS SameAsSingleThreaded ExitedMeansDrained
PROPERTY Returns
