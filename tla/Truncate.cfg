CONSTANTS
    MaxOutputSize = 8
    MaxHeadLines = 2
    MarkerText = 0
    MaxInputLen = 11
SPECIFICATION Spec
INVARIANTS
    FitsCap
    KeepsLongestTail
CHECK_DEADLOCK FALSE
