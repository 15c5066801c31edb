CONSTANTS
    d1 = d1
    d2 = d2
    d3 = d3
    c1 = c1
    c2 = c2
    Digests <- MCDigests
    Callers <- MCCallers
    Size <- MCSize
    MaxSizeMB = 2
    MaxRestarts = 1
    MaxTampers = 1
    MaxIOErrors = 1
SYMMETRY MCSymmetry
SPECIFICATION Spec
PROPERTY LRUEviction
