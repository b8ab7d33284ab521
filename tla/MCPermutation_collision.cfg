CONSTANTS
    Q = 73
    N = 8
    Samples <- MCSamples
    Circuits <- MCCircuits
    Values = {0, 1}
SPECIFICATION CreateSpec
INVARIANT PermutationSound
