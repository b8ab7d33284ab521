CONSTANTS
    P = 5
    ConstVals = {0, 1}
    PublicInputs <- MCPublicInputs
    PackBits <- MCPackBits
    Gadgets <- PackAndConstant
    ENDO = 2
    RoundConstants <- MCRoundConstants
    Mds <- MCMds
    ALPHA = 7
    ROUNDS_PER_ROW = 5
    POS_ROWS_PER_HASH = 11
    R = 7
    ScalarLengths = {5}
    ScalarInputs = {0, 1, 2, 3, 4, 5, 6}
    EndoLengths = {4}
    EndoInputs = {3, 6}
    NUM_BITS = 15
    MaxCalls = 3
    MaxRows = 6
    MaxHandles = 4
SPECIFICATION Spec
INVARIANT AssertionsEnforced
