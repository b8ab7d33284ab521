CONSTANTS
    P = 5
    D1 = 8
    Inputs <- MCInputs
SPECIFICATION Spec




INVARIANT NoSpuriousEntries
