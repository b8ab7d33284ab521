CONSTANTS
    P = 5
    D1 = 8
    Inputs <- MCInputs
SPECIFICATION Spec
INVARIANT TypeOK
INVARIANT DummyPresent
INVARIANT IdsOmittedOnlyWhenZero
PROPERTY ImplementsLookupTable
