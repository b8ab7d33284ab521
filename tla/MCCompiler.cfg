CONSTANTS
    COLUMNS = 3
    MaxRows = 3
    v1 = v1
    v2 = v2
    v3 = v3
    VarIds <- MCVarIds
SPECIFICATION Spec
INVARIANT TypeOK
INVARIANT CyclesAreVariableClasses
PROPERTY ImplementsCopyCycles
