\* The chains of MCChains on every short string.
CONSTANTS
    Inputs <- MCInputs
    Chains <- MCChains
    SizeBits <- MCSizeBits
SPECIFICATION Spec
INVARIANTS
    ChainMatchesReference
\* The call returns and the model stops: the row loop is not modelled.
CHECK_DEADLOCK FALSE
