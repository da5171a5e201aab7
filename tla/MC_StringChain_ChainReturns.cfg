\* REPLACE with an empty pattern, next to one with a pattern.
CONSTANTS
    Inputs <- MCInputs
    Chains <- MCChainsEmptyPattern
    SizeBits <- MCSizeBits
SPECIFICATION Spec
PROPERTIES
    ChainReturns
CHECK_DEADLOCK FALSE
