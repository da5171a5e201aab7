\* Literal pool, load cache and placeholders of one compilation.
CONSTANTS
    v1 = v1
    v2 = v2
    Values <- MCValues
    DictIds = {1}
    TypesUsed <- MCTypes
    MaxLitOff = 8
SYMMETRY MCSymmetry
SPECIFICATION Spec
INVARIANTS
    TypeOK
    PlaceholderShapesMatch
\* An aborted compilation ("Too many literals") takes no further step.
CHECK_DEADLOCK FALSE
