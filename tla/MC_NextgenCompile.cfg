\* compile() over six plans, with and without FLAGS_null_separate.
CONSTANTS
    v1 = v1
    Values <- MCValues
    DictIds = {1}
    TypesUsed <- MCTypes
    MaxLitOff = 8
    Plans <- MCPlans
SPECIFICATION Spec
INVARIANTS
    TypeOK
PROPERTIES
    RefinesAbstract
\* compile() returns, throws or aborts, and then takes no further step.
CHECK_DEADLOCK FALSE
