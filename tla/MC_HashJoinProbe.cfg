\* Probe rows with present, absent and null keys against a fixed hash table.
CONSTANTS
    k1 = k1
    k2 = k2
    k3 = k3
    b1 = b1
    b2 = b2
    Keys <- MCKeys
    Batches <- MCBatches
    Table <- MCTable
    MaxProbes = 5
SPECIFICATION Spec
INVARIANTS
    TypeOK
    ExtractInBounds
    ProbeYieldsMatches
\* After MaxProbes probe rows the batch is exhausted and the query function returns.
CHECK_DEADLOCK FALSE
