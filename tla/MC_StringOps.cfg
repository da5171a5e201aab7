\* The padding of Pad checked on every bounded input.
CONSTANTS
    Alphabet <- MCAlphabet
    TrimChars <- MCTrimChars
    MaxLen = 4
    Starts <- MCStarts
    Counts <- MCCounts
    Inserts <- MCInserts
    Paddings <- MCPaddings
    Delimiters <- MCDelimiters
    Parts <- MCParts
    Limits <- MCLimits
    SizeBits = 16
SPECIFICATION Spec
INVARIANTS
    PadMatchesReference
