\* A split, then a removal by address.
SPECIFICATION Spec
CONSTANTS
    a1 = a1
    a2 = a2
    a3 = a3
    a4 = a4
    None = None
    Nodes <- MCNodes
    MaxPrefixLength = 3
    K = 2
    MaxNodes = 4
    MaxLength = 4
    Removers = {}
INVARIANT
    RemovableByAddr
\* A full table from which nothing can be removed has no step left.
CHECK_DEADLOCK FALSE
