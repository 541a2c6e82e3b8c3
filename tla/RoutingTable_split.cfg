\* Splits among two removals, and more nodes than the table takes.
SPECIFICATION Spec
CONSTANTS
    a1 = a1
    a2 = a2
    a3 = a3
    a4 = a4
    None = None
    Nodes <- MCTrio
    MaxPrefixLength = 2
    K = 1
    MaxNodes = 2
    MaxLength = 3
    Removers = {r1, r2}
SYMMETRY RemoverSymmetry
INVARIANTS
    TypeOK
    IndexedWithinK
    LeavesPartitionIds
    LeavesAreCached
PROPERTY
    ImplementsNodeSet
\* A full table from which nothing can be removed has no step left.
CHECK_DEADLOCK FALSE
