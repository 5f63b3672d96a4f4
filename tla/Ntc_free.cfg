SPECIFICATION Spec
CONSTANTS
    Capacity = 3
    Nodes = {n1, n2, n3, n4, n5}
INVARIANT FreedIsUsed
