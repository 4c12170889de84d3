\* All orders of the operations of each container, with every result they return.
CONSTANTS
    K_MAX = 3
    N = 3
    Priorities <- MCPriorities
    Values = {v1, v2}
    None = None
SPECIFICATION Spec
PROPERTIES
    ImplementsKeyedSequence
    ImplementsPriorityLines
SYMMETRY MCSymmetry
VIEW MCView
