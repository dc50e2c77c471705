CONSTANTS
    c1 = c1
    c2 = c2
    c3 = c3
    Cmds <- MCCmds
    Spurious = FALSE
SPECIFICATION Spec
SYMMETRY MCSymmetry
INVARIANT MutualExclusion
