SPECIFICATION Spec
CONSTANTS
    Writers = {w1, w2}
    Documents = {d1, d2}
    NoFile = NoFile
    NoInode = NoInode
    Empty = Empty
    Torn = Torn
    Inodes = {i1, i2, i3, i4}
    Kinds = {"enrollment", "configuration", "registry", "worker", "status"}
    MaxFaults = 2
SYMMETRY Symmetry
INVARIANT
    WholeUnlessExposed
PROPERTY
    ImplementsAtomicFile
