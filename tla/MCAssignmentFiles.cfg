SPECIFICATION Spec
CONSTANTS
    d = d
    e = e
    n = n
    p = p
    Procs = {p}
    Atts = {1, 2}
    Dirs = {d, e}
    NoDir = NoDir
    Names = {n}
    Bodies = {2, 3, 4}
    MaxTries = 1
    MaxEvents = 1
SYMMETRY Symmetry
INVARIANTS
    TwoSyncsSettle
PROPERTIES
    SkipsAreCurrent
    UnownedFilesStay
