SPECIFICATION Spec
CONSTANTS
    Procs = {p, q}
    Topics = {1}
    HtmlTopics = {}
    Dirs = {d}
    NoDir = NoDir
    Names = {n}
    Bodies = {x, y}
    Own = Own
    Gone = Gone
    MaxTries = 1
    MaxChanges = 1
    MaxMishaps = 1
    EditsAnyTime = TRUE
SYMMETRY NameSymmetry
PROPERTY SkipsAreCurrent
