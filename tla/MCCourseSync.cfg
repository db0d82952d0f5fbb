SPECIFICATION Spec
CONSTANTS
    Procs = {p}
    Topics = {1, 2}
    HtmlTopics = {2}
    Dirs = {d, e}
    NoDir = NoDir
    Names = {n}
    Bodies = {x, y}
    Own = Own
    Gone = Gone
    MaxTries = 1
    MaxChanges = 1
    MaxMishaps = 1
    EditsAnyTime = FALSE
SYMMETRY NameSymmetry
INVARIANT CompleteRunsSync
PROPERTY TopicsDoNotCollide
