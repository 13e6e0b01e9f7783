CONSTANTS
    p = p
    q = q
    r = r
    Procs = {p, q, r}
    MaxFiles = 4
    MaxPathBinds = 4
SYMMETRY ProcSymmetry
SPECIFICATION PathSpec
CHECK_DEADLOCK FALSE
INVARIANTS
    PathTypeOK
    ListenersComeBack
PROPERTIES
    OnlyStaleFilesGo
