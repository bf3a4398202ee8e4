SPECIFICATION Spec
CONSTANTS
    Activities = {a1, a2}
    Threads = {t1, t2}
    None = None
SYMMETRY Symmetry
INVARIANT NoLoadWhileRunning
