\* The documented promise that a save is never taken for a hand edit (violated).
SPECIFICATION Spec
CONSTANTS
    c0 = c0
    c1 = c1
    bad = bad
    Configs = {c0, c1}
    Empty = c0
    Invalid = bad
    s1 = s1
    s2 = s2
    Savers = {s1, s2}
    Edits <- MCEdits
PROPERTY OwnWritesAreNotEdits
