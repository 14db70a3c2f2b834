\* One dashboard page, the watcher, an operator and crashes.
SPECIFICATION FairSpec
CONSTANTS
    c0 = c0
    c1 = c1
    bad = bad
    Configs = {c0, c1}
    Empty = c0
    Invalid = bad
    s1 = s1
    s2 = s2
    Savers = {s1}
    Edits <- MCEdits
INVARIANTS TypeOK FormShowsItsFile GuardKnowsFile
PROPERTIES SavesAnswered FileBecomesKnown HandEditsHonoured
