\* One server with two addresses, removed and added again, one goroutine that
\* applies the configuration.
SPECIFICATION FairSpec
CONSTANTS
    Servers = {s}
    Incarnations = 2
    a1 = a1
    a2 = a2
    m1 = m1
    x = x
    Addresses = {a1, a2}
    Configs <- MCConfigs
    Answers <- MCAnswers
    DownAfter = 3
    Appliers = {op}
    None = None
    Worlds <- MCWorlds
    Loaded <- MCLoaded
    Edits = 2
    Changes = 1
INVARIANTS OneLoopEach DownMeansFailing
PROPERTIES NoFailBack Settles RemovedLoopsEnd
\* With every server removed, or stopped, nothing moves until somebody edits.
CHECK_DEADLOCK FALSE
