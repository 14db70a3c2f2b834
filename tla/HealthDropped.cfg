\* The documented promise that an edit of host_addresses drops the election
\* (violated): one server, whose preferred address is taken off its list.
SPECIFICATION FairSpec
CONSTANTS
    Servers = {s}
    Incarnations = 1
    a1 = a1
    a2 = a2
    m1 = m1
    x = x
    Addresses = {a1, a2}
    Configs <- MCConfigs
    Answers <- MCAnswers
    DownAfter = 3
    Appliers = {op}
    None = None
    Worlds <- MCWorlds
    Loaded <- MCLoaded
    Edits = 1
    Changes = 0
PROPERTY DroppedAddressGoes
\* With every server removed, or stopped, nothing moves until somebody edits.
CHECK_DEADLOCK FALSE
