SPECIFICATION Spec
CONSTANTS
    Pages = {p1, p2}
    p1 = p1
    p2 = p2
    Names <- MCNames
    Fold <- MCFold
    Ids <- MCIds
    ServerIds <- MCServerIds
    Aliases <- MCAliases
    Spellings <- MCAliases
    AtNames = {}
    Order <- MCOrder
    Upper <- MCUpper
    Iso <- MCIso
    Embedded <- MCEmbedded
    Override <- MCOverride
    Posts <- MCPosts
    Files <- MCFiles
    MaxEdits = 1
    Knobs <- MCKnobs
    DefaultKnob = 1
    Forms <- MCForms
    Windows <- MCWindows
    Horizon = 2
    MaxPosts = 2
    MaxCrashes = 1
    MaxFaults = 1
INVARIANTS LiveMatchesFile NamesAreClear SettingsKept
PROPERTIES SavesKeepTheRest WindowsClose
CHECK_DEADLOCK FALSE
