\* A request beside two rows of an earlier life, three days, one pruner.
SPECIFICATION FairSpec
CONSTANTS
    r1 = r1
    Reqs = {r1}
    Published <- MCPublished
    Base <- MCBase
    Host <- MCHost
    Server <- MCServer
    Prices <- MCPrices
    Asks <- MCAsks
    Answers <- MCAnswers
    Statuses = {"upstream_error"}
    Stored <- MCStored
    Latency <- MCLatency
    Retention = 1
    Limit = 1
    Pruners = {p}
    Reports <- MCReports
    LastDay = 3
    Faults = 1
INVARIANTS RowsTellTheUpstream ClientSeesWhatItAskedFor ReportsAddUp
PROPERTIES RetentionIsKept
CHECK_DEADLOCK FALSE
