\* Two requests, queues and batches of one or two, a process that starts twice.
SPECIFICATION FairSpec
CONSTANTS
    Reqs = {r1, r2}
    QueueSize = 1
    BatchSize = 2
    DebugQueueSize = 1
    Keep = 1
    TrimEvery = 2
    Releases <- MCReleases
    Faults = 1
INVARIANTS RowsAccounted SchemaIsWhole SilentOnlyOverdue RecordingsBounded
PROPERTIES HandedOverSettles
\* After its last life the process is gone.
CHECK_DEADLOCK FALSE
