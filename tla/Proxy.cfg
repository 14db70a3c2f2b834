\* Two requests, two models on one server with one slot, and an alias of both; also what must
\* happen, so without symmetry.
SPECIFICATION FairSpec
CONSTANTS
    Models = {m1, m2}
    Servers = {a}
    a = a
    Served = a
    Home <- MCHome
    Cap <- MCCap
    NoModel = none
    Members <- MCMembers
    Cost <- MCCost
    Reqs = {r1, r2}
    Deadlines = TRUE
INVARIANTS InflightIsExact SlotsAreExact OneTerminalLine LineTellsTheClient
PROPERTIES UsesLines DeparturesEnd SilentStreamsEnd
