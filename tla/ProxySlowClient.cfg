\* The documented meaning of stream_idle_timeout (violated).
SPECIFICATION Spec
CONSTANTS
    Models = {m1}
    Servers = {a}
    a = a
    Served = a
    Home <- MCHome
    Cap <- MCCap
    NoModel = none
    Members <- MCMembers
    Cost <- MCCost
    Reqs = {r1}
    Deadlines = TRUE
PROPERTY IdleMeansSilent
