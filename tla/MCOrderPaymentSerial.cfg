\* Requests one at a time, nothing fails, no cancellation.
CONSTANTS
    o1 = o1
    a1 = a1
    a2 = a2
    w1 = w1
    w2 = w2
    r1 = r1
    j1 = j1
    j2 = j2
    j3 = j3
    j4 = j4
    NoOrder = NoOrder
    NoJob = NoJob
    NoData = NoData
    Orders = {o1}
    PaymentWorkers = {w1, w2}
    RetryWorkers = {r1}
    Targets <- PaymentTargets
    Procs = {a1, w1, w2, r1}
    Api = {a1}
    Jobs = {j1, j2, j3}
    Requests = {"accept", "reject", "retry"}
    Scenarios = {"success", "failure", "timeout"}
    FaultyProcs = {}
    MaxRequests = 4
    MaxFaults = 0
    MaxCrashes = 0
SPECIFICATION FairSpec
INVARIANTS
    RowsAgree
    RetryIsOfferedForCause
    ChargedOnce
PROPERTIES
    FollowsTheTable
    PaymentSettles
CHECK_DEADLOCK FALSE
