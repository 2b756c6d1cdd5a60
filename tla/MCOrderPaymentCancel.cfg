\* A customer cancels while the payment worker is at it.
CONSTANTS
    o1 = o1
    a1 = a1
    a2 = a2
    w1 = w1
    w2 = w2
    r1 = r1
    j1 = j1
    j2 = j2
    j3 = j3
    j4 = j4
    NoOrder = NoOrder
    NoJob = NoJob
    NoData = NoData
    Orders = {o1}
    PaymentWorkers = {w1, w2}
    RetryWorkers = {r1}
    Targets <- PaymentTargets
    Procs = {a1, w1, w2, r1}
    Api = {a1}
    Jobs = {j1, j2, j3}
    Requests = {"cancel"}
    Scenarios = {"success"}
    FaultyProcs = {}
    MaxRequests = 2
    MaxFaults = 0
    MaxCrashes = 0
SPECIFICATION Spec
INVARIANT CancelledIsNotPaid
CHECK_DEADLOCK FALSE
