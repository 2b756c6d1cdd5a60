\* Two requests at a time; once, an await fails or the process dies.
CONSTANTS
    o1 = o1
    a1 = a1
    a2 = a2
    w1 = w1
    w2 = w2
    r1 = r1
    j1 = j1
    j2 = j2
    j3 = j3
    j4 = j4
    NoOrder = NoOrder
    NoJob = NoJob
    NoData = NoData
    Orders = {o1}
    PaymentWorkers = {w1, w2}
    RetryWorkers = {r1}
    Targets <- PaymentTargets
    Procs = {a1, a2, w1, w2, r1}
    Api = {a1, a2}
    Jobs = {j1, j2, j3}
    Requests = {"cancel", "retry"}
    Scenarios = {"success", "failure", "timeout"}
    FaultyProcs = {a1, a2, w1, w2, r1}
    MaxRequests = 3
    MaxFaults = 1
    MaxCrashes = 1
SPECIFICATION Spec
CONSTRAINT OneMishap
SYMMETRY AllSymmetry
INVARIANTS
    PaymentTypeOK
    PaidOrdersHaveReference
    ChargesAreCounted
PROPERTIES
    CallsTheLifecycle
    NoOrderForgotten
CHECK_DEADLOCK FALSE
