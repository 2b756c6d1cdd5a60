\* An owner assigns by hand while the delivery job is at it.
CONSTANTS
    o1 = o1
    a1 = a1
    a2 = a2
    w1 = w1
    w2 = w2
    r1 = r1
    r2 = r2
    j1 = j1
    NoOrder = NoOrder
    NoJob = NoJob
    NoData = NoData
    NoRider = NoRider
    Orders = {o1}
    Riders = {r1, r2}
    Api = {a1, a2}
    DeliveryWorkers = {w1}
    Procs = {a1, a2, w1}
    Jobs = {j1}
    Targets <- DispatchTargets
    Requests = {"preparing", "ready", "assign", "accept", "pick_up", "out_for_delivery", "deliver"}
    FaultyProcs = {}
    MaxRequests = 7
    MaxToggles = 0
    MaxFaults = 0
    MaxCrashes = 0
SPECIFICATION Spec
INVARIANT OnlyReadyOrdersAreAssigned
CHECK_DEADLOCK FALSE
