\* The delivery job is the only assigner; an await fails, the process restarts,
\* riders toggle and act as early as they can.
CONSTANTS
    o1 = o1
    a1 = a1
    a2 = a2
    w1 = w1
    w2 = w2
    r1 = r1
    r2 = r2
    j1 = j1
    NoOrder = NoOrder
    NoJob = NoJob
    NoData = NoData
    NoRider = NoRider
    Orders = {o1}
    Riders = {r1, r2}
    Api = {a1}
    DeliveryWorkers = {w1, w2}
    Procs = {a1, w1, w2}
    Jobs = {j1}
    Targets <- DispatchTargets
    Requests = {"preparing", "ready", "accept", "pick_up", "out_for_delivery", "deliver"}
    FaultyProcs = {a1, w1, w2}
    MaxRequests = 6
    MaxToggles = 1
    MaxFaults = 1
    MaxCrashes = 1
SPECIFICATION FairSpec
INVARIANTS
    RidersAgree
    PickedUpOrderKeepsUp
PROPERTIES
    ReadyIsNotForgotten
    ReadyIsHandled
CHECK_DEADLOCK FALSE
