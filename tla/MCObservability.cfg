\* Two requests at the same time, an outage, a mishap and a restart.
CONSTANTS
    r1 = r1
    r2 = r2
    Requests = {r1, r2}
    Calls <- CallsMC
    MaxRestarts = 1
    MaxOutages = 1
    MaxMishaps = 1
SPECIFICATION Spec
INVARIANTS
    ObservabilityTypeOK
    CountedAsAnswered
    ActiveCountsInside
    RefreshedGauges
PROPERTIES
    RequestsEnd
    RedisClientSettles
