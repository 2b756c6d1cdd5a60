\* One request; no outage, mishap or restart is needed.
CONSTANTS
    r1 = r1
    r2 = r2
    Requests = {r1}
    Calls <- CallsMC
    MaxRestarts = 0
    MaxOutages = 0
    MaxMishaps = 0
SPECIFICATION Spec
INVARIANTS
    EveryRequestIsCounted
