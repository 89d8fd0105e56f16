SPECIFICATION Spec
CONSTANTS
    old = old
    new = new
    Jobs <- Three
    Workers = {old}
    DayLength = 3
    Jitter = 1
    Soon = 1
    Reasons = {"capped", "locked", "address", "queue"}
    MaxDeferrals = 3
    MaxCrashes = 0
    Events = {}
INVARIANTS PromiseHasJob
