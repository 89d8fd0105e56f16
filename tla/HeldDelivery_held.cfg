SPECIFICATION FairSpec
CONSTANTS
    old = old
    new = new
    Jobs <- Three
    Workers = {old, new}
    DayLength = 2
    Jitter = 1
    Soon = 1
    Reasons = {"capped", "locked", "address", "queue"}
    MaxDeferrals = 3
    MaxCrashes = 1
    Events = {"throw", "stop", "sent"}
INVARIANTS PromiseHasLiveJob StopsAreHonoured
PROPERTIES JobsKeepPromise PromiseIsSettled
