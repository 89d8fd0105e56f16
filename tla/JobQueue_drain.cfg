\* Two overlapping containers; two jobs of one dedupe key, the second queued
\* once the first is settled; a crash, an outage, handlers that are late.
SPECIFICATION FairSpec
CONSTANTS
    w1 = w1  w2 = w2   crawl = crawl
    Jobs = {1, 2}
    Workers = {w1, w2}
    Kinds = {crawl}
    KindsOf <- MCSameKinds
    Keys = {k1}
    NoKey = NoKey
    MaxAttemptsSet = {2}
    DelaySet = {0}
    Limit = 1
    Lease = 0
    BaseBackoff = 1
    MaxBackoff = 1
    OutageBackoff = 1
    AgeCap = 0
    MaxCrashes = 1
    MaxOutages = 1
CHECK_DEADLOCK FALSE
INVARIANTS TypeOK ExclusiveClaim AttemptLedger DeadOnlyWhenExhausted BudgetUpToReclaims DrainNeverAborts
PROPERTIES JobsKeepPromise EventuallySettled
