SPECIFICATION FairSpec
CONSTANTS
    old = old
    new = new
    NoCard = NoCard
    Containers = {old, new}
    Messages = {1, 2}
    Stops = {2}
    Cards = {1, 2}
    MaxUpsets = 2
INVARIANTS StopIsHeard
PROPERTIES JobsKeepPromise AnsweredOnce RepliesSettle
\* A conversation ends.
CHECK_DEADLOCK FALSE
