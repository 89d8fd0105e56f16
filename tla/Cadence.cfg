SPECIFICATION FairSpec
CONSTANTS
    old = old
    new = new
    connect = connect
    email = email
    Passes = {old, new}
    Last = 2
    Kinds = {connect, email}
    Outbound = {connect, email}
    Kind <- PlanKind
    Delay <- PlanDelay
    Condition <- PlanCondition
    Window <- PlanWindow
    StopOnReply <- PlanStop
    Recheck = 1
    Horizon = 2
    MaxCrashes = 1
    MaxOverlaps = 2
    MaxUpsets = 2
INVARIANTS TypeOK NoStepLost OneAsk NeverEarly NoCardAfterReply
PROPERTIES PlanEnds
