SPECIFICATION Spec
CONSTANTS
    autopilot = autopilot
    api = api
    cha0spunk = cha0spunk
    knox = knox
    Runs = {autopilot}
    Requests = {api}
    Mailboxes = {cha0spunk, knox}
    NoMailbox = NoMailbox
    Events = {"crash"}
    MaxActions = 2
    MaxSendAttempts = 1
INVARIANTS NeverMailedTwice
\* A card that is closed, or whose last process died, stays as it is.
CHECK_DEADLOCK FALSE
