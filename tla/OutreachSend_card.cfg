SPECIFICATION Spec
CONSTANTS
    autopilot = autopilot
    api = api
    cha0spunk = cha0spunk
    knox = knox
    Runs = {autopilot}
    Requests = {api}
    Mailboxes = {knox}
    NoMailbox = NoMailbox
    Events = {"byhand", "dismiss", "switch", "unsubscribe", "week"}
    MaxActions = 1
    MaxSendAttempts = 1
PROPERTIES MailboxesKeepPromise OnlyDeathsStrand
\* A card that is closed, or whose last process died, stays as it is.
CHECK_DEADLOCK FALSE
