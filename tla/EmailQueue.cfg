\* Two concurrent calls with one key, the real number of attempts.
SPECIFICATION Spec
CONSTANTS
    autopilot = autopilot
    api = api
    Callers = {autopilot, api}
    MaxAttempts = 3
INVARIANTS TypeOK OneKeyOneSend AttemptsInOrder ReceiptsAreTrue ReplayReturnsReceipt
PROPERTIES KeepsPromise
