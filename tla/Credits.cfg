SPECIFICATION Spec
CONSTANTS
    ann = ann
    bob = bob
    cyd = cyd
    pass = pass
    approval = approval
    People = {ann, bob, cyd}
    Senders = {pass, approval}
    Passes = {pass}
    Allowances = {1, 2}
    Pack = 1
    LastMonth = 1
    MaxPacks = 1
    MaxUpsets = 1
SYMMETRY Symmetry
INVARIANTS CoveredIsFree OverrunBounded
CHECK_DEADLOCK FALSE
