CONSTANTS
    a1 = a1
    a2 = a2
    b = b
    ann = ann
    bob = bob
    h1 = h1
    h2 = h2
    w1 = w1
    w2 = w2
    None = None
    Notifications = {a1, a2}
    Users = {ann, bob}
    Recipients <- MCRecipients
    Events <- BothUsers
    Broadcasts = {}
    Reachable = {}
    Newcomers = {ann, bob}
    Requests = {h1, h2}
    Workers = {w1}
    MaxAttempts = 1
    MaxVersion = 0
    MaxFailures = 1
SYMMETRY Symmetry
SPECIFICATION Spec
INVARIANTS
    OneDeliveryPerChannel
    UnpublishedIsSilent
    OnlyFailuresLose
