CONSTANTS
    a1 = a1
    a2 = a2
    b = b
    ann = ann
    bob = bob
    h1 = h1
    h2 = h2
    w1 = w1
    w2 = w2
    None = None
    Notifications = {b}
    Users = {ann, bob}
    Recipients <- MCRecipients
    Events <- Nobody
    Broadcasts = {b}
    Reachable = {ann}
    Newcomers = {bob}
    Requests = {h1}
    Workers = {w1, w2}
    MaxAttempts = 2
    MaxVersion = 1
    MaxFailures = 2
SPECIFICATION FairSpec
INVARIANTS
    TypeOK
    MessagesAreExcused
    StatusIsTrue
PROPERTIES
    DeletedIsFinal
    DueIsPublished
    QueuedIsAnswered
