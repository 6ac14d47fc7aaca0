SPECIFICATION Spec
CONSTANTS
    a1 = a1
    a2 = a2
    l1 = l1
    l2 = l2
    d1 = d1
    d2 = d2
    e1 = e1
    e2 = e2
    p1 = p1
    Sessions = {s1, s2, s3}
    Accounts = {a1, a2}
    Listings = {l1, l2}
    Addresses = {d1, d2}
    Emails = {e1, e2}
    Passwords = {p1}
    MaxMedia = 2
    Null = Null
    New = New
    NoRow = NoRow
    Menu <- MCMenu
    InitStore <- MCStore
    PoolSize = 3
SYMMETRY Symmetry
INVARIANTS TypeOK LocksExclusive OneReceiver MediaAreWhole
INVARIANTS PartiesAgree ClosureReachesListings ClosureReachesConversations
PROPERTIES ClosedIsFinal RefusedLeavesNoTrace ModificationIsWhole
