SPECIFICATION Spec
CONSTANTS
    a1 = a1
    a2 = a2
    l1 = l1
    d1 = d1
    e1 = e1
    e2 = e2
    p1 = p1
    Sessions = {s1, s2}
    Accounts = {a1, a2}
    Listings = {l1}
    Addresses = {d1}
    Emails = {e1, e2}
    Passwords = {p1}
    MaxMedia = 1
    Null = Null
    New = New
    NoRow = NoRow
    Menu <- ClosingMenu
    InitStore <- MCStore
    PoolSize = 3
INVARIANTS ClosedAccountsOfferNothing
