SPECIFICATION Spec
CONSTANTS
    a1 = a1
    a2 = a2
    a3 = a3
    l1 = l1
    d1 = d1
    e1 = e1
    e2 = e2
    e3 = e3
    p1 = p1
    p2 = p2
    Sessions = {s1, s2, s3}
    Accounts = {a1, a2, a3}
    Listings = {l1}
    Addresses = {d1}
    Emails = {e1, e2, e3}
    Passwords = {p1, p2}
    MaxMedia = 2
    Null = Null
    New = New
    NoRow = NoRow
    Menu <- MCMenu
    InitStore <- MCStore
    PoolSize = 2
SYMMETRY Symmetry
INVARIANTS EmailUnique AcceptedIsComplete
PROPERTIES ProfileChangeIsWhole RefinesExchange
