SPECIFICATION ReadSpec
CONSTANTS
    a1 = a1
    a2 = a2
    a3 = a3
    l1 = l1
    l2 = l2
    d1 = d1
    e1 = e1
    e2 = e2
    e3 = e3
    p1 = p1
    Sessions = {s1, s2}
    Accounts = {a1, a2, a3}
    Listings = {l1, l2}
    Addresses = {d1}
    Emails = {e1, e2, e3}
    Passwords = {p1}
    MaxMedia = 2
    Null = Null
    New = New
    NoRow = NoRow
    Menu <- MCMenu
    InitStore <- MCStore
    PoolSize = 3
    Readers = {r1}
    ReadMenu <- MCReadMenu
SYMMETRY Symmetry
INVARIANTS PartsBelongTogether NoMediumIsOlder MediaShownAreWhole AnswersAreCurrent
