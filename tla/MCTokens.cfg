CONSTANTS
    a1 = a1
    a2 = a2
    e1 = e1
    e2 = e2
    e3 = e3
    p1 = p1
    p2 = p2
    Sessions = {s1, s2}
    Accounts = {a1, a2}
    Emails = {e1, e2, e3}
    Passwords = {p1, p2}
    InitAccounts <- MCAccounts
    Menu <- MCMenu
    Foreign <- MCForeign
    Lifetime = 1
    MaxTime = 1
    Null = Null
SPECIFICATION Spec
INVARIANTS TypeOK CredentialsWereCurrent EverybodyLoggedIn BadTokensAreRefused
SYMMETRY Symmetry
CHECK_DEADLOCK FALSE
