SPECIFICATION Spec
CONSTANTS
    c1 = c1
    c2 = c2
    c3 = c3
    Calls = {c1, c2, c3}
    Clients = {k1, k2}
    None = None
    Length <- MCLength
INVARIANTS TypeOK ReleasedClientsAreClean AllOrNothing AnswersAreTrue
PROPERTIES RefinesAtomicCalls EveryCallAnswered
