SPECIFICATION Spec
CONSTANTS
    r1 = r1
    r2 = r2
    r3 = r3
    login = login
    ada = ada
    Ada = Ada
    bola = bola
    p = p
    q = q
    n1 = n1
    n2 = n2
    n3 = n3
    Calls = {r1, r2, r3, login}
    Registers = {r1, r2, r3}
    Spelling <- MCSpelling
    Password <- MCPassword
    Lower <- MCLower
    Numbers = {n1, n2, n3}
    SESSION_TTL = 1
    End = 2
    None = None
CHECK_DEADLOCK FALSE
INVARIANTS
    TypeOK
    AccountsWhole
PROPERTIES
    AnswersTrue
