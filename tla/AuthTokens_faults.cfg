\* Two requests at a time, a database that fails, crashes, expiry.
SPECIFICATION AuthSpec
CONSTANTS
    Emails = {ada}
    Tokens = {t1, t2, t3}
    NoToken = NoToken
    Handlers = {h1, h2}
    Faults = {"db_error", "crash", "expire", "refused"}
    t1 = t1
    t2 = t2
    t3 = t3
    h1 = h1
    h2 = h2
    ada = ada
SYMMETRY Symmetry
INVARIANTS OneAccountPerEmail RevokedIsRefused
