\* One tab, reloaded at any moment, and every fault but failing database calls.
SPECIFICATION SessionSpec
CONSTANTS
    Emails = {ada}
    User = ada
    Tokens = {t1, t2, t3}
    FirstToken = t1
    NoToken = NoToken
    Handlers = {h1, h2}
    NoHandler = NoHandler
    Faults = {"crash", "expire", "refused"}
    Tabs = {tab}
    Calls = {me, c1}
    Me = me
    Patient = TRUE
    BrowserFaults = {"blip", "reply_lost", "reload"}
    t1 = t1
    t2 = t2
    t3 = t3
    h1 = h1
    h2 = h2
    tab = tab
    me = me
    c1 = c1
    ada = ada
SYMMETRY Symmetry
INVARIANTS SessionTypeOK SignedInHasTokens ReplacedIsRevoked
PROPERTIES ForgottenIsUnusable
