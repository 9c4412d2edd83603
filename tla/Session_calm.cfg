\* One tab with two concurrent calls; calls and refreshes fail, sessions expire.
SPECIFICATION SessionFairSpec
CONSTANTS
    Emails = {ada}
    User = ada
    Tokens = {t1, t2, t3}
    FirstToken = t1
    NoToken = NoToken
    Handlers = {h1, h2}
    NoHandler = NoHandler
    Faults = {"expire", "refused"}
    Tabs = {tab}
    Calls = {me, c1, c2}
    Me = me
    Patient = TRUE
    BrowserFaults = {"blip"}
    t1 = t1
    t2 = t2
    t3 = t3
    h1 = h1
    h2 = h2
    tab = tab
    me = me
    c1 = c1
    c2 = c2
    ada = ada
\* A signed-out user with no token left to sign in has nothing to do.
CHECK_DEADLOCK FALSE
INVARIANTS OneSuccessor
PROPERTIES SessionSurvivesBlips EverythingSettles
