\* Two browsers, two requests under way, two accounts.
SPECIFICATION Spec
CONSTANTS
    Browsers = {b1, b2}
    Requests = {r1, r2}
    Accounts = {a1, a2}
    Tokens = {t1, t2, t3}
    None = None
    Forms <- MCForms
SYMMETRY MCSymmetry
INVARIANTS
    AuthTypeOK
    UniqueAccounts
    ReplayRefused
    SessionSurvives
    LogoutEndsSession
