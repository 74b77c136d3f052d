\* One browser of one account with two workspaces, two requests at a time, two sessions with
\* three tokens in all, one link or passkey challenge.
CONSTANTS
    Users = {u}
    Teams = {t}
    Browsers = {b}
    Sessions = {s1, s2}
    Links = {c1}
    Requests = {r1, r2}
    MaxTokens = 3
    None = None
SPECIFICATION Spec
SYMMETRY Symmetry
INVARIANTS
    TokensKeepTheirWorkspace
    CookieKeepsUp
    SignedOutStaysOut
CHECK_DEADLOCK FALSE
