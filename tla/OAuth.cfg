SPECIFICATION Spec
CONSTANTS
    Clients = {c1, c2}
    Configured = {c1}
    Refreshing = {c1}
    Crediting = {c1}
    Scopes = {a, b}
    MaxCodes = 1
    MaxTokens = 4
    MaxRestarts = 1
INVARIANTS
    ScopeWithinConsent
PROPERTIES
    LiveTokensStay
    GrantSpec
CHECK_DEADLOCK FALSE
