SPECIFICATION Spec
CONSTANTS
    Clients = {c1}
    Conns = {k1}
    Codes = {e1}
    Hellos <- SmallHellos
    Versions = {v1}
    NoVersion = NoVersion
    NoSession = NoSession
    NoClient = NoClient
    MaxTokens = 1
    MaxCuts = 1
INVARIANT RevokedNotConnected
