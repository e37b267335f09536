SPECIFICATION FairSpec
CONSTANTS
    Clients = {c1}
    Conns = {k1, k2}
    Codes = {e1, e2}
    Hellos <- RichHello
    Versions = {v1}
    NoVersion = NoVersion
    NoSession = NoSession
    NoClient = NoClient
    MaxTokens = 2
    MaxCuts = 1
INVARIANTS
    SessionsSound
    CodesSound
PROPERTIES
    RotatedTokenRefused
    CutsTakeEffect
