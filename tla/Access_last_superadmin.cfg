SPECIFICATION AccessSpec
CONSTANTS
    Users = {u1, u2}
    Founder = u1
    HttpRequests = {q1, q2}
    Grants = {g1}
    OwnedIds = {i1}
    Scopes <- OneScope
    MaxTokens = 2
    NoGrant = NoGrant
    AbsentRule = AbsentRule
INVARIANT
    SuperadminStays
CHECK_DEADLOCK FALSE
