SPECIFICATION AccountingSpec
CONSTANTS
    MonthlyLimits = {2}
    Chunks = {1}
    QuotaRequests = {"put", "patch", "delete"}
    MaxSent = 1
    MaxMonth = 0
    MaxQuotaRequests = 1
    MaxCuts = 1
    NoRow = NoRow
    NoHandle = NoHandle
INVARIANT
    ActivatedUnderQuota
CHECK_DEADLOCK FALSE
