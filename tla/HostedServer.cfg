SPECIFICATION Spec
CONSTANTS
    Thread = {t1, t2}
    k1 = k1
    k2 = k2
    Token = {k1, k2}
    Seeded = {k1}
    Cap <- MCCap
    Nobody = Nobody
    Torn = Torn
    MaxPeriod = 2
    MaxCrashes = 1
    MaxRequests = 3
INVARIANTS QuotaHolds AnsweredIsDurable
PROPERTIES RevokeIsFinal RequestsEnd
