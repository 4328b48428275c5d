SPECIFICATION Spec
CONSTANTS
    MaxRequests = 2
    k1 = k1
    k2 = k2
    a1 = a1
    Keys = {k1, k2}
    ApiOf <- MCOneApi
    Api = a1
    Deletable = {a1}
    KeyOf <- MCKeyOf
    BytesOf <- MCBytesOf
    Int4Max = 2
    StatusOf <- MCStatusOf
    Workers = {w1, w2}
    MaxDay = 3
    DayTicks = 2
    ClockOf <- MCClockOf
    Windows = {1, 2}
    Limits = {1}
INVARIANTS
    TypeOK
    PastDaysComplete
    ReportsAgree
PROPERTIES
    EventuallyRolledUp
