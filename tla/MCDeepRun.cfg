CONSTANTS
    d = d  c = c  r1 = r1  r2 = r2  r3 = r3  p1 = p1  p2 = p2
    Horizon = 1
    MaxSessions = 2
    Windows = {1}
    Policies <- MCPolicies
    MaxPerHour = 1
    Resident = {d}
    OneShot = {c}
    Request = {r1, r2, r3}
    Proxy = {p1, p2}
    Gateway = {p1}
    ProxyOf <- MCProxyOf
SPECIFICATION MCSpec
INVARIANTS
    TypeOK
    OneActive
    GateWithinCap
    GatesSeeTheSession
    HourlyBudget
PROPERTIES
    OverIsOver
    CountsEveryCall
