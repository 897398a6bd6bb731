SPECIFICATION Spec
CONSTANTS
    g1 = g1
    g2 = g2
    p2 = p2
    e1 = e1
    e2 = e2
    c2 = c2
    None = None
    Managers = {u1}
    Approvers = {u1, u2}
    Employees = {e1, e2}
    Groups = {g1, g2}
    Periods = {p1, p2}
    Claims = {c1, c2}
    Sessions = {s1}
    GroupOf <- MCGroupOf
    OwnerOf <- MCOwnerOf
    PeriodsOf <- MCPeriodsOf
    MayJoin <- MCMayJoin
    MayLapse = {e2}
    Movers = {e1}
INVARIANT NoDoublePayment
