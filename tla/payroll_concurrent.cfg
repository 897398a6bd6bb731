SPECIFICATION Spec
CONSTANTS
    g1 = g1
    g2 = g2
    p2 = p2
    e1 = e1
    e2 = e2
    c2 = c2
    None = None
    Managers = {u1, u2}
    Approvers = {u2}
    Employees = {e1, e3}
    Groups = {g1, g2}
    Periods = {p1}
    Claims = {c1}
    Sessions = {s1, s2}
    GroupOf <- MCGroupOf
    OwnerOf <- MCOwnerOf
    PeriodsOf <- MCPeriodsOf
    MayJoin <- MCMayJoin
    MayLapse = {}
    Movers = {e1}
SYMMETRY SessionSymmetry
INVARIANTS
    TwoPersonRule
    PaidClaimPinned
    OneLinePerEmployee
    LinesPayOwnClaims
