SPECIFICATION OutSpec
CONSTANTS
    g1 = g1
    e1 = e1
    None = None
    Managers = {u1}
    Approvers = {u2}
    Employees = {e1, e2}
    Groups = {g1, g2}
    Periods = {p1}
    Claims = {c1}
    Sessions = {s1}
    GroupOf <- MCGroupOf
    OwnerOf <- MCOwnerOf
    PeriodsOf <- MCPeriodsOf
    MayJoin <- MCMayJoin
    MayLapse = {}
INVARIANT BankFileRecoverable
