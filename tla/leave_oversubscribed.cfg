SPECIFICATION Spec
CONSTANTS
    b1 = b1
    b2 = b2
    r1 = r1
    r3 = r3
    None = None
    Balances = {b1}
    Requests = {r1, r2, r4}
    Sessions = {s1, s2}
    Entitlements = {3}
    DaysOf <- MCDaysOf
    HeldBy <- MCHeldBy
    Accrual <- MCAccrual
INVARIANT NotOversubscribed
