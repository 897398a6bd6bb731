SPECIFICATION Spec
CONSTANTS
    k1 = k1
    n1 = n1
    None = None
    File = File
    Keys = {k1, k2}
    Callers = {c1, c2}
    Numbers = {n1, n2}
    BatchOf <- MCBatchOf
INVARIANTS
    SingleWorker
    ToldTheTruth
PROPERTIES
    NoDoubleImport
    FinishesUnlessLost
