SPECIFICATION BackOfficeSpec
CONSTANTS
    MaxRoles = 2
    Emails <- MCEmails
    Owner = "owner"
    Providers = {"okta"}
    Config <- MCConfig
    Settings <- MCSettings
    InviteRoles <- MCInviteRoles
    Workers = {w1, w2}
    MaxTokens = 2
    Tabs = {t1, t2}
    MaxIssued = 2
    MaxAttempts = 2
    Compiled <- compile
    Evaluated <- evaluate
    Formulas <- MCFormulas
    PayCases <- MCPayCases
    Raises <- MCRaises
    ReportCases <- MCReportCases
    Collation <- MCCollation
    Hierarchies <- MCHierarchies
    Anchors <- MCAnchors
    PayOffsets = {5}
    Counts = {1, 13}
    Clerks = {c1, c2}
    MaxPeriods = 14
    ReportNames = {"a", "b"}
    Specs <- MCSpecs
    Hours = {6, 9}
    Changes <- MCChanges
    Start <- MCStart
    Elapsed = {3}
    Editors = {e1, e2}
    MaxReports = 2
    Askers = {"ann", "bob"}
    RolesOf <- MCRolesOf
    Linked = {"ann"}
    Questions <- MCQuestions
    Texts <- MCTexts
    MaxArticles = 1
    MaxTurns = 2
INVARIANTS
    RoutesReachable
    AuditorReadsOnly
    OneIdentityPerPerson
    OwnerUnlessInterrupted
    OneLivePerFamily
    CookieCatchesUp
    FormulaRoundTrip
    RaiseNeverCosts
    PayslipReconciles
    ReportsReconcile
    EverybodyOnce
    PeriodsTile
    NextRunOnGrid
    GroundedOrEscalated
    OneTicketPerEscalation
PROPERTIES
    ReactivatedByScim
    
    TokensForActiveOnly
CHECK_DEADLOCK FALSE
