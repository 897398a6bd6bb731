SPECIFICATION YearSpec
CONSTANTS
    Salaries <- MCSalaries
    Unit = 2500
    Compiled <- compile
    Evaluated <- evaluate
INVARIANT AnnualCapHeld
