CONSTANTS
    IV <- MCIV
    NumTemps = 5
    MaxRows = 3
    VarTemps = {0, 1}
    Vals = {1, 5}
    Totals = {0, 4}
SPECIFICATION Spec
INVARIANTS SummaryReflectsRows SingleOwner
