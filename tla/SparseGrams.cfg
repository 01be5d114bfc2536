CONSTANTS
    Codepoints = {a, b}
    MinGram = 4
    MaxGram = 5
    MaxText = 7
    MaxWeight = 3
    Budgets = {2}
SPECIFICATION Spec
CHECK_DEADLOCK FALSE
INVARIANTS GramsExact CoveringChain NeedleFound
