CONSTANTS
    Nodes <- MCNodes
    StringMakers = {"strings"}
    LocalParams <- MCLocalParams
    Pointing = {2}
    GlobalParams = {1, 2}
    Inputs <- MCInputs
    EmptyOutput = {"empty"}
    Budgets = {0, 3}
    UserBudget = 2
    MaxNesting = 2
    MaxDepth = 1
    MaxChanged = 1
SPECIFICATION Spec
INVARIANTS
    ReplayEqualsRun
    NoDanglingOutput
    BorrowedIsAlive
    BudgetKept
