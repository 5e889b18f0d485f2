SPECIFICATION Spec
CONSTANTS
    Experts = {e1, e2}
    MaxChain = 2
INVARIANT
    BudgetForEveryExpert
