CONSTANTS
    None = None
    ExtraDays = 1
    Policies <- MCPolicies
    Percentages <- MCPercentages
SPECIFICATION Spec
INVARIANT UndatedFlagIsNotAged
