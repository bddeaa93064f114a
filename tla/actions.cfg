SPECIFICATION Spec
CONSTANTS
    None = None
    Agents = {a1, a2}
    MaxTokens = 3
    MaxQuotes = 1
    MaxFaults = 2
INVARIANTS
    TypeOK
    AccountKept
    DeletedIsGone
    QuotesHaveRows
PROPERTIES
    ToggleAligns
SYMMETRY AgentSymmetry
