SPECIFICATION Spec
CONSTANTS
    Pipes <- MCPipes
    Slack = 1
CHECK_DEADLOCK FALSE
INVARIANTS
    FactsAreFinal
    SinksAreSound
PROPERTIES
    FactsComplete
