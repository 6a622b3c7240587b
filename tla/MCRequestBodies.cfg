SPECIFICATION Spec
CONSTANTS
    Messages <- MCMessages
    Items <- MCItems
    Limits = {0, 1000, 8192, 30000}
    MaxTurns <- MCMaxTurns
    DefaultStore = "false"
INVARIANTS
    NothingIsLost
    ResultsAnswerCalls
    ThinkingFits
    SettingsTakeEffect
    ClaudeAcceptsLess
PROPERTIES
    EarlierTurnsAreKept
CHECK_DEADLOCK FALSE
