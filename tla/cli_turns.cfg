SPECIFICATION TurnSpec
CONSTANTS
    Backends = {"claude", "codex", "gemini"}
    Helpers = {"none", "child", "lingering", "stubborn"}
    MaxLines = 2
    PipeSize = 1
    Turns <- MCTurns
    Values <- MCValues
INVARIANTS NothingLeftBehind AnswerIsWhole ErrorsAreReported SessionKept
PROPERTIES TurnEnds
CHECK_DEADLOCK FALSE
