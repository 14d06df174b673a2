\* Three buttons, a queue of one event.
\* An app that hangs on its way out stops for good.
SPECIFICATION AppSpec
CHECK_DEADLOCK FALSE
CONSTANTS
    Buttons <- MCButtons
    QueueSize = 1
    MaxEmitted = 2
    Presses <- MCPresses
    PressOf <- MCPressOf
INVARIANTS
    AppTypeOK
    ClicksKept
PROPERTIES
    OnePressPerClick
    HoldBackLeaves
