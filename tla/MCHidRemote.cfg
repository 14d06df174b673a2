\* Both remotes, three buttons, a queue of one event.
\* An app that hangs on its way out stops for good (HoldBackExits).
SPECIFICATION FairSpec
CHECK_DEADLOCK FALSE
CONSTANTS
    Remotes = {"enter", "rvmc"}
    Buttons <- MCButtons
    QueueSize = 1
    MaxEmitted = 2
    MaxNotices = 1
INVARIANTS
    TypeOK
    NoKeyStuck
    ReportMirrorsButtons
    ClicksAreTyped
    LedOnlyIfConnected
PROPERTY
    HoldBackQuits
