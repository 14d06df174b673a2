\* Back alone: hosts come while the app starts.
SPECIFICATION Spec
CHECK_DEADLOCK FALSE
CONSTANTS
    Remotes = {"enter", "rvmc"}
    Buttons <- OnlyBack
    QueueSize = 8
    MaxEmitted = 2
    MaxNotices = 1
INVARIANT
    LedIfConnected
