\* Back alone: a long hold, its repeats and its release.
\* The app hangs on its way out (HoldBackExits): that is what the run shows.
SPECIFICATION FairSpec
CHECK_DEADLOCK FALSE
CONSTANTS
    Remotes = {"enter", "rvmc"}
    Buttons <- OnlyBack
    QueueSize = 8
    MaxEmitted = 2
    MaxNotices = 1
PROPERTY
    HoldBackExits
