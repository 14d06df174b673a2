\* Record presses under fairness; every step of an attempt may fail, and
\* a connection requested may never come up.
SPECIFICATION FairAppSpec
CONSTANTS
    c1 = c1
    h1 = h1
    NoCamera = NoCamera
    NoHandle = NoHandle
    Cameras <- MCCameras
    Handles <- MCHandles
    Buttons <- MCButtons
    Presses <- RecordPress
    Notices = {}
    Faults = {"refuse", "discoveryTimeout", "terminationError", "connectFails",
              "pairingFails", "notFound", "gattError", "linkLoss"}
    MaxEvents = 2
PROPERTY
    AttemptSettles
