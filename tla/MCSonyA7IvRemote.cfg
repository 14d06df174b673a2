\* Both presses; links break, writes fail and commands are refused.
SPECIFICATION AppSpec
CONSTANTS
    c1 = c1
    h1 = h1
    NoCamera = NoCamera
    NoHandle = NoHandle
    Cameras <- MCCameras
    Handles <- MCHandles
    Buttons <- MCButtons
    Presses <- BothPresses
    Notices = {}
    Faults = {"linkLoss", "gattError", "refuse"}
    MaxEvents = 2
INVARIANTS
    AppTypeOK
    WriteReachesCamera
    PressLeavesNothingHeld
PROPERTIES
    DeliversButtons
    FocusBeforeShutter
