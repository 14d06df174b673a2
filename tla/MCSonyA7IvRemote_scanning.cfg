\* The radio ends a discovery by itself.
SPECIFICATION AppSpec
CONSTANTS
    c1 = c1
    h1 = h1
    NoCamera = NoCamera
    NoHandle = NoHandle
    Cameras <- MCCameras
    Handles <- MCHandles
    Buttons <- MCButtons
    Presses <- RecordPress
    Notices = {}
    Faults = {"discoveryTimeout"}
    MaxEvents = 2
INVARIANT
    ScanningMeansDiscovering
