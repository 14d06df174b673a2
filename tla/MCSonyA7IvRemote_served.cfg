\* Nothing fails and the camera stays in range.
SPECIFICATION InRangeSpec
CONSTANTS
    c1 = c1
    h1 = h1
    NoCamera = NoCamera
    NoHandle = NoHandle
    Cameras <- MCCameras
    Handles <- MCHandles
    Buttons <- MCButtons
    Presses <- RecordPress
    Notices = {}
    Faults = {}
    MaxEvents = 2
PROPERTY
    CameraEventuallyServed
