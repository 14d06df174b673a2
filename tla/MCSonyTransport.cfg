\* Two cameras that notify, every fault but a discovery that ends by itself.
SPECIFICATION Spec
CONSTANTS
    c1 = c1
    c2 = c2
    h1 = h1
    NoCamera = NoCamera
    NoHandle = NoHandle
    Cameras <- MCCameras
    Handles <- MCHandles
    Buttons <- MCButtons
    Notices <- MCNotices
    Faults = {"refuse", "terminationError", "connectFails", "pairingFails",
              "notFound", "gattError", "linkLoss"}
    MaxEvents = 3
SYMMETRY
    Likewise
INVARIANTS
    TypeOK
    AttributesOfLinkedCamera
    ScanOnlyUnlinked
    StopHangsUp
    RecordingShown
PROPERTY
    ReadyMeansUsable
