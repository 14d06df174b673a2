\* Well-formed, truncated and garbled events.
SPECIFICATION Spec
CONSTANTS
    Airs <- MCAirs
    Garbled <- MCGarbled
INVARIANT
    RecognisesCameras
PROPERTY
    NoReadOutside
