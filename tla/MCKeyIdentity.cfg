\* A keys file may fail to be written, and the default one may be missing.
SPECIFICATION Spec
CONSTANTS
    w1 = w1
    w2 = w2
    legacy = legacy
    r1 = r1
    r2 = r2
    r3 = r3
    r4 = r4
    Legacy = legacy
    NoFile = NoFile
    Apps <- MCApps
    Hosts <- TwoHosts
    RootKeys <- MCRootKeys
    Faults = {"save", "noDefault"}
SYMMETRY
    Alike
INVARIANTS
    TypeOK
    PairingsApart
    OwnIdentity
    PairingsSurvive

    
