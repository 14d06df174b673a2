------------------------- MODULE SonyTransportProofs -------------------------
(* Proofs about SonyTransport, for every value of its constants.  The       *)
(* second part is about what the events not yet handled say of the link;    *)
(* it needs a radio that does not end a discovery by itself.                *)
EXTENDS SonyTransport, TLAPS

\* TypeOK made inductive: what a GAP completion connects to, and what a link
\* reports, is a camera and not the initial NoCamera.
LinkInv ==
    /\ link.phase # "down" => link.camera \in Cameras
    /\ link.phase \in {"up", "closing"} => link.handle \in Handles
PeerInv == conn.pending => peer_address \in Cameras
TypeInv == TypeOK /\ LinkInv /\ PeerInv

USE RadioAssumption, ButtonsAssumption

LEMMA EventIntro ==
    /\ \A c \in Cameras, p \in BOOLEAN : Advertisement(c, p) \in Event
    /\ \A ok \in BOOLEAN : ProcComplete(ok) \in Event
    /\ \A h \in Handles : Connected(TRUE, h) \in Event
    /\ Connected(FALSE, NoHandle) \in Event
    /\ \A h \in Handles : Disconnected(h) \in Event /\ NumericComparison(h) \in Event
    /\ \A h \in Handles, ok \in BOOLEAN :
          PairingComplete(h, ok) \in Event /\ GattComplete(h, ok) \in Event
    /\ \A h \in Handles, a \in Attrs : Result(h, a) \in Event
    /\ \A h \in Handles, a \in Attrs, n \in Notices : Notification(h, a, n) \in Event
  BY DEF Event, Advertisement, ProcComplete, Connected, Disconnected,
         NumericComparison, PairingComplete, GattComplete, Result, Notification

LEMMA EventElim ==
    ASSUME NEW e \in Event
    PROVE  /\ e.type = "advertisement" => e.camera \in Cameras /\ e.pairing \in BOOLEAN
           /\ e.type \in {"procComplete", "connected", "pairingComplete",
                          "gattComplete"} => e.ok \in BOOLEAN
           /\ e.type = "connected" /\ e.ok => e.handle \in Handles
           /\ e.type \notin {"advertisement", "procComplete", "connected"}
              => e.handle \in Handles
           /\ e.type \in {"result", "notification"} => e.attr \in Attrs
           /\ e.type = "notification" => e.notice \in Notices
  BY DEF Event

-----------------------------------------------------------------------------
(* The radio and the camera.                                               *)

\* One more event in the inbox.
LEMMA ReportType ==
    ASSUME inbox \in Seq(Event), NEW e \in Event, Report(e)
    PROVE  inbox' \in Seq(Event)
  BY DEF Report

LEMMA RadioType ==
    ASSUME RadioTypeOK, LinkInv, Radio
    PROVE  (RadioTypeOK /\ LinkInv)'
<1> USE EventIntro, ReportType DEF RadioTypeOK, LinkInv, Link, air, peer, camera
<1>1. ASSUME NEW c \in Cameras, NEW p \in BOOLEAN, Advertise(c, p)
      PROVE  (RadioTypeOK /\ LinkInv)'
  BY <1>1 DEF Advertise
<1>2. CASE DiscoveryTimeout
  BY <1>2 DEF DiscoveryTimeout
<1>3. ASSUME NEW ok \in BOOLEAN, DiscoveryEnds(ok)
      PROVE  (RadioTypeOK /\ LinkInv)'
  BY <1>3 DEF DiscoveryEnds
<1>4. ASSUME NEW ok \in BOOLEAN, PairFinishes(ok)
      PROVE  (RadioTypeOK /\ LinkInv)'
  BY <1>4 DEF PairFinishes
<1>5. ASSUME NEW h \in Handles, LinkUp(h)
      PROVE  (RadioTypeOK /\ LinkInv)'
  BY <1>5 DEF LinkUp
<1>6. CASE ConnectFails
  BY <1>6 DEF ConnectFails, NoLink
<1>7. CASE PairAsks
  BY <1>7 DEF PairAsks
<1>8. CASE LinkDown
  BY <1>8 DEF LinkDown, NoLink, Operations
<1> QED
  BY <1>1, <1>2, <1>3, <1>4, <1>5, <1>6, <1>7, <1>8 DEF Radio

LEMMA CameraType ==
    ASSUME RadioTypeOK, LinkInv, Camera
    PROVE  (RadioTypeOK /\ LinkInv)'
<1> USE EventIntro, ReportType
    DEF RadioTypeOK, LinkInv, Link, Operations, air, peer, camera
<1>1. CASE DiscoverySucceeds
  <2>1. <<link.camera, Seeks[proc]>> \in Attrs
    BY <1>1 DEF DiscoverySucceeds, Discoveries, Seeks, Attrs, Kinds
  <2>2. inbox' \in Seq(Event)
    <3> DEFINE r == Result(link.handle, <<link.camera, Seeks[proc]>>)
               g == GattComplete(link.handle, TRUE)
    <3>1. r \in Event /\ g \in Event
      BY <1>1, <2>1 DEF DiscoverySucceeds
    <3>2. inbox' = inbox \o <<r, g>>
      BY <1>1 DEF DiscoverySucceeds
    <3> HIDE DEF r, g
    <3> QED
      BY <3>1, <3>2
  <2> QED
    BY <1>1, <2>2 DEF DiscoverySucceeds
<1>2. CASE DiscoveryFindsNothing
  BY <1>2 DEF DiscoveryFindsNothing
<1>3. CASE EnablingSucceeds
  BY <1>3 DEF EnablingSucceeds
<1>4. CASE WriteSucceeds
  BY <1>4 DEF WriteSucceeds, Button
<1>5. CASE GattFails
  BY <1>5 DEF GattFails
<1>6. ASSUME NEW n \in Notices, Notify(n)
      PROVE  (RadioTypeOK /\ LinkInv)'
  BY <1>6 DEF Notify, Attrs, Kinds
<1> QED
  BY <1>1, <1>2, <1>3, <1>4, <1>5, <1>6 DEF Camera
-----------------------------------------------------------------------------
(* The initial state.                                                      *)

LEMMA NoConnectionType == NoConnection \in Connection /\ ~NoConnection.pending
  BY DEF NoConnection, Connection, Operations

LEMMA InitTypeInv == Init => TypeInv
<1> SUFFICES ASSUME Init PROVE TypeInv
  OBVIOUS
<1>1. RadioTypeOK
  BY DEF Init, RadioInit, RadioTypeOK, NoLink, Link, Operations, NoButton,
         Button, Controls
<1>2. DeviceTypeOK
  BY NoConnectionType DEF Init, DeviceTypeOK
<1>3. AtOK
  BY DEF Init, AtOK, AppLabels, BleLabels
<1>4. ControlTypeOK
  BY <1>3 DEF Init, ControlTypeOK, Operations, NoButton, Button, Controls, States
<1> QED
  BY <1>1, <1>2, <1>4, NoConnectionType
  DEF Init, RadioInit, TypeInv, TypeOK, LinkInv, PeerInv, NoLink
-----------------------------------------------------------------------------
(* The commands of the radio, and the steps of a thread.                   *)

\* Every command leaves the radio well typed when its arguments are.
LEMMA CommandType ==
    ASSUME RadioTypeOK, LinkInv, inbox' \in Seq(Event),
           \/ UNCHANGED radio
           \/ BeginDiscovery
           \/ EndDiscovery
           \/ \E c \in Cameras : BeginConnection(c)
           \/ \E h \in Handles \cup {NoHandle} : EndConnection(h)
           \/ BeginPairing
           \/ \E h \in Handles \cup {NoHandle} : ConfirmPairing(h)
           \/ \E op \in Operations : BeginGatt(op)
           \/ \E b \in Button, a \in Attrs \cup {NoAttr} : BeginWrite(b, a)
           \/ \E on \in BOOLEAN : SetAdvertising(on)
    PROVE  (RadioTypeOK /\ LinkInv)'
<1> USE DEF RadioTypeOK, LinkInv, Link, radio, air, peer, camera
<1>1. CASE UNCHANGED radio
  BY <1>1
<1>2. CASE BeginDiscovery
  BY <1>2 DEF BeginDiscovery
<1>3. CASE EndDiscovery
  BY <1>3 DEF EndDiscovery
<1>4. CASE \E c \in Cameras : BeginConnection(c)
  BY <1>4 DEF BeginConnection
<1>5. CASE \E h \in Handles \cup {NoHandle} : EndConnection(h)
  BY <1>5 DEF EndConnection, Linked
<1>6. CASE BeginPairing
  BY <1>6 DEF BeginPairing
<1>7. CASE \E h \in Handles \cup {NoHandle} : ConfirmPairing(h)
  BY <1>7 DEF ConfirmPairing
<1>8. CASE \E op \in Operations : BeginGatt(op)
  BY <1>8 DEF BeginGatt
<1>9. CASE \E b \in Button, a \in Attrs \cup {NoAttr} : BeginWrite(b, a)
  BY <1>9 DEF BeginWrite, Operations
<1>10. CASE \E on \in BOOLEAN : SetAdvertising(on)
  BY <1>10 DEF SetAdvertising
<1> QED
  BY <1>1, <1>2, <1>3, <1>4, <1>5, <1>6, <1>7, <1>8, <1>9, <1>10

LEMMA GotoType ==
    ASSUME AtOK, NEW label,
           \/ label \in AppLabels /\ Goto("app", label)
           \/ label \in BleLabels /\ Goto("ble", label)
    PROVE  AtOK'
  BY DEF AtOK, Goto

\* An event taken from the inbox is a radio event of the type asked for.
LEMMA TakeType ==
    ASSUME inbox \in Seq(Event), NEW type, Take(type)
    PROVE  /\ Head(inbox) \in Event /\ Head(inbox).type = type
           /\ inbox' \in Seq(Event)
  BY DEF Take

\* start_scan, run by either thread.
LEMMA StartScanType ==
    ASSUME TypeInv, NEW t \in {"app", "ble"}, StartScan(t)
    PROVE  TypeInv'
<1> USE CommandType, GotoType, NoConnectionType
    DEF TypeInv, TypeOK, PeerInv, DeviceTypeOK, ControlTypeOK, Step, ResetConnection,
        session, search, call, shown, device, data, Home
<1>0. inbox \in Seq(Event)
  BY DEF RadioTypeOK
<1>l. /\ {"loop", "scan", "scanCommand", "scanAccepted", "scanShow"} \subseteq AppLabels
      /\ {"idle", "scan", "scanCommand", "scanAccepted", "scanShow"} \subseteq BleLabels
  BY DEF AppLabels, BleLabels
<1>1. CASE ScanDeclined(t)
  BY <1>0, <1>l, <1>1 DEF ScanDeclined
<1>2. CASE ScanChecked(t)
  BY <1>0, <1>l, <1>2 DEF ScanChecked
<1>3. CASE ScanAccepted(t)
  BY <1>0, <1>l, <1>3 DEF ScanAccepted
<1>4. CASE ScanRefused(t)
  BY <1>0, <1>l, <1>4 DEF ScanRefused, States
<1>5. CASE ScanFlagged(t)
  BY <1>0, <1>l, <1>5 DEF ScanFlagged
<1>6. CASE ScanShown(t)
  BY <1>0, <1>l, <1>6 DEF ScanShown, States
<1> QED
  BY <1>1, <1>2, <1>3, <1>4, <1>5, <1>6 DEF StartScan
-----------------------------------------------------------------------------
(* The app thread.                                                         *)

LEMMA AppThreadType ==
    ASSUME TypeInv, AppThread
    PROVE  TypeInv'
<1> USE CommandType, GotoType, NoConnectionType
    DEF TypeInv, TypeOK, PeerInv, DeviceTypeOK, ControlTypeOK, Step, ResetConnection,
        session, search, call, shown, device, data, Connection
<1>0. /\ inbox \in Seq(Event) /\ NoAttr \in Attrs \cup {NoAttr}
      /\ "None" \in Operations /\ "WriteButton" \in Operations
  BY DEF RadioTypeOK, Operations
<1>1. CASE StartCall
  <2>1. CASE Start
    BY <1>0, <2>1 DEF Start, AppLabels
  <2>2. CASE StopAdvertising
    BY <1>0, <2>2 DEF StopAdvertising, AppLabels
  <2>3. CASE StartScan("app")
    BY <2>3, StartScanType
  <2> QED
    BY <1>1, <2>1, <2>2, <2>3 DEF StartCall
<1>2. CASE SendCall
  <2>1. CASE Arm \/ Claim
    BY <1>0, <2>1 DEF Arm, Claim, AppLabels
  <2>2. CASE WriteAccepted
    <3>1. conn.found["command"] \in Attrs \cup {NoAttr}
      BY DEF Kinds
    <3> QED
      BY <1>0, <2>2, <3>1 DEF WriteAccepted, AppLabels
  <2>3. CASE WriteRefused
    BY <1>0, <2>3 DEF WriteRefused, AppLabels
  <2>4. CASE Woken
    BY <1>0, <2>4 DEF Woken, AppLabels
  <2>5. CASE SendReturns
    BY <1>0, <2>5 DEF SendReturns, AppLabels
  <2>6. CASE SendTimeout
    BY <1>0, <2>6 DEF SendTimeout, AppLabels
  <2> QED
    BY <1>2, <2>1, <2>2, <2>3, <2>4, <2>5, <2>6 DEF SendCall
<1>3. CASE StopCall
  <2>1. CASE StopScan
    BY <1>0, <2>1 DEF StopScan, AppLabels
  <2>2. CASE StopScanFlag
    BY <1>0, <2>2 DEF StopScanFlag, AppLabels
  <2>3. CASE StopNoScan
    BY <1>0, <2>3 DEF StopNoScan, AppLabels
  <2>4. CASE StopLink
    BY <1>0, <2>4 DEF StopLink, AppLabels
  <2>5. CASE StopNoLink
    BY <1>0, <2>5 DEF StopNoLink, AppLabels
  <2>6. CASE HangUp
    BY <1>0, <2>6 DEF HangUp, AppLabels
  <2>7. CASE AwaitDown
    BY <1>0, <2>7 DEF AwaitDown, AppLabels
  <2>8. CASE Unregister
    BY <1>0, <2>8 DEF Unregister, AppLabels
  <2>9. CASE Release
    BY <1>0, <2>9 DEF Release, AppLabels
  <2> QED
    BY <1>3, <2>1, <2>2, <2>3, <2>4, <2>5, <2>6, <2>7, <2>8, <2>9 DEF StopCall
<1>4. CASE Client
  <2>1. ASSUME NEW b \in Buttons, SendButton(b) \/ SendDeclined(b)
        PROVE  TypeInv'
    BY <1>0, <2>1 DEF SendButton, SendDeclined, AppLabels, AtOK
  <2>2. CASE ReportError
    BY <1>0, <2>2 DEF ReportError, States, AtOK
  <2>3. CASE Stop
    BY <1>0, <2>3 DEF Stop, AppLabels
  <2> QED
    BY <1>4, <2>1, <2>2, <2>3 DEF Client
<1>5. CASE Exited
  BY <1>0, <1>5 DEF Exited, vars, software, AtOK
<1> QED
  BY <1>1, <1>2, <1>3, <1>4, <1>5 DEF AppThread
-----------------------------------------------------------------------------
(* The ble thread.                                                         *)

LEMMA BleThreadType ==
    ASSUME TypeInv, BleThread
    PROVE  TypeInv'
<1> USE CommandType, GotoType, TakeType, EventElim, NoConnectionType
    DEF TypeInv, TypeOK, PeerInv, DeviceTypeOK, ControlTypeOK, Step, ResetConnection,
        session, search, call, shown, device, data, Connection
<1>a. inbox \in Seq(Event) /\ {"None", "DiscoverService"} \subseteq Operations
  BY DEF RadioTypeOK, Operations, Discoveries, Seeks
<1>b. {"idle", "scan", "terminate", "pair", "request", "completed"} \subseteq BleLabels
  BY DEF BleLabels
<1>c. {"Connecting", "Pairing", "Discovering", "Ready", "Disconnected", "Error"}
      \subseteq States
  BY DEF States
<1>1. CASE StartScan("ble")
  BY <1>1, StartScanType
<1>2. CASE Drop
  BY <1>a, <1>b, <1>c, <1>2 DEF Drop, software, AtOK
<1>3. CASE HandleAdvertisingReport
  BY <1>a, <1>b, <1>c, <1>3 DEF HandleAdvertisingReport
<1>4. CASE TerminateAccepted
  BY <1>a, <1>b, <1>c, <1>4 DEF TerminateAccepted
<1>5. CASE TerminateRefused
  BY <1>a, <1>b, <1>c, <1>5 DEF TerminateRefused
<1>6. CASE HandleGapComplete
  BY <1>a, <1>b, <1>c, <1>6 DEF HandleGapComplete, Take, Relevant, AtOK, software
<1>7. CASE HandleGapFailure
  BY <1>a, <1>b, <1>c, <1>7 DEF HandleGapFailure
<1>8. CASE HandleConnectionFailure
  BY <1>a, <1>b, <1>c, <1>8 DEF HandleConnectionFailure
<1>9. CASE HandleConnectedPairing
  BY <1>a, <1>b, <1>c, <1>9 DEF HandleConnectedPairing
<1>10. CASE HandleConnected
  BY <1>a, <1>b, <1>c, <1>10 DEF HandleConnected
<1>11. CASE PairingRequested
  BY <1>a, <1>b, <1>c, <1>11 DEF PairingRequested
<1>12. CASE PairingRefused
  BY <1>a, <1>b, <1>c, <1>12 DEF PairingRefused
<1>13. CASE HandleNumericComparison
  BY <1>a, <1>b, <1>c, <1>13 DEF HandleNumericComparison, AtOK, software
<1>14. CASE HandlePairingFailure
  BY <1>a, <1>b, <1>c, <1>14 DEF HandlePairingFailure, AtOK
<1>15. CASE HandlePairingComplete
  BY <1>a, <1>b, <1>c, <1>15 DEF HandlePairingComplete
<1>16. CASE HandleDisconnected
  BY <1>a, <1>b, <1>c, <1>16 DEF HandleDisconnected, AtOK
<1>17. CASE RequestAccepted
  BY <1>a, <1>b, <1>c, <1>17 DEF RequestAccepted
<1>18. CASE RequestRefused
  BY <1>a, <1>b, <1>c, <1>18 DEF RequestRefused
<1>19. CASE HandleResult
  <2>1. conn' \in Connection /\ conn'.pending = conn.pending
    BY <1>a, <1>b, <1>c, <1>19 DEF HandleResult, Discoveries, Seeks, Kinds
  <2> QED
    BY <1>a, <1>b, <1>c, <1>19, <2>1 DEF HandleResult, AtOK
<1>20. CASE HandleWriteComplete
  BY <1>a, <1>b, <1>c, <1>20 DEF HandleWriteComplete, AtOK
<1>21. CASE HandleGattFailure
  BY <1>a, <1>b, <1>c, <1>21 DEF HandleGattFailure, AtOK
<1>22. CASE HandleGattComplete
  BY <1>a, <1>b, <1>c, <1>22 DEF HandleGattComplete
<1>23. CASE DiscoveredNext
  <2>1. Following[current] \in Operations
    BY <1>23 DEF DiscoveredNext, Discoveries, Seeks, Following, Operations
  <2> QED
    BY <1>a, <1>b, <1>c, <1>23, <2>1 DEF DiscoveredNext
<1>24. CASE DiscoveredNothing
  BY <1>a, <1>b, <1>c, <1>24 DEF DiscoveredNothing
<1>25. CASE NotificationsEnabled
  BY <1>a, <1>b, <1>c, <1>25 DEF NotificationsEnabled
<1>26. CASE HandleNotification
  <2>1. recording' \in BOOLEAN
    <3>1. ASSUME NEW n, StatusCallback(Status(n)) PROVE recording' \in BOOLEAN
      BY <1>a, <3>1 DEF StatusCallback, Status
    <3> QED
      BY <1>a, <1>26, <3>1 DEF HandleNotification
  <2> QED
    BY <1>a, <1>b, <1>c, <1>26, <2>1 DEF HandleNotification, AtOK
<1> QED
  BY <1>1, <1>2, <1>3, <1>4, <1>5, <1>6, <1>7, <1>8, <1>9, <1>10, <1>11,
     <1>12, <1>13, <1>14, <1>15, <1>16, <1>17, <1>18, <1>19, <1>20, <1>21,
     <1>22, <1>23, <1>24, <1>25, <1>26
  DEF BleThread
-----------------------------------------------------------------------------
LEMMA TypeInvStep == TypeInv /\ [Next]_vars => TypeInv'
<1> SUFFICES ASSUME TypeInv, [Next]_vars PROVE TypeInv'
  OBVIOUS
<1>1. CASE AppThread
  BY <1>1, AppThreadType
<1>2. CASE BleThread
  BY <1>2, BleThreadType
<1>3. CASE Environment
  <2>1. (RadioTypeOK /\ LinkInv)'
    BY <1>3, RadioType, CameraType DEF Environment, TypeInv, TypeOK
  <2> QED
    BY <1>3, <2>1 DEF Environment, TypeInv, TypeOK, DeviceTypeOK, ControlTypeOK,
       AtOK, PeerInv, software, data, device, session, search, call, shown
<1>4. CASE UNCHANGED vars
  BY <1>4 DEF vars, software, data, device, session, search, call, shown, radio,
     air, peer, camera, TypeInv, TypeOK, RadioTypeOK, DeviceTypeOK, ControlTypeOK,
     AtOK, LinkInv, PeerInv
<1> QED
  BY <1>1, <1>2, <1>3, <1>4 DEF Next

\* Type correctness: in every reachable state, whatever the radio does and in
\* whatever order the two threads run, the fields of SonyTransport, the events
\* and the attribute handles belong to cameras and links that exist.
THEOREM TypeCorrect == Spec => []TypeOK
<1>1. TypeInv => TypeOK
  BY DEF TypeInv
<1> QED
  BY InitTypeInv, TypeInvStep, <1>1, PTL DEF Spec
-----------------------------------------------------------------------------
(* ReadyMeansUsable.  Its invariant follows the chain of discoveries: the  *)
(* operation in progress is preceded by everything found before it, and    *)
(* what the ble thread is about to continue with is too, although the app  *)
(* thread may overwrite the operation meanwhile.                           *)

FoundBefore(op) ==
    /\ op \in {"DiscoverCommand", "DiscoverStatus", "DiscoverCccd",
               "EnableNotifications"} => conn.found["service"] # NoAttr
    /\ op \in {"DiscoverStatus", "DiscoverCccd", "EnableNotifications"}
       => conn.found["command"] # NoAttr
    /\ op \in {"DiscoverCccd", "EnableNotifications"}
       => conn.found["status"] # NoAttr
    /\ op = "EnableNotifications" => conn.found["cccd"] # NoAttr

\* Until the app thread has started its scan there is nothing to forget, and
\* once it has left the session no event is handled.
Fresh ==
    /\ at["ble"] = "idle" /\ inbox = <<>>
    /\ gap = "idle" /\ link.phase = "down" /\ conn = NoConnection

\* Pairing is requested on the connection in use, unless the session is over.
PairInv == started /\ at["ble"] = "pair" => conn.handle # NoHandle

SessionInv ==
    /\ at["app"] \in {"off", "quiet", "scan", "scanCommand"} => Fresh
    /\ at["app"] \in {"off", "release", "stopped"} => ~started
    /\ PairInv

ChainInv ==
    started =>
        /\ FoundBefore(conn.operation)
        /\ at["ble"] \in {"completed", "request"}
           => conn.handle # NoHandle /\ FoundBefore(current)

LEMMA PairStep ==
    ASSUME TypeInv, SessionInv, Next
    PROVE  PairInv'
<1> USE DEF SessionInv, Fresh, PairInv, Step, Goto, TypeInv, TypeOK, ControlTypeOK, AtOK,
    DeviceTypeOK, Connection, data, device, session, search, call, shown, software
<1>1. CASE AppThread
  <2>1. CASE StartCall
    BY <2>1 DEF StartCall, Start, StopAdvertising, StartScan, ScanDeclined, ScanChecked,
       ScanAccepted, ScanRefused, ScanFlagged, ScanShown
  <2>2. CASE SendCall
    BY <2>2 DEF SendCall, Arm, Claim, WriteAccepted, WriteRefused, Woken, SendReturns,
       SendTimeout
  <2>3. CASE StopCall
    BY <2>3 DEF StopCall, StopScan, StopScanFlag, StopNoScan, StopLink, StopNoLink,
       HangUp, AwaitDown, Unregister, Release
  <2>4. CASE Client
    BY <2>4 DEF Client, SendButton, SendDeclined, ReportError, Stop
  <2>5. CASE Exited
    BY <2>5 DEF Exited, vars
  <2> QED
    BY <1>1, <2>1, <2>2, <2>3, <2>4, <2>5 DEF AppThread
<1>2. CASE HandleConnectedPairing
  <2>1. Head(inbox).handle # NoHandle
    BY <1>2, TakeType, EventElim DEF HandleConnectedPairing, RadioTypeOK
  <2> QED
    BY <1>2, <2>1 DEF HandleConnectedPairing
<1>3. ASSUME BleThread, ~HandleConnectedPairing PROVE at'["ble"] # "pair"
  BY <1>3 DEF BleThread, Drop, Take, StartScan, Home, ScanDeclined, ScanChecked,
     ScanAccepted, ScanRefused, ScanFlagged, ScanShown, HandleAdvertisingReport,
     TerminateAccepted, TerminateRefused, HandleGapComplete, HandleGapFailure,
     HandleConnectionFailure, HandleConnected, PairingRequested, PairingRefused,
     HandleNumericComparison, HandlePairingFailure, HandlePairingComplete,
     HandleDisconnected, RequestAccepted, RequestRefused, HandleResult,
     HandleWriteComplete, HandleGattFailure, HandleGattComplete, DiscoveredNext,
     DiscoveredNothing, NotificationsEnabled, HandleNotification
<1>4. CASE Environment
  BY <1>4 DEF Environment
<1> QED
  BY <1>1, <1>2, <1>3, <1>4 DEF Next

LEMMA SessionStep ==
    ASSUME TypeInv, SessionInv, Next
    PROVE  SessionInv'
<1> USE PairStep DEF SessionInv, Fresh
<1>1. CASE AppThread
  <2> USE DEF Step, Goto, TypeInv, TypeOK, ControlTypeOK, AtOK, data, device, radio, air,
       session, search, call, shown
  <2>1. CASE StartCall
    BY <1>1, <2>1 DEF StartCall, Start, StopAdvertising, SetAdvertising, peer,
       StartScan, ScanDeclined, ScanChecked, ScanAccepted, ScanRefused, ScanFlagged,
       ScanShown, Home
  <2>2. CASE SendCall
    BY <1>1, <2>2 DEF SendCall, Arm, Claim, WriteAccepted, WriteRefused, Woken, SendReturns,
       SendTimeout
  <2>3. CASE StopCall
    <3>1. CASE StopScan \/ StopScanFlag \/ StopNoScan \/ StopLink \/ StopNoLink
      BY <3>1 DEF StopScan, StopScanFlag, StopNoScan, StopLink, StopNoLink
    <3>2. CASE HangUp \/ AwaitDown \/ Unregister
      BY <3>2 DEF HangUp, AwaitDown, Unregister
    <3>3. CASE Release
      BY <3>3 DEF Release
    <3> QED
      BY <2>3, <3>1, <3>2, <3>3 DEF StopCall
  <2>4. CASE Client
    BY <1>1, <2>4 DEF Client, SendButton, SendDeclined, ReportError, Stop
  <2>5. CASE Exited
    BY <1>1, <2>5 DEF Exited, vars, software, peer
  <2> QED
    BY <1>1, <2>1, <2>2, <2>3, <2>4, <2>5 DEF AppThread
<1>2. CASE BleThread
  <2>1. ~ Fresh
    BY <1>2 DEF BleThread, Drop, Take, Step, StartScan, ScanDeclined, ScanChecked,
       ScanAccepted, ScanRefused, ScanFlagged, ScanShown, HandleAdvertisingReport,
       TerminateAccepted, TerminateRefused, HandleGapComplete, HandleGapFailure,
       HandleConnectionFailure, HandleConnectedPairing, HandleConnected,
       PairingRequested, PairingRefused, HandleNumericComparison,
       HandlePairingFailure, HandlePairingComplete, HandleDisconnected,
       RequestAccepted, RequestRefused, HandleResult, HandleWriteComplete,
       HandleGattFailure, HandleGattComplete, DiscoveredNext, DiscoveredNothing,
       NotificationsEnabled, HandleNotification
  <2>2. at'["app"] = at["app"]
    BY <1>2 DEF Home, software, Goto, TypeInv, TypeOK, ControlTypeOK, AtOK,
         BleThread, Drop, Take, Step, StartScan, ScanDeclined, ScanChecked,
         ScanAccepted, ScanRefused, ScanFlagged, ScanShown, HandleAdvertisingReport,
         TerminateAccepted, TerminateRefused, HandleGapComplete, HandleGapFailure,
         HandleConnectionFailure, HandleConnectedPairing, HandleConnected,
         PairingRequested, PairingRefused, HandleNumericComparison,
         HandlePairingFailure, HandlePairingComplete, HandleDisconnected,
         RequestAccepted, RequestRefused, HandleResult, HandleWriteComplete,
         HandleGattFailure, HandleGattComplete, DiscoveredNext, DiscoveredNothing,
         NotificationsEnabled, HandleNotification
  <2>3. UNCHANGED started
    BY <1>2 DEF software, session, device, data,
       BleThread, Drop, Take, Step, StartScan, ScanDeclined, ScanChecked,
       ScanAccepted, ScanRefused, ScanFlagged, ScanShown, HandleAdvertisingReport,
       TerminateAccepted, TerminateRefused, HandleGapComplete, HandleGapFailure,
       HandleConnectionFailure, HandleConnectedPairing, HandleConnected,
       PairingRequested, PairingRefused, HandleNumericComparison,
       HandlePairingFailure, HandlePairingComplete, HandleDisconnected,
       RequestAccepted, RequestRefused, HandleResult, HandleWriteComplete,
       HandleGattFailure, HandleGattComplete, DiscoveredNext, DiscoveredNothing,
       NotificationsEnabled, HandleNotification
  <2> QED
    BY <2>1, <2>2, <2>3
<1>3. CASE Environment
  <2>1. Fresh => FALSE
    BY <1>3 DEF Environment, Radio, Camera, Advertise, DiscoveryTimeout, DiscoveryEnds,
       PairFinishes, LinkUp, ConnectFails, PairAsks, LinkDown, DiscoverySucceeds,
       DiscoveryFindsNothing, EnablingSucceeds, WriteSucceeds, GattFails, Notify
  <2> QED
    BY <1>3, <2>1 DEF Environment, software, data, device, session
<1> QED
  BY <1>1, <1>2, <1>3 DEF Next

LEMMA ChainStepApp ==
    ASSUME TypeInv, SessionInv, ChainInv, AppThread
    PROVE  ChainInv'
<1> USE DEF SessionInv, Fresh, ChainInv, FoundBefore, Step, Goto, TypeInv, TypeOK,
    ControlTypeOK, AtOK, DeviceTypeOK, Connection, data, device, session, search,
    call, shown
<1>1. CASE StartCall
  <2>1. CASE Start
    BY <2>1 DEF Start, NoConnection
  <2>2. CASE StopAdvertising
    BY <2>2 DEF StopAdvertising
  <2>3. CASE StartScan("app")
    BY <2>3 DEF StartScan, ScanDeclined, ScanChecked, ScanAccepted, ScanRefused,
       ScanFlagged, ScanShown, ResetConnection, NoConnection
  <2> QED
    BY <1>1, <2>1, <2>2, <2>3 DEF StartCall
<1>2. CASE SendCall
  BY <1>2 DEF SendCall, Arm, Claim, WriteAccepted, WriteRefused, Woken, SendReturns, SendTimeout
<1>3. CASE StopCall
  BY <1>3 DEF StopCall, StopScan, StopScanFlag, StopNoScan, StopLink, StopNoLink,
     HangUp, AwaitDown, Unregister, Release
<1>4. CASE Client
  BY <1>4 DEF Client, SendButton, SendDeclined, ReportError, Stop
<1>5. CASE Exited
  BY <1>5 DEF Exited, vars, software
<1> QED
  BY <1>1, <1>2, <1>3, <1>4, <1>5 DEF AppThread

LEMMA ChainStepBle ==
    ASSUME TypeInv, SessionInv, ChainInv, BleThread
    PROVE  ChainInv'
<1> USE TakeType, EventElim DEF ChainInv, FoundBefore, Step, Goto, TypeInv, TypeOK,
    ControlTypeOK, AtOK, DeviceTypeOK, Connection, data, device, session, search,
    call, shown
<1>1. CASE StartScan("ble")
  <2>1. CASE ScanDeclined("ble") \/ ScanChecked("ble")
    BY <2>1 DEF ScanDeclined, ScanChecked, Home
  <2>2. CASE ScanAccepted("ble")
    BY <2>2 DEF ScanAccepted, ResetConnection, NoConnection
  <2>3. CASE ScanRefused("ble")
    BY <2>3 DEF ScanRefused, ResetConnection, NoConnection, Home
  <2>4. CASE ScanFlagged("ble") \/ ScanShown("ble")
    BY <2>4 DEF ScanFlagged, ScanShown, Home
  <2> QED
    BY <1>1, <2>1, <2>2, <2>3, <2>4 DEF StartScan
<1>2. CASE Drop \/ HandleAdvertisingReport
  BY <1>2 DEF Drop, HandleAdvertisingReport, software
<1>15. CASE TerminateAccepted
  BY <1>15 DEF TerminateAccepted
<1>16. CASE TerminateRefused
  BY <1>16 DEF TerminateRefused
<1>3. CASE HandleGapComplete \/ HandleGapFailure \/ HandleConnectionFailure
  BY <1>3 DEF HandleGapComplete, HandleGapFailure, HandleConnectionFailure, software
<1>4. CASE HandleConnectedPairing \/ PairingRequested \/ PairingRefused
  BY <1>4 DEF HandleConnectedPairing, PairingRequested, PairingRefused
<1>5. CASE HandleConnected
  <2>1. Head(inbox).handle # NoHandle
    BY <1>5 DEF HandleConnected, RadioTypeOK
  <2> QED
    BY <1>5, <2>1 DEF HandleConnected
<1>6. CASE HandleNumericComparison \/ HandlePairingFailure
  BY <1>6 DEF HandleNumericComparison, HandlePairingFailure, software
<1>7. CASE HandlePairingComplete
  <2>1. conn.handle # NoHandle
    BY <1>7 DEF HandlePairingComplete, RadioTypeOK, Take, Relevant
  <2> QED
    BY <1>7, <2>1 DEF HandlePairingComplete
<1>8. CASE HandleDisconnected
  BY <1>8 DEF HandleDisconnected, ResetConnection, NoConnection, Take
<1>9. CASE RequestAccepted \/ RequestRefused
  BY <1>9 DEF RequestAccepted, RequestRefused
<1>10. CASE HandleResult
  <2>1. /\ UNCHANGED <<started, at, current>>
        /\ conn'.operation = conn.operation /\ conn'.handle = conn.handle
    BY <1>10 DEF HandleResult
  <2>2. ASSUME NEW k \in Kinds, conn.found[k] # NoAttr
        PROVE  conn'.found[k] # NoAttr
    <3>1. Head(inbox).attr # NoAttr
      BY <1>10 DEF HandleResult, RadioTypeOK, Attrs, NoAttr
    <3> QED
      BY <1>10, <2>2, <3>1 DEF HandleResult
  <2> QED
    BY <2>1, <2>2 DEF Kinds
<1>11. CASE HandleWriteComplete \/ HandleGattFailure
  BY <1>11 DEF HandleWriteComplete, HandleGattFailure
<1>12. CASE HandleGattComplete
  <2>1. conn.handle # NoHandle
    BY <1>12 DEF HandleGattComplete, RadioTypeOK, Take, Relevant
  <2> QED
    BY <1>12, <2>1 DEF HandleGattComplete
<1>13. CASE DiscoveredNext
  BY <1>13 DEF DiscoveredNext, Discoveries, Seeks, Following
<1>14. CASE DiscoveredNothing \/ NotificationsEnabled \/ HandleNotification
  BY <1>14 DEF DiscoveredNothing, NotificationsEnabled, HandleNotification
<1> QED
  BY <1>1, <1>2, <1>3, <1>4, <1>5, <1>6, <1>7, <1>8, <1>9, <1>10, <1>11, <1>12,
     <1>13, <1>14, <1>15, <1>16
  DEF BleThread

\* The radio, the camera and stuttering steps touch nothing the chain is about.
LEMMA ChainStep == TypeInv /\ SessionInv /\ ChainInv /\ [Next]_vars => ChainInv'
<1> SUFFICES ASSUME TypeInv, SessionInv, ChainInv, [Next]_vars PROVE ChainInv'
  OBVIOUS
<1>1. CASE Environment \/ UNCHANGED vars
  BY <1>1 DEF Environment, vars, software, data, device, session, ChainInv, FoundBefore
<1> QED
  BY <1>1, ChainStepApp, ChainStepBle DEF Next

LEMMA ReadyStep ==
    ASSUME TypeInv, ChainInv, Next, state # "Ready", state' = "Ready", started
    PROVE  conn.handle # NoHandle /\ \A k \in Kinds : conn.found[k] # NoAttr
<1> USE DEF data, device, call, shown, software
<1>1. ~ AppThread
  BY DEF AppThread, StartCall, Start, StopAdvertising, StartScan, ScanDeclined,
     ScanChecked, ScanAccepted, ScanRefused, ScanFlagged, ScanShown, SendCall, Arm,
     Claim, WriteAccepted, WriteRefused, Woken, SendReturns, SendTimeout, StopCall,
     StopScan, StopScanFlag, StopNoScan, StopLink, StopNoLink, HangUp, AwaitDown,
     Unregister, Release, Client, SendButton, SendDeclined, ReportError, Stop,
     Exited, vars
<1>2. ~ Environment
  BY DEF Environment
<1>3. ASSUME BleThread
      PROVE  at["ble"] = "completed" /\ current = "EnableNotifications"
  BY <1>3 DEF BleThread, Drop, Take, Step, StartScan, ScanDeclined, ScanChecked,
     ScanAccepted, ScanRefused, ScanFlagged, ScanShown, HandleAdvertisingReport,
     TerminateAccepted, TerminateRefused, HandleGapComplete, HandleGapFailure,
     HandleConnectionFailure, HandleConnectedPairing, HandleConnected,
     PairingRequested, PairingRefused, HandleNumericComparison,
     HandlePairingFailure, HandlePairingComplete, HandleDisconnected,
     RequestAccepted, RequestRefused, HandleResult, HandleWriteComplete,
     HandleGattFailure, HandleGattComplete, DiscoveredNext, DiscoveredNothing,
     NotificationsEnabled, HandleNotification, Discoveries, Seeks
<1> QED
  BY <1>1, <1>2, <1>3 DEF Next, ChainInv, FoundBefore, Kinds

\* The client is told Ready only while the connection stands and with all four
\* attributes found on it: sony_transport_send_button then has a command handle
\* to write to, however the steps of the two threads fell.
THEOREM ReadyIsUsable == Spec => ReadyMeansUsable
<1>1. Init => TypeInv /\ SessionInv /\ ChainInv
  BY InitTypeInv DEF Init, RadioInit, NoLink, SessionInv, Fresh, PairInv, ChainInv
<1>2. TypeInv /\ SessionInv /\ ChainInv /\ [Next]_vars
      => (TypeInv /\ SessionInv /\ ChainInv)'
  <2> SUFFICES ASSUME TypeInv, SessionInv, ChainInv, [Next]_vars
               PROVE  (TypeInv /\ SessionInv /\ ChainInv)'
    OBVIOUS
  <2>1. TypeInv'
    BY TypeInvStep
  <2>2. ChainInv'
    BY ChainStep
  <2>3. SessionInv'
    <3>1. CASE UNCHANGED vars
      BY <3>1 DEF vars, software, radio, air, peer, data, device, session, SessionInv,
         Fresh, PairInv
    <3> QED
      BY <3>1, SessionStep
  <2> QED
    BY <2>1, <2>2, <2>3
<1>3. TypeInv /\ ChainInv /\ [Next]_vars
      => [ state # "Ready" /\ state' = "Ready" /\ started
           => conn.handle # NoHandle /\ \A k \in Kinds : conn.found[k] # NoAttr ]_vars
  BY ReadyStep
<1> QED
  BY <1>1, <1>2, <1>3, PTL DEF Spec, ReadyMeansUsable
-----------------------------------------------------------------------------
(* What the events not yet handled say of the link.                        *)

Positions == 1..Len(inbox)
LinkEvent(e) == e.type \in {"connected", "disconnected"}
Completion(e) == e.type \in {"gattComplete", "pairingComplete"}

\* The link events are at no other positions than these.
Only(S) == \A i \in Positions : LinkEvent(inbox[i]) => i \in S
NoLinkEvent == Only({})

\* The end of a discovery is reported, and at most one is.
Reported == \E i \in Positions : inbox[i].type = "procComplete"
Once == \A i, j \in Positions :
            inbox[i].type = "procComplete" /\ inbox[j].type = "procComplete" => i = j
-----------------------------------------------------------------------------
(* A camera is sought only while none is linked.                           *)

Seeking ==
    \/ gap # "idle" \/ Reported \/ scanning
    \/ at["ble"] \in {"scan", "scanCommand", "scanAccepted", "terminate"}
    \/ at["app"] \in {"off", "quiet", "scan", "scanCommand", "scanAccepted"}

Unlinked == link.phase = "down" /\ conn.handle = NoHandle /\ NoLinkEvent

SeekInv == Seeking => Unlinked

(* There is one discovery at a time; it is ended once, and by then either   *)
(* the ble thread is to connect, or the app thread stops.                   *)

Ending == gap = "ending" \/ Reported
Leaving == at["app"] \in {"stopScan", "stopFlag", "stopLink", "hangup", "awaitDown",
                          "unregister", "release", "stopped"}

GapInv ==
    /\ Once /\ (gap # "idle" => ~Reported)
    /\ scanning => /\ ~conn.pending /\ at["ble"] \in {"idle", "scanShow"}
                   /\ gap = "discovery" \/ stopping
    /\ at["ble"] = "terminate" => /\ started => conn.pending
                                  /\ gap = "discovery" \/ stopping
    /\ at["ble"] \in {"scanCommand", "scanAccepted"} => ~Ending
    /\ Ending => stopping \/ (conn.pending /\ at["ble"] = "idle")
    /\ at["ble"] = "scanAccepted" => gap = "discovery" /\ ~conn.pending
    /\ at["app"] = "scanAccepted" =>
          gap = "discovery" /\ ~conn.pending /\ ~scanning /\ at["ble"] = "idle"
    /\ Leaving <=> stopping
    /\ at["app"] \in {"off", "quiet", "scan", "scanCommand"} => ~scanning

(* What `inbox` and `conn.handle` together tell of the link.               *)

Idle == proc = "None" /\ pairing = "none"
Silent == Idle /\ \A i \in Positions : ~Completion(inbox[i])
Holds(h) == link.phase \in {"up", "closing"} /\ link.handle = h

Came(i, h) == inbox[i].type = "connected" /\ inbox[i].ok /\ inbox[i].handle = h
Gone(i, h) ==
    /\ inbox[i].type = "disconnected" /\ inbox[i].handle = h
    /\ link.phase = "down"
    /\ \A j \in Positions : j > i => ~Completion(inbox[j])

\* With no handle: no link yet, or it failed, or it came up, or went down again.
NoneYet == link.phase \in {"down", "connecting"} /\ NoLinkEvent
Failed(i) ==
    /\ Only({i}) /\ inbox[i].type = "connected" /\ ~inbox[i].ok
    /\ link.phase = "down"
CameUp(i) == Only({i}) /\ \E h \in Handles : Came(i, h) /\ Holds(h)
CameAndWent(i, j) ==
    /\ i < j /\ Only({i, j})
    /\ \E h \in Handles : Came(i, h) /\ Gone(j, h)

Unaware ==
    /\ Silent
    /\ \/ NoneYet
       \/ \E i \in Positions : Failed(i) \/ CameUp(i)
       \/ \E i, j \in Positions : CameAndWent(i, j)
\* With a handle: it is the link's, or the link was lost.
Aware ==
    \/ NoLinkEvent /\ Holds(conn.handle)
    \/ \E i \in Positions : Only({i}) /\ Gone(i, conn.handle)

EpochInv ==
    /\ link.phase \notin {"up", "closing"} => Idle
    /\ started => IF conn.handle = NoHandle THEN Unaware ELSE Aware

(* While the app thread hangs up, no other link comes up.                  *)

HangInv ==
    /\ at["app"] \notin {"off", "release", "stopped"} => started
    /\ at["app"] \in {"hangup", "awaitDown"} /\ conn.handle = NoHandle =>
          /\ Unlinked /\ ~conn.pending /\ ~scanning
          /\ at["ble"] \in {"idle", "scan"}
    /\ at["app"] = "awaitDown" => link.phase \in {"closing", "down"}

LinkageInv == SeekInv /\ GapInv /\ EpochInv /\ HangInv
SearchInv == TypeInv /\ SessionInv /\ LinkageInv
-----------------------------------------------------------------------------
(* What taking an event and reporting some does to the inbox.              *)

LEMMA TakeShifts ==
    ASSUME inbox \in Seq(Event), inbox # <<>>, inbox' = Tail(inbox)
    PROVE  /\ 1 \in Positions /\ Head(inbox) = inbox[1] /\ inbox[1] \in Event
           /\ \A i \in Positions' : i + 1 \in Positions /\ inbox'[i] = inbox[i + 1]
           /\ \A i \in Positions : i # 1 => i - 1 \in Positions' /\ inbox'[i - 1] = inbox[i]
<1>1. Len(inbox) \in Nat /\ Len(inbox) >= 1
  OBVIOUS
<1>2. Len(inbox') = Len(inbox) - 1
  OBVIOUS
<1>3. \A i \in 1..Len(inbox) - 1 : Tail(inbox)[i] = inbox[i + 1]
  OBVIOUS
<1> QED
  BY <1>1, <1>2, <1>3 DEF Positions

LEMMA ReportGrows ==
    ASSUME inbox \in Seq(Event), NEW s \in Seq(Event), inbox' = inbox \o s
    PROVE  /\ Len(inbox) \in Nat /\ Len(inbox') = Len(inbox) + Len(s)
           /\ \A i \in Positions : i \in Positions' /\ i <= Len(inbox) /\ inbox'[i] = inbox[i]
           /\ \A i \in Positions' : i > Len(inbox) \/ i \in Positions
           /\ \A i \in Positions' : i > Len(inbox) => inbox'[i] = s[i - Len(inbox)]
                                                   /\ i - Len(inbox) \in 1..Len(s)
<1>1. Len(inbox) \in Nat /\ Len(s) \in Nat /\ Len(inbox') = Len(inbox) + Len(s)
  OBVIOUS
<1>2. \A i \in 1..Len(inbox) : inbox'[i] = inbox[i]
  OBVIOUS
<1>3. \A i \in 1..Len(inbox) + Len(s) : i > Len(inbox) => inbox'[i] = s[i - Len(inbox)]
  OBVIOUS
<1> QED
  BY <1>1, <1>2, <1>3 DEF Positions

\* Taking an event leaves what the others say.
LEMMA TakeLeaves ==
    ASSUME inbox \in Seq(Event), inbox # <<>>, inbox' = Tail(inbox)
    PROVE  /\ Reported' => Reported
           /\ Once => Once'
           /\ Once /\ Head(inbox).type = "procComplete" => ~Reported'
           /\ Head(inbox).type = "procComplete" => Reported
           /\ NoLinkEvent => NoLinkEvent' /\ ~LinkEvent(Head(inbox))
<1> USE TakeShifts
<1>1. Reported' => Reported
  BY DEF Reported
<1>2. Once => Once'
  BY DEF Once, Positions
<1>3. Once /\ Head(inbox).type = "procComplete" => ~Reported'
  BY DEF Once, Reported, Positions
<1>4. Head(inbox).type = "procComplete" => Reported
  BY DEF Reported
<1>5. NoLinkEvent => NoLinkEvent' /\ ~LinkEvent(Head(inbox))
  BY DEF NoLinkEvent, Only, LinkEvent
<1> QED
  BY <1>1, <1>2, <1>3, <1>4, <1>5

\* Reported events add what they say.
LEMMA ReportAdds ==
    ASSUME inbox \in Seq(Event), NEW e \in Event, inbox' = Append(inbox, e)
    PROVE  /\ Reported' <=> Reported \/ e.type = "procComplete"
           /\ Once /\ (Reported => e.type # "procComplete") => Once'
           /\ NoLinkEvent /\ ~LinkEvent(e) => NoLinkEvent'
<1>1. /\ Len(inbox) \in Nat /\ Len(inbox') = Len(inbox) + 1
      /\ \A i \in 1..Len(inbox) : inbox'[i] = inbox[i]
      /\ inbox'[Len(inbox) + 1] = e
  OBVIOUS
<1>2. Reported' <=> Reported \/ e.type = "procComplete"
  BY <1>1 DEF Reported, Positions
<1>3. Once /\ (Reported => e.type # "procComplete") => Once'
  BY <1>1 DEF Once, Reported, Positions
<1>4. NoLinkEvent /\ ~LinkEvent(e) => NoLinkEvent'
  BY <1>1 DEF NoLinkEvent, Only, LinkEvent, Positions
<1> QED
  BY <1>2, <1>3, <1>4

LEMMA TrafficAdds ==
    ASSUME inbox \in Seq(Event), NEW s \in Seq(Event), inbox' = inbox \o s,
           \A k \in 1..Len(s) : ~LinkEvent(s[k]) /\ s[k].type # "procComplete"
    PROVE  /\ Reported' <=> Reported
           /\ Once => Once'
           /\ NoLinkEvent => NoLinkEvent'
<1> USE ReportGrows
<1>1. Reported' <=> Reported
  BY DEF Reported
<1>2. Once => Once'
  <2>1. \A i \in Positions' : inbox'[i].type = "procComplete" =>
            i \in Positions /\ inbox'[i] = inbox[i]
    OBVIOUS
  <2> QED
    BY <2>1 DEF Once
<1>3. NoLinkEvent => NoLinkEvent'
  BY DEF NoLinkEvent, Only, LinkEvent
<1> QED
  BY <1>1, <1>2, <1>3
-----------------------------------------------------------------------------
(* What handle and inbox tell of the link, after each kind of step.        *)

\* What a link event can be, when it is taken.
LEMMA FirstEvent ==
    ASSUME TypeInv, EpochInv, started, inbox # <<>>
    PROVE  /\ Head(inbox).type = "connected" =>
                 /\ conn.handle = NoHandle /\ Unaware
                 /\ Head(inbox).ok =>
                       \/ CameUp(1) \/ \E j \in Positions : CameAndWent(1, j)
                 /\ ~Head(inbox).ok => Failed(1)
           /\ Head(inbox).type = "disconnected" =>
                 /\ conn.handle # NoHandle
                 /\ Only({1}) /\ Gone(1, conn.handle)
<1> USE DEF EpochInv
<1>0. 1 \in Positions /\ Head(inbox) = inbox[1] /\ Len(inbox) \in Nat
  BY DEF TypeInv, TypeOK, RadioTypeOK, Positions
<1>1. ASSUME LinkEvent(inbox[1]), Aware
      PROVE  inbox[1].type = "disconnected" /\ Only({1}) /\ Gone(1, conn.handle)
  BY <1>0, <1>1 DEF Aware, NoLinkEvent, Only, Gone
<1>2. ASSUME LinkEvent(inbox[1]), Unaware
      PROVE  \/ Failed(1) \/ CameUp(1) \/ \E j \in Positions : CameAndWent(1, j)
  <2>1. ~ NoneYet
    BY <1>0, <1>2 DEF NoneYet, NoLinkEvent, Only
  <2>2. ASSUME NEW i \in Positions, Failed(i) \/ CameUp(i) PROVE i = 1
    BY <1>0, <1>2, <2>2 DEF Failed, CameUp, Only
  <2>3. ASSUME NEW i \in Positions, NEW j \in Positions, CameAndWent(i, j) PROVE i = 1
    BY <1>0, <1>2, <2>3 DEF CameAndWent, Only, Positions
  <2> QED
    BY <1>2, <2>1, <2>2, <2>3 DEF Unaware
<1>3. ASSUME Failed(1) \/ CameUp(1) \/ \E j \in Positions : CameAndWent(1, j)
      PROVE  /\ inbox[1].type = "connected"
             /\ inbox[1].ok => CameUp(1) \/ \E j \in Positions : CameAndWent(1, j)
             /\ ~inbox[1].ok => Failed(1)
  BY <1>3 DEF Failed, CameUp, CameAndWent, Came
<1> QED
  BY <1>0, <1>1, <1>2, <1>3 DEF LinkEvent

\* Nothing happens to the link; traffic does if there is a handle.
LEMMA SameEvents ==
    ASSUME UNCHANGED <<link, inbox>>, conn'.handle = conn.handle,
           UNCHANGED <<proc, pairing>> \/ conn.handle # NoHandle
    PROVE  /\ Unaware /\ conn.handle = NoHandle => Unaware'
           /\ Aware => Aware'
  BY DEF Unaware, Aware, Silent, Idle, NoneYet, Failed, CameUp, CameAndWent, Came, Gone,
     Holds, Only, NoLinkEvent, LinkEvent, Completion, Positions

\* Any event but a link event is taken.
LEMMA OtherTaken ==
    ASSUME inbox \in Seq(Event), inbox # <<>>, inbox' = Tail(inbox),
           ~LinkEvent(Head(inbox)), UNCHANGED link, conn'.handle = conn.handle,
           UNCHANGED <<proc, pairing>> \/ conn.handle # NoHandle
    PROVE  /\ Unaware /\ conn.handle = NoHandle => Unaware'
           /\ Aware => Aware'
<1> USE TakeShifts, TakeLeaves
<1>0. Len(inbox) \in Nat /\ Len(inbox') \in Nat
  OBVIOUS
<1>2. ASSUME NEW i \in Positions, Only({i}), LinkEvent(inbox[i])
      PROVE  i - 1 \in Positions' /\ Only({i - 1})' /\ inbox'[i - 1] = inbox[i]
  BY <1>2 DEF Only, LinkEvent, Positions
<1>3. ASSUME NEW i \in Positions, NEW j \in Positions, Only({i, j}),
             LinkEvent(inbox[i]), LinkEvent(inbox[j])
      PROVE  /\ i - 1 \in Positions' /\ j - 1 \in Positions'
             /\ Only({i - 1, j - 1})'
             /\ inbox'[i - 1] = inbox[i] /\ inbox'[j - 1] = inbox[j]
  BY <1>3 DEF Only, LinkEvent, Positions
<1>4. ASSUME NEW j \in Positions, NEW h, Gone(j, h)
      PROVE  Gone(j - 1, h)'
  <2>1. j # 1
    BY <1>4 DEF Gone, LinkEvent
  <2>2. inbox'[j - 1] = inbox[j]
    BY <2>1
  <2>3. ASSUME NEW i \in Positions', i > j - 1
        PROVE  i + 1 \in Positions /\ i + 1 > j /\ inbox'[i] = inbox[i + 1]
    BY <2>3, <1>0 DEF Positions
  <2> QED
    BY <1>4, <2>2, <2>3 DEF Gone, Completion
<1>5. Aware => Aware'
  <2> SUFFICES ASSUME Aware PROVE Aware'
    OBVIOUS
  <2>1. CASE NoLinkEvent /\ Holds(conn.handle)
    BY <2>1 DEF Aware, Holds
  <2>2. ASSUME NEW i \in Positions, Only({i}), Gone(i, conn.handle)
        PROVE  Aware'
    <3>1. LinkEvent(inbox[i])
      BY <2>2 DEF Gone, LinkEvent
    <3>2. Gone(i - 1, conn.handle)'
      BY <2>2, <1>4
    <3> QED
      BY <2>2, <3>1, <3>2, <1>2 DEF Aware
  <2> QED
    BY <2>1, <2>2 DEF Aware
<1>6. ASSUME Unaware, conn.handle = NoHandle PROVE Unaware'
  <2>1. Silent'
    BY <1>6 DEF Unaware, Silent, Idle, Completion
  <2>2. CASE NoneYet
    BY <2>1, <2>2 DEF Unaware, NoneYet
  <2>3. ASSUME NEW i \in Positions, Failed(i) PROVE Unaware'
    <3>1. i - 1 \in Positions' /\ Failed(i - 1)'
      BY <2>3, <1>2 DEF Failed, LinkEvent
    <3> QED
      BY <2>1, <3>1 DEF Unaware
  <2>4. ASSUME NEW i \in Positions, CameUp(i) PROVE Unaware'
    <3>1. i - 1 \in Positions' /\ CameUp(i - 1)'
      BY <2>4, <1>2 DEF CameUp, Came, Holds, LinkEvent
    <3> QED
      BY <2>1, <3>1 DEF Unaware
  <2>5. ASSUME NEW i \in Positions, NEW j \in Positions, CameAndWent(i, j) PROVE Unaware'
    <3>1. PICK h \in Handles : Came(i, h) /\ Gone(j, h)
      BY <2>5 DEF CameAndWent
    <3>2. LinkEvent(inbox[i]) /\ LinkEvent(inbox[j])
      BY <3>1 DEF Came, Gone, LinkEvent
    <3>3. Gone(j - 1, h)'
      BY <3>1, <1>4
    <3>4. /\ i - 1 \in Positions' /\ j - 1 \in Positions'
          /\ Only({i - 1, j - 1})' /\ Came(i - 1, h)'
      BY <2>5, <3>1, <3>2, <1>3 DEF CameAndWent, Came
    <3>5. i - 1 < j - 1
      BY <1>0, <2>5 DEF CameAndWent, Positions
    <3> QED
      BY <2>1, <3>3, <3>4, <3>5 DEF Unaware, CameAndWent
  <2> QED
    BY <1>6, <2>2, <2>3, <2>4, <2>5 DEF Unaware
<1> QED
  BY <1>5, <1>6

\* Events that are not of the link are reported.
LEMMA OtherReported ==
    ASSUME inbox \in Seq(Event), NEW s \in Seq(Event), inbox' = inbox \o s,
           \A k \in 1..Len(s) :
               /\ ~LinkEvent(s[k])
               /\ Completion(s[k]) => link.phase = "up" /\ ~Idle,
           UNCHANGED link, conn'.handle = conn.handle,
           UNCHANGED <<proc, pairing>> \/ ~Idle
    PROVE  /\ Unaware => Unaware'
           /\ Aware => Aware'
<1> USE ReportGrows
<1>1. ASSUME NEW S, Only(S) PROVE Only(S)'
  BY <1>1 DEF Only, LinkEvent
<1>2. Aware => Aware'
  <2>1. CASE NoLinkEvent /\ Holds(conn.handle)
    BY <2>1, <1>1 DEF Aware, Holds, NoLinkEvent
  <2>2. ASSUME NEW i \in Positions, Only({i}), Gone(i, conn.handle)
        PROVE  Aware'
    <3>1. \A j \in Positions' : j > i => ~Completion(inbox'[j])
      <4>1. ASSUME NEW j \in Positions', j > i, j \in Positions PROVE ~Completion(inbox'[j])
        BY <4>1, <2>2 DEF Gone, Completion
      <4>2. ASSUME NEW j \in Positions', j > Len(inbox) PROVE ~Completion(inbox'[j])
        BY <4>2, <2>2 DEF Gone, Completion
      <4> QED
        BY <4>1, <4>2
    <3>2. i \in Positions' /\ inbox'[i] = inbox[i] /\ Only({i})'
      BY <2>2, <1>1
    <3> QED
      BY <2>2, <3>1, <3>2 DEF Aware, Gone
  <2> QED
    BY <2>1, <2>2 DEF Aware
<1>3. ASSUME Unaware PROVE Unaware'
  <2>1. Silent'
    <3>1. Idle /\ Idle'
      BY <1>3 DEF Unaware, Silent, Idle
    <3>2. ASSUME NEW j \in Positions', j \in Positions PROVE ~Completion(inbox'[j])
      BY <1>3, <3>2 DEF Unaware, Silent, Completion
    <3>3. ASSUME NEW j \in Positions', j > Len(inbox) PROVE ~Completion(inbox'[j])
      BY <3>1, <3>3 DEF Completion
    <3> QED
      BY <3>1, <3>2, <3>3 DEF Silent
  <2>2. CASE NoneYet
    BY <2>1, <2>2, <1>1 DEF Unaware, NoneYet, NoLinkEvent
  <2>3. ASSUME NEW i \in Positions, Failed(i) PROVE Unaware'
    <3>1. i \in Positions' /\ Failed(i)'
      BY <2>3, <1>1 DEF Failed
    <3> QED
      BY <2>1, <3>1 DEF Unaware
  <2>4. ASSUME NEW i \in Positions, CameUp(i) PROVE Unaware'
    <3>1. i \in Positions' /\ CameUp(i)'
      BY <2>4, <1>1 DEF CameUp, Came, Holds
    <3> QED
      BY <2>1, <3>1 DEF Unaware
  <2>5. ASSUME NEW i \in Positions, NEW j \in Positions, CameAndWent(i, j) PROVE Unaware'
    <3>1. PICK h \in Handles : Came(i, h) /\ Gone(j, h)
      BY <2>5 DEF CameAndWent
    <3>2. /\ i \in Positions' /\ j \in Positions' /\ inbox'[j] = inbox[j]
          /\ Only({i, j})' /\ Came(i, h)'
      BY <2>5, <3>1, <1>1 DEF CameAndWent, Came
    <3>3. Gone(j, h)'
      BY <2>1, <3>1, <3>2 DEF Gone, Silent
    <3> QED
      BY <2>1, <2>5, <3>2, <3>3 DEF Unaware, CameAndWent
  <2> QED
    BY <1>3, <2>2, <2>3, <2>4, <2>5 DEF Unaware
<1> QED
  BY <1>2, <1>3

\* The handlers of the link's events.
LEMMA FailureTaken ==
    ASSUME TypeInv, EpochInv, started, inbox # <<>>, inbox' = Tail(inbox),
           Head(inbox).type = "connected", ~Head(inbox).ok,
           UNCHANGED <<link, proc, pairing>>, conn'.handle = conn.handle
    PROVE  /\ Unlinked' /\ Unaware'
<1>0. inbox \in Seq(Event)
  BY DEF TypeInv, TypeOK, RadioTypeOK
<1>1. conn.handle = NoHandle /\ Silent /\ Failed(1)
  BY FirstEvent DEF Unaware
<1>2. Silent'
  BY <1>0, <1>1, TakeShifts DEF Silent, Idle, Completion
<1>3. NoLinkEvent'
  BY <1>0, <1>1, TakeShifts DEF Failed, NoLinkEvent, Only, LinkEvent, Positions
<1> QED
  BY <1>1, <1>2, <1>3 DEF Failed, Unlinked, Unaware, NoneYet

LEMMA ConnectionTaken ==
    ASSUME TypeInv, EpochInv, started, inbox # <<>>, inbox' = Tail(inbox),
           Head(inbox).type = "connected", Head(inbox).ok,
           UNCHANGED link, conn'.handle = Head(inbox).handle
    PROVE  /\ conn'.handle # NoHandle /\ Aware'
           /\ ~NoLinkEvent
<1>0. inbox \in Seq(Event) /\ Len(inbox) \in Nat
  BY DEF TypeInv, TypeOK, RadioTypeOK
<1>1. Head(inbox) = inbox[1] /\ inbox[1] \in Event /\ 1 \in Positions
  BY <1>0, TakeShifts
<1>2. conn'.handle # NoHandle /\ ~NoLinkEvent
  BY <1>1, EventElim, RadioAssumption DEF NoLinkEvent, Only, LinkEvent
<1>3. CASE CameUp(1)
  <2>1. NoLinkEvent'
    BY <1>0, <1>3, TakeShifts DEF CameUp, NoLinkEvent, Only, LinkEvent, Positions
  <2>2. Holds(conn.handle)'
    BY <1>1, <1>3 DEF CameUp, Came, Holds
  <2> QED
    BY <1>2, <2>1, <2>2 DEF Aware
<1>4. ASSUME NEW j \in Positions, CameAndWent(1, j) PROVE Aware'
  <2>1. PICK h \in Handles : Came(1, h) /\ Gone(j, h)
    BY <1>4 DEF CameAndWent
  <2>2. conn'.handle = h
    BY <1>1, <2>1 DEF Came
  <2>3. j # 1
    BY <1>0, <1>4 DEF CameAndWent, Positions
  <2>4. j - 1 \in Positions' /\ inbox'[j - 1] = inbox[j]
    BY <1>0, <1>4, <2>3, TakeShifts
  <2>5. Only({j - 1})'
    BY <1>0, <1>4, TakeShifts DEF CameAndWent, Only, LinkEvent, Positions
  <2>6. ASSUME NEW i \in Positions', i > j - 1
        PROVE  i + 1 \in Positions /\ i + 1 > j /\ inbox'[i] = inbox[i + 1]
    BY <2>6, <1>0, TakeShifts DEF Positions
  <2>7. Gone(j - 1, conn.handle)'
    BY <2>1, <2>2, <2>4, <2>6 DEF Gone, Completion
  <2> QED
    BY <1>2, <2>4, <2>5, <2>7 DEF Aware
<1> QED
  BY <1>2, <1>3, <1>4, FirstEvent

LEMMA DisconnectionTaken ==
    ASSUME TypeInv, EpochInv, started, inbox # <<>>, inbox' = Tail(inbox),
           Head(inbox).type = "disconnected",
           UNCHANGED <<link, proc, pairing>>, conn'.handle = NoHandle
    PROVE  /\ conn.handle # NoHandle /\ Unlinked' /\ Unaware'
<1>0. inbox \in Seq(Event) /\ Len(inbox) \in Nat
  BY DEF TypeInv, TypeOK, RadioTypeOK
<1>1. conn.handle # NoHandle /\ Only({1}) /\ Gone(1, conn.handle)
  BY FirstEvent
<1>2. Silent'
  <2>1. Idle'
    BY <1>1 DEF Gone, EpochInv, Idle
  <2>2. ASSUME NEW i \in Positions' PROVE ~Completion(inbox'[i])
    <3>1. i + 1 \in Positions /\ i + 1 > 1 /\ inbox'[i] = inbox[i + 1]
      BY <1>0, TakeShifts DEF Positions
    <3> QED
      BY <1>1, <3>1 DEF Gone, Completion
  <2> QED
    BY <2>1, <2>2 DEF Silent
<1>3. NoLinkEvent'
  BY <1>0, <1>1, TakeShifts DEF NoLinkEvent, Only, LinkEvent, Positions
<1> QED
  BY <1>1, <1>2, <1>3 DEF Gone, Unlinked, Unaware, NoneYet

\* A link event is reported.
LEMMA LinkReported ==
    ASSUME inbox \in Seq(Event), NEW e \in Event, inbox' = Append(inbox, e)
    PROVE  \E i \in Nat :
           /\ i \in Positions' /\ inbox'[i] = e
           /\ \A j \in Positions : j < i /\ j \in Positions' /\ inbox'[j] = inbox[j]
           /\ \A j \in Positions' : ~(j > i) /\ (j \in Positions \/ j = i)
           /\ NoLinkEvent => Only({i})'
           /\ \A k \in Positions : Only({k}) => Only({k, i})'
<1>1. /\ Len(inbox) \in Nat /\ Len(inbox') = Len(inbox) + 1
      /\ \A i \in 1..Len(inbox) : inbox'[i] = inbox[i]
      /\ inbox'[Len(inbox) + 1] = e
  OBVIOUS
<1> PICK i \in Nat : i = Len(inbox) + 1
  BY <1>1
<1>2. /\ i \in Positions' /\ inbox'[i] = e
      /\ \A j \in Positions : j < i /\ j \in Positions' /\ inbox'[j] = inbox[j]
      /\ \A j \in Positions' : ~(j > i) /\ (j \in Positions \/ j = i)
  BY <1>1 DEF Positions
<1>3. NoLinkEvent => Only({i})'
  BY <1>2 DEF NoLinkEvent, Only, LinkEvent
<1>4. ASSUME NEW k \in Positions, Only({k}) PROVE Only({k, i})'
  BY <1>2, <1>4 DEF Only, LinkEvent
<1> QED
  BY <1>2, <1>3, <1>4

LEMMA LinkComes ==
    ASSUME TypeInv, EpochInv, started, NEW h \in Handles, LinkUp(h),
           UNCHANGED conn
    PROVE  conn.handle = NoHandle /\ Unaware'
<1> USE DEF LinkUp
<1>0. inbox \in Seq(Event) /\ Connected(TRUE, h) \in Event
  BY EventIntro DEF TypeInv, TypeOK, RadioTypeOK
<1>1. conn.handle = NoHandle /\ Silent /\ NoneYet
  BY DEF EpochInv, Unaware, Aware, Failed, CameUp, CameAndWent, Gone, Holds
<1>2. inbox' = Append(inbox, Connected(TRUE, h)) /\ UNCHANGED <<proc, pairing>>
  BY DEF Report
<1>3. PICK i \in Nat :
        /\ i \in Positions' /\ inbox'[i] = Connected(TRUE, h)
        /\ \A j \in Positions : j < i /\ j \in Positions' /\ inbox'[j] = inbox[j]
        /\ \A j \in Positions' : j \in Positions \/ j = i
        /\ NoLinkEvent => Only({i})'
  BY <1>0, <1>2, LinkReported
<1>4. Only({i})'
  BY <1>1, <1>3 DEF NoneYet
<1>5. Silent'
  <2>1. ASSUME NEW j \in Positions' PROVE ~Completion(inbox'[j])
    BY <1>1, <1>3, <2>1 DEF Silent, Completion, Connected
  <2> QED
    BY <1>1, <1>2, <2>1 DEF Silent, Idle
<1>6. CameUp(i)'
  BY <1>0, <1>3, <1>4 DEF CameUp, Came, Holds, Connected, TypeInv, TypeOK, RadioTypeOK, Link
<1> QED
  BY <1>1, <1>3, <1>5, <1>6 DEF Unaware

LEMMA LinkFails ==
    ASSUME TypeInv, EpochInv, started, ConnectFails, UNCHANGED conn
    PROVE  conn.handle = NoHandle /\ Unaware'
<1> USE DEF ConnectFails
<1>0. inbox \in Seq(Event) /\ Connected(FALSE, NoHandle) \in Event
  BY EventIntro DEF TypeInv, TypeOK, RadioTypeOK
<1>1. conn.handle = NoHandle /\ Silent /\ NoneYet
  BY DEF EpochInv, Unaware, Aware, Failed, CameUp, CameAndWent, Gone, Holds
<1>2. inbox' = Append(inbox, Connected(FALSE, NoHandle)) /\ UNCHANGED <<proc, pairing>>
  BY DEF Report
<1>3. PICK i \in Nat :
        /\ i \in Positions' /\ inbox'[i] = Connected(FALSE, NoHandle)
        /\ \A j \in Positions : j < i /\ j \in Positions' /\ inbox'[j] = inbox[j]
        /\ \A j \in Positions' : j \in Positions \/ j = i
        /\ NoLinkEvent => Only({i})'
  BY <1>0, <1>2, LinkReported
<1>4. Only({i})'
  BY <1>1, <1>3 DEF NoneYet
<1>5. Silent'
  <2>1. ASSUME NEW j \in Positions' PROVE ~Completion(inbox'[j])
    BY <1>1, <1>3, <2>1 DEF Silent, Completion, Connected
  <2> QED
    BY <1>1, <1>2, <2>1 DEF Silent, Idle
<1>6. Failed(i)'
  BY <1>0, <1>3, <1>4 DEF Failed, Connected, NoLink
<1> QED
  BY <1>1, <1>3, <1>5, <1>6 DEF Unaware

LEMMA LinkGoes ==
    ASSUME TypeInv, EpochInv, started, LinkDown, UNCHANGED conn
    PROVE  IF conn.handle = NoHandle THEN Unaware' ELSE Aware'
<1> USE DEF LinkDown
<1>0. inbox \in Seq(Event) /\ Disconnected(link.handle) \in Event
      /\ Len(inbox) \in Nat
  BY EventIntro DEF TypeInv, TypeOK, RadioTypeOK, LinkInv
<1>1. PICK h \in Handles : h = link.handle
  BY DEF TypeInv, LinkInv
<1>2. inbox' = Append(inbox, Disconnected(h)) /\ link' = NoLink
  BY <1>1 DEF Report
<1>3. PICK i \in Nat :
        /\ i \in Positions' /\ inbox'[i] = Disconnected(h)
        /\ \A j \in Positions : j < i /\ j \in Positions' /\ inbox'[j] = inbox[j]
        /\ \A j \in Positions' : ~(j > i) /\ (j \in Positions \/ j = i)
        /\ NoLinkEvent => Only({i})'
        /\ \A k \in Positions : Only({k}) => Only({k, i})'
  BY <1>0, <1>1, <1>2, LinkReported
<1>4. Gone(i, h)'
  <2>1. \A j \in Positions' : j > i => ~Completion(inbox'[j])
    BY <1>3
  <2>2. link'.phase = "down"
    BY <1>2 DEF NoLink
  <2>3. inbox'[i].type = "disconnected" /\ inbox'[i].handle = h
    BY <1>3 DEF Disconnected
  <2> QED
    BY <2>1, <2>2, <2>3 DEF Gone, Completion
<1>5. CASE conn.handle # NoHandle
  <2>1. NoLinkEvent /\ link.handle = conn.handle
    BY <1>5 DEF EpochInv, Aware, Gone, Holds
  <2>2. Gone(i, conn.handle)'
    BY <1>1, <1>4, <2>1
  <2> QED
    BY <1>3, <1>5, <2>1, <2>2 DEF Aware
<1>6. CASE conn.handle = NoHandle
  <2>1. Silent
    BY <1>6 DEF EpochInv, Unaware
  <2>2. PICK k \in Positions : CameUp(k)
    BY <1>6 DEF EpochInv, Unaware, NoneYet, Failed, CameAndWent, Gone
  <2>3. Silent'
    BY <1>3, <2>1 DEF Silent, Idle, Completion, Disconnected
  <2>4. k < i /\ k \in Positions' /\ Came(k, h)' /\ Only({k, i})'
    BY <1>1, <1>3, <2>2 DEF CameUp, Came, Holds
  <2>5. CameAndWent(k, i)'
    BY <1>4, <2>4 DEF CameAndWent
  <2> QED
    BY <1>3, <1>6, <2>3, <2>4, <2>5 DEF Unaware
<1> QED
  BY <1>5, <1>6
-----------------------------------------------------------------------------
(* Steps that have nothing to do with the link.                            *)

GattLabels == {"idle", "pair", "request", "completed"}
SendLabels == {"loop", "arm", "claim", "write", "wait", "woken"}

\* A step of a thread that sets up the camera or sends a button.
Aside ==
    /\ UNCHANGED <<link, gap, scanning, started, stopping>>
    /\ conn'.handle = conn.handle /\ conn'.pending = conn.pending
    /\ \/ UNCHANGED <<proc, pairing>>
       \/ (started => conn.handle # NoHandle) /\ link.phase = "up"
    /\ \/ at'["ble"] = at["ble"]
       \/ /\ at["ble"] \in GattLabels /\ at'["ble"] \in GattLabels
          /\ at["ble"] # "idle" \/ at'["ble"] = "idle" \/ conn.handle # NoHandle
    /\ \/ at'["app"] = at["app"]
       \/ at["app"] \in SendLabels /\ at'["app"] \in SendLabels
    /\ \/ inbox' = inbox
       \/ /\ inbox # <<>> /\ inbox' = Tail(inbox)
          /\ ~LinkEvent(Head(inbox)) /\ Head(inbox).type # "procComplete"

\* The radio or the camera reports something else than a change of the link.
Traffic ==
    /\ UNCHANGED <<link, gap, scanning, started, stopping, conn, at>>
    /\ UNCHANGED <<proc, pairing>> \/ (~Idle /\ link.phase = "up")
    /\ \E s \in Seq(Event) :
          /\ inbox' = inbox \o s
          /\ \A k \in 1..Len(s) :
                /\ ~LinkEvent(s[k]) /\ s[k].type # "procComplete"
                /\ Completion(s[k]) => link.phase = "up" /\ ~Idle

LEMMA AsideKeeps == ASSUME SearchInv, Aside PROVE LinkageInv'
<1> USE DEF SearchInv, LinkageInv
<1>0. inbox \in Seq(Event)
  BY DEF TypeInv, TypeOK, RadioTypeOK
<1>1. /\ Reported' => Reported
      /\ Once => Once'
      /\ NoLinkEvent => NoLinkEvent'
  <2>1. CASE inbox' = inbox
    BY <2>1 DEF Reported, Once, NoLinkEvent, Only, LinkEvent, Positions
  <2>2. CASE inbox # <<>> /\ inbox' = Tail(inbox)
    BY <1>0, <2>2, TakeLeaves
  <2> QED
    BY <2>1, <2>2 DEF Aside
<1>2. SeekInv'
  BY <1>1 DEF Aside, SeekInv, Seeking, Unlinked, GattLabels, SendLabels
<1>3. conn.handle # NoHandle =>
        /\ gap = "idle" /\ ~Reported /\ ~scanning
        /\ at["app"] # "scanAccepted"
  BY DEF SeekInv, Seeking, Unlinked
<1>4. GapInv'
  <2>1. CASE conn.handle = NoHandle
    BY <1>1, <2>1 DEF Aside, GapInv, Ending, Leaving, GattLabels, SendLabels
  <2>2. CASE conn.handle # NoHandle
    BY <1>1, <1>3, <2>2 DEF Aside, GapInv, Ending, Leaving, GattLabels, SendLabels
  <2> QED
    BY <2>1, <2>2
<1>5. EpochInv'
  <2>1. /\ started /\ Unaware /\ conn.handle = NoHandle => Unaware'
        /\ started /\ Aware => Aware'
    <3> SUFFICES ASSUME started
                 PROVE  /\ Unaware /\ conn.handle = NoHandle => Unaware'
                        /\ Aware => Aware'
      OBVIOUS
    <3>1. UNCHANGED link /\ conn'.handle = conn.handle
          /\ (UNCHANGED <<proc, pairing>> \/ conn.handle # NoHandle)
      BY DEF Aside
    <3>2. CASE inbox' = inbox
      BY <3>1, <3>2, SameEvents
    <3>3. CASE inbox # <<>> /\ inbox' = Tail(inbox) /\ ~LinkEvent(Head(inbox))
      BY <1>0, <3>1, <3>3, OtherTaken
    <3> QED
      BY <3>2, <3>3 DEF Aside
  <2> QED
    BY <2>1 DEF Aside, EpochInv, Idle
<1>6. HangInv'
  BY <1>1 DEF Aside, HangInv, Unlinked, GattLabels, SendLabels
<1> QED
  BY <1>2, <1>4, <1>5, <1>6

LEMMA TrafficKeeps == ASSUME SearchInv, Traffic PROVE LinkageInv'
<1> USE DEF SearchInv, LinkageInv
<1>0. inbox \in Seq(Event)
  BY DEF TypeInv, TypeOK, RadioTypeOK
<1> PICK s \in Seq(Event) :
      /\ inbox' = inbox \o s
      /\ \A k \in 1..Len(s) :
            /\ ~LinkEvent(s[k]) /\ s[k].type # "procComplete"
            /\ Completion(s[k]) => link.phase = "up" /\ ~Idle
  BY DEF Traffic
<1>1. /\ Reported' <=> Reported
      /\ Once => Once'
      /\ NoLinkEvent => NoLinkEvent'
  BY <1>0, TrafficAdds
<1>2. /\ UNCHANGED <<link, conn>>
      /\ UNCHANGED <<proc, pairing>> \/ ~Idle
  BY DEF Traffic
<1>3. SeekInv' /\ GapInv' /\ HangInv'
  BY <1>1 DEF Traffic, SeekInv, Seeking, Unlinked, GapInv, Ending, Leaving, HangInv
<1>4. /\ Unaware => Unaware'
      /\ Aware => Aware'
  BY <1>0, <1>2, OtherReported
<1>5. EpochInv'
  BY <1>4 DEF Traffic, EpochInv, Idle
<1> QED
  BY <1>3, <1>5

\* Every event taken with a handle to compare is one of the link in use.
LEMMA EventOfLink ==
    ASSUME TypeInv, NEW type, Take(type),
           type \notin {"advertisement", "procComplete", "connected"}
    PROVE  conn.handle # NoHandle
  BY TakeType, EventElim, RadioAssumption
  DEF Take, Relevant, TypeInv, TypeOK, RadioTypeOK

LEMMA SendStepAside ==
    ASSUME TypeInv,
           \/ SendCall \/ ReportError
           \/ \E b \in Buttons : SendButton(b) \/ SendDeclined(b)
    PROVE  Aside
<1> USE DEF Aside, SendLabels, TypeInv, TypeOK, DeviceTypeOK, ControlTypeOK, AtOK,
        Connection, Step, Goto, data, device, session, search, call, shown, radio,
        air, peer, camera
<1>1. CASE SendCall
  <2>1. CASE Arm \/ Claim
    BY <2>1 DEF Arm, Claim
  <2>2. CASE WriteAccepted
    BY <2>2, RadioAssumption DEF WriteAccepted, CanGatt, Linked, BeginWrite, LinkInv
  <2>3. CASE WriteRefused
    BY <2>3 DEF WriteRefused
  <2>4. CASE Woken \/ SendReturns \/ SendTimeout
    BY <2>4 DEF Woken, SendReturns, SendTimeout
  <2> QED
    BY <1>1, <2>1, <2>2, <2>3, <2>4 DEF SendCall
<1>2. CASE ReportError
  BY <1>2 DEF ReportError
<1>3. ASSUME NEW b \in Buttons, SendButton(b) \/ SendDeclined(b) PROVE Aside
  BY <1>3 DEF SendButton, SendDeclined
<1> QED
  BY <1>1, <1>2, <1>3

LEMMA GattStepAside ==
    ASSUME TypeInv, SessionInv,
           \/ PairingRequested \/ PairingRefused \/ HandleNumericComparison
           \/ HandlePairingFailure \/ HandlePairingComplete
           \/ RequestAccepted \/ RequestRefused \/ HandleResult
           \/ HandleWriteComplete \/ HandleGattFailure \/ HandleGattComplete
           \/ DiscoveredNext \/ DiscoveredNothing \/ NotificationsEnabled
           \/ HandleNotification
    PROVE  Aside
<1> USE TakeType, EventOfLink
    DEF Aside, GattLabels, LinkEvent, TypeInv, TypeOK, DeviceTypeOK, ControlTypeOK, AtOK,
        Connection, Step, Goto, data, device, software, session, search, call, shown,
        radio, air, peer, camera
<1>1. CASE PairingRequested
  BY <1>1 DEF PairingRequested, CanPair, Linked, BeginPairing, SessionInv, PairInv
<1>2. CASE PairingRefused \/ RequestRefused
  BY <1>2 DEF PairingRefused, RequestRefused
<1>3. CASE HandleNumericComparison
  BY <1>3 DEF HandleNumericComparison, Take, ConfirmPairing, Linked
<1>4. CASE HandlePairingFailure
  BY <1>4 DEF HandlePairingFailure, Take
<1>5. CASE HandlePairingComplete
  BY <1>5 DEF HandlePairingComplete, Take
<1>6. CASE RequestAccepted
  BY <1>6, RadioAssumption DEF RequestAccepted, CanGatt, Linked, BeginGatt, LinkInv
<1>7. CASE HandleResult
  BY <1>7 DEF HandleResult, Take
<1>8. CASE HandleWriteComplete
  BY <1>8 DEF HandleWriteComplete, Take
<1>9. CASE HandleGattFailure
  BY <1>9 DEF HandleGattFailure, Take
<1>10. CASE HandleGattComplete
  BY <1>10 DEF HandleGattComplete, Take
<1>11. CASE DiscoveredNext
  BY <1>11 DEF DiscoveredNext
<1>12. CASE DiscoveredNothing \/ NotificationsEnabled
  BY <1>12 DEF DiscoveredNothing, NotificationsEnabled
<1>13. CASE HandleNotification
  BY <1>13 DEF HandleNotification, Take
<1> QED
  BY <1>1, <1>2, <1>3, <1>4, <1>5, <1>6, <1>7, <1>8, <1>9, <1>10, <1>11, <1>12, <1>13

LEMMA ReportsTraffic ==
    ASSUME SearchInv, UNCHANGED software,
           \/ Camera \/ PairAsks
           \/ \E ok \in BOOLEAN : PairFinishes(ok)
           \/ \E c \in Cameras, p \in BOOLEAN : Advertise(c, p)
    PROVE  Traffic
<1> USE DEF Traffic, LinkEvent, Completion, Idle, software, data, device, session, search,
        air, peer, camera
<1>0. /\ inbox \in Seq(Event) /\ RadioTypeOK /\ LinkInv
      /\ link.phase = "up" => link.handle \in Handles /\ link.camera \in Cameras
  BY DEF SearchInv, TypeInv, TypeOK, RadioTypeOK, LinkInv
\* One event is a sequence of one.
<1>a. ASSUME NEW e \in Event, Report(e), ~LinkEvent(e), e.type # "procComplete",
             Completion(e) => link.phase = "up" /\ ~Idle
      PROVE  \E s \in Seq(Event) :
                /\ inbox' = inbox \o s
                /\ \A k \in 1..Len(s) :
                      /\ ~LinkEvent(s[k]) /\ s[k].type # "procComplete"
                      /\ Completion(s[k]) => link.phase = "up" /\ ~Idle
  <2>1. <<e>> \in Seq(Event) /\ Len(<<e>>) = 1 /\ <<e>>[1] = e
    OBVIOUS
  <2>2. inbox' = inbox \o <<e>>
    BY <1>0, <1>a DEF Report
  <2>3. \A k \in 1..Len(<<e>>) :
          /\ ~LinkEvent(<<e>>[k]) /\ <<e>>[k].type # "procComplete"
          /\ Completion(<<e>>[k]) => link.phase = "up" /\ ~Idle
    BY <1>a, <2>1
  <2> QED
    BY <2>1, <2>2, <2>3
<1>1. CASE DiscoverySucceeds
  <2> DEFINE r == Result(link.handle, <<link.camera, Seeks[proc]>>)
             g == GattComplete(link.handle, TRUE)
             s == <<r, g>>
  <2>1. <<link.camera, Seeks[proc]>> \in Attrs
    BY <1>0, <1>1 DEF DiscoverySucceeds, Discoveries, Seeks, Attrs, Kinds
  <2>2. r \in Event /\ g \in Event
    BY <1>0, <1>1, <2>1, EventIntro DEF DiscoverySucceeds
  <2>3. r.type = "result" /\ g.type = "gattComplete"
    BY DEF Result, GattComplete
  <2>4. inbox' = inbox \o s /\ ~Idle /\ link.phase = "up"
    BY <1>1 DEF DiscoverySucceeds, Discoveries, Seeks
  <2> HIDE DEF r, g
  <2>5. s \in Seq(Event) /\ Len(s) = 2 /\ s[1] = r /\ s[2] = g
    BY <2>2
  <2>6. \A k \in 1..Len(s) :
          /\ ~LinkEvent(s[k]) /\ s[k].type # "procComplete"
          /\ Completion(s[k]) => link.phase = "up" /\ ~Idle
    BY <2>3, <2>4, <2>5
  <2> HIDE DEF s
  <2> QED
    BY <1>1, <2>4, <2>5, <2>6 DEF DiscoverySucceeds
<1>2. CASE DiscoveryFindsNothing
  <2>1. ~Idle
    BY <1>2 DEF DiscoveryFindsNothing, Discoveries, Seeks
  <2> QED
    BY <1>0, <1>2, <2>1, <1>a, EventIntro DEF DiscoveryFindsNothing, GattComplete
<1>3. CASE EnablingSucceeds
  BY <1>0, <1>3, <1>a, EventIntro DEF EnablingSucceeds, GattComplete
<1>4. CASE WriteSucceeds
  BY <1>0, <1>4, <1>a, EventIntro DEF WriteSucceeds, GattComplete
<1>5. CASE GattFails
  BY <1>0, <1>5, <1>a, EventIntro DEF GattFails, GattComplete
<1>6. ASSUME NEW n \in Notices, Notify(n) PROVE Traffic
  <2>1. <<link.camera, "status">> \in Attrs
    BY <1>0, <1>6 DEF Notify, Attrs, Kinds
  <2> QED
    BY <1>0, <1>6, <2>1, <1>a, EventIntro DEF Notify, Notification
<1>7. CASE PairAsks
  BY <1>0, <1>7, <1>a, EventIntro DEF PairAsks, NumericComparison
<1>8. ASSUME NEW ok \in BOOLEAN, PairFinishes(ok) PROVE Traffic
  BY <1>0, <1>8, <1>a, EventIntro DEF PairFinishes, PairingComplete
<1>9. ASSUME NEW c \in Cameras, NEW p \in BOOLEAN, Advertise(c, p) PROVE Traffic
  BY <1>0, <1>9, <1>a, EventIntro DEF Advertise, Advertisement
<1> QED
  BY <1>1, <1>2, <1>3, <1>4, <1>5, <1>6, <1>7, <1>8, <1>9 DEF Camera
-----------------------------------------------------------------------------
(* What the radio does to the link and to a discovery.                     *)

LEMMA LinkStep ==
    ASSUME SearchInv, UNCHANGED software,
           \/ \E h \in Handles : LinkUp(h)
           \/ ConnectFails \/ LinkDown
    PROVE  LinkageInv'
<1> USE DEF SearchInv, LinkageInv, software, data, device, session, search
<1>0. inbox \in Seq(Event)
  BY DEF TypeInv, TypeOK, RadioTypeOK
<1>1. PICK e \in Event : inbox' = Append(inbox, e) /\ e.type # "procComplete"
  BY EventIntro DEF LinkUp, ConnectFails, LinkDown, Report, Connected, Disconnected,
     TypeInv, LinkInv
<1>2. (Reported' <=> Reported) /\ (Once => Once')
  BY <1>0, <1>1, ReportAdds
<1>3. link.phase # "down" /\ UNCHANGED gap
  BY DEF LinkUp, ConnectFails, LinkDown, air
<1>4. SeekInv' /\ GapInv'
  BY <1>2, <1>3 DEF SeekInv, Seeking, Unlinked, GapInv, Ending, Leaving
<1>5. HangInv'
  <2>1. link.phase = "connecting" \/ link' = NoLink
    BY DEF LinkUp, ConnectFails, LinkDown
  <2>2. UNCHANGED <<started, conn, at>>
    OBVIOUS
  <2> QED
    BY <1>3, <2>1, <2>2 DEF HangInv, Unlinked, NoLink
<1>6. link'.phase \notin {"up", "closing"} => Idle'
  BY DEF EpochInv, Idle, LinkUp, ConnectFails, LinkDown, NoLink, TypeInv, TypeOK,
     RadioTypeOK, Link
<1>7. EpochInv'
  BY <1>6, LinkComes, LinkFails, LinkGoes DEF EpochInv
<1> QED
  BY <1>4, <1>5, <1>7

LEMMA DiscoveryStep ==
    ASSUME SearchInv, UNCHANGED software, NEW ok \in BOOLEAN, DiscoveryEnds(ok)
    PROVE  LinkageInv'
<1> USE DEF SearchInv, LinkageInv, software, data, device, session, search, DiscoveryEnds,
        peer
<1>0. inbox \in Seq(Event) /\ ProcComplete(ok) \in Event
  BY EventIntro DEF TypeInv, TypeOK, RadioTypeOK
<1>1. /\ inbox' = Append(inbox, ProcComplete(ok)) /\ ProcComplete(ok).type = "procComplete"
      /\ ~LinkEvent(ProcComplete(ok)) /\ ~Completion(ProcComplete(ok))
  BY DEF Report, ProcComplete, LinkEvent, Completion
<1>2. /\ Reported' /\ (Once /\ ~Reported => Once')
      /\ NoLinkEvent => NoLinkEvent'
  BY <1>0, <1>1, ReportAdds
<1>3. SeekInv' /\ GapInv'
  BY <1>2 DEF SeekInv, Seeking, Unlinked, GapInv, Ending, Leaving
<1>4. HangInv'
  BY <1>2 DEF HangInv, Unlinked
<1>5. (Unaware => Unaware') /\ (Aware => Aware')
  <2> DEFINE s == <<ProcComplete(ok)>>
  <2>1. s \in Seq(Event) /\ Len(s) = 1 /\ s[1] = ProcComplete(ok)
    BY <1>0
  <2>2. inbox' = inbox \o s
    BY <1>0, <1>1
  <2> HIDE DEF s
  <2>3. \A k \in 1..Len(s) : ~LinkEvent(s[k]) /\ ~Completion(s[k])
    BY <1>1, <2>1
  <2> QED
    BY <1>0, <2>1, <2>2, <2>3, OtherReported
<1>6. EpochInv'
  BY <1>5 DEF EpochInv, Idle
<1> QED
  BY <1>3, <1>4, <1>6
-----------------------------------------------------------------------------
(* start_scan, by either thread.                                           *)

LEMMA InboxSame ==
    ASSUME inbox' = inbox
    PROVE  /\ Reported' <=> Reported
           /\ Once' <=> Once
           /\ NoLinkEvent' <=> NoLinkEvent
  BY DEF Reported, Once, NoLinkEvent, Only, LinkEvent, Positions

\* A step that changes neither link nor handle nor inbox keeps what they tell.
LEMMA EpochSame ==
    ASSUME EpochInv, UNCHANGED <<link, inbox, proc, pairing>>,
           started' => started /\ conn'.handle = conn.handle
    PROVE  EpochInv'
<1>1. CASE conn'.handle = conn.handle
  BY <1>1, SameEvents DEF EpochInv, Idle
<1>2. CASE ~started'
  BY <1>2 DEF EpochInv, Idle
<1> QED
  BY <1>1, <1>2

LEMMA ScanStep ==
    ASSUME SearchInv, NEW t \in {"app", "ble"}, StartScan(t)
    PROVE  LinkageInv'
<1> USE DEF SearchInv, LinkageInv, data, device, session, search, radio, air, peer,
        Step, Goto, Home
<1>0. /\ at \in [{"app", "ble"} -> AppLabels \cup BleLabels] /\ inbox' = inbox
      /\ UNCHANGED <<started, stopping, link, proc, pairing>>
      /\ conn \in Connection
  BY DEF TypeInv, TypeOK, ControlTypeOK, AtOK, DeviceTypeOK, StartScan, ScanDeclined,
     ScanChecked, ScanAccepted, ScanRefused, ScanFlagged, ScanShown, BeginDiscovery
<1>1. (Reported' <=> Reported) /\ (Once' <=> Once) /\ (NoLinkEvent' <=> NoLinkEvent)
  BY <1>0, InboxSame
<1>2. at["ble"] \in {"scan", "scanCommand", "scanAccepted"} => conn.handle = NoHandle
  BY DEF SeekInv, Seeking, Unlinked
<1>a. at["app"] \in {"scan", "scanCommand"} => Fresh
  BY DEF SessionInv
<1>b. NoConnection.handle = NoHandle /\ ~NoConnection.pending
  BY DEF NoConnection
<1>3. conn'.handle = conn.handle
  BY <1>2, <1>a, <1>b DEF StartScan, ScanDeclined, ScanChecked, ScanAccepted, ScanRefused,
     ScanFlagged, ScanShown, ResetConnection, Fresh
<1>4. EpochInv'
  BY <1>0, <1>3, EpochSame
<1>5. CASE t = "ble"
  <2>1. at'["app"] = at["app"] /\ at'["ble"] \in BleLabels
    BY <1>0, <1>5 DEF BleLabels, StartScan, ScanDeclined, ScanChecked, ScanAccepted,
       ScanRefused, ScanFlagged, ScanShown
  <2>2. SeekInv'
    BY <1>0, <1>1, <1>3, <1>5, <2>1 DEF SeekInv, Seeking, Unlinked, StartScan, ScanDeclined,
       ScanChecked, ScanAccepted, ScanRefused, ScanFlagged, ScanShown
  <2>3. HangInv'
    BY <1>0, <1>1, <1>2, <1>3, <1>5, <2>1 DEF HangInv, Unlinked, GapInv, Leaving, StartScan,
       ScanDeclined, ScanChecked, ScanAccepted, ScanRefused, ScanFlagged, ScanShown
  <2>4. GapInv'
    <3>1. CASE ScanDeclined("ble") \/ ScanChecked("ble")
      BY <1>0, <1>1, <2>1, <3>1 DEF GapInv, Ending, Leaving, ScanDeclined, ScanChecked
    <3>2. CASE ScanAccepted("ble")
      BY <1>0, <1>1, <1>b, <2>1, <3>2 DEF GapInv, Ending, Leaving, ScanAccepted, CanDiscover,
         BeginDiscovery, ResetConnection
    <3>3. CASE ScanRefused("ble")
      BY <1>0, <1>1, <1>b, <2>1, <3>3 DEF GapInv, Ending, Leaving, ScanRefused,
         ResetConnection
    <3>4. CASE ScanFlagged("ble")
      <4>1. /\ gap = "discovery" /\ ~conn.pending /\ at["ble"] = "scanAccepted"
            /\ at["app"] \notin {"off", "quiet", "scan", "scanCommand", "scanAccepted"}
        BY <3>4 DEF ScanFlagged, GapInv, SessionInv, Fresh
      <4> QED
        BY <1>0, <1>1, <2>1, <3>4, <4>1 DEF GapInv, Ending, Leaving, ScanFlagged
    <3>5. CASE ScanShown("ble")
      BY <1>0, <1>1, <2>1, <3>5 DEF GapInv, Ending, Leaving, ScanShown
    <3> QED
      BY <1>5, <3>1, <3>2, <3>3, <3>4, <3>5 DEF StartScan
  <2> QED
    BY <1>4, <2>2, <2>3, <2>4
<1>6. CASE t = "app"
  <2>1. at'["ble"] = at["ble"] /\ at'["app"] \in AppLabels
    BY <1>0, <1>6 DEF AppLabels, StartScan, ScanDeclined, ScanChecked, ScanAccepted,
       ScanRefused, ScanFlagged, ScanShown
  <2>2. SeekInv'
    BY <1>0, <1>1, <1>3, <1>6, <2>1 DEF SeekInv, Seeking, Unlinked, StartScan, ScanDeclined,
       ScanChecked, ScanAccepted, ScanRefused, ScanFlagged, ScanShown
  <2>3. HangInv'
    BY <1>0, <1>1, <1>6, <2>1 DEF HangInv, StartScan,
       ScanDeclined, ScanChecked, ScanAccepted, ScanRefused, ScanFlagged, ScanShown
  <2>4. at["app"] \in {"scan", "scanCommand"} => ~Reported
    BY <1>a DEF Fresh, Reported, Positions
  <2>5. GapInv'
    <3>1. CASE ScanDeclined("app") \/ ScanChecked("app")
      BY <1>0, <1>1, <2>1, <3>1 DEF GapInv, Ending, Leaving, ScanDeclined, ScanChecked
    <3>2. CASE ScanAccepted("app")
      BY <1>0, <1>1, <1>a, <1>b, <2>1, <2>4, <3>2 DEF GapInv, Ending, Leaving, ScanAccepted,
         CanDiscover, BeginDiscovery, ResetConnection, Fresh
    <3>3. CASE ScanRefused("app")
      BY <1>0, <1>1, <1>a, <1>b, <2>1, <2>4, <3>3 DEF GapInv, Ending, Leaving, ScanRefused,
         ResetConnection, Fresh
    <3>4. CASE ScanFlagged("app")
      BY <1>0, <1>1, <2>1, <3>4 DEF GapInv, Ending, Leaving, ScanFlagged
    <3>5. CASE ScanShown("app")
      BY <1>0, <1>1, <2>1, <3>5 DEF GapInv, Ending, Leaving, ScanShown
    <3> QED
      BY <1>6, <3>1, <3>2, <3>3, <3>4, <3>5 DEF StartScan
  <2> QED
    BY <1>4, <2>2, <2>3, <2>5
<1> QED
  BY <1>5, <1>6
-----------------------------------------------------------------------------
(* The handlers that seek a camera and follow its link.                    *)

\* An event is taken only in a session, by an idle ble thread.
LEMMA Taken ==
    ASSUME SearchInv, NEW type, Take(type)
    PROVE  /\ started /\ at["ble"] = "idle" /\ inbox # <<>> /\ inbox \in Seq(Event)
           /\ inbox' = Tail(inbox) /\ Head(inbox).type = type
           /\ at["app"] \notin {"off", "quiet", "scan", "scanCommand", "release", "stopped"}
           /\ at \in [{"app", "ble"} -> AppLabels \cup BleLabels] /\ conn \in Connection
           /\ type = "procComplete" => conn.pending
           /\ type = "advertisement" => scanning
  BY DEF SearchInv, SessionInv, Fresh, Take, Relevant, TypeInv, TypeOK, RadioTypeOK,
     ControlTypeOK, AtOK, DeviceTypeOK

LEMMA DropStep == ASSUME SearchInv, Drop PROVE LinkageInv'
<1> USE DEF SearchInv, LinkageInv, Drop, software, data, device, session, search, radio,
        air, peer
<1>0. inbox \in Seq(Event)
  BY DEF TypeInv, TypeOK, RadioTypeOK
<1>1. /\ Reported' => Reported
      /\ Once => Once'
      /\ NoLinkEvent => NoLinkEvent'
  BY <1>0, TakeLeaves
<1>2. SeekInv' /\ GapInv' /\ HangInv'
  BY <1>1 DEF SeekInv, Seeking, Unlinked, GapInv, Ending, Leaving, HangInv
<1>3. ASSUME started PROVE ~LinkEvent(Head(inbox))
  BY <1>3, FirstEvent, TakeShifts, <1>0 DEF LinkEvent, Gone, Relevant
<1>4. EpochInv'
  BY <1>0, <1>3, OtherTaken DEF EpochInv, Idle
<1> QED
  BY <1>2, <1>4

LEMMA ReportStep == ASSUME SearchInv, HandleAdvertisingReport PROVE LinkageInv'
<1> USE DEF SearchInv, LinkageInv, HandleAdvertisingReport, session, radio, air, peer, Goto
<1> USE Taken
<1>1. /\ Reported' => Reported
      /\ Once => Once'
      /\ NoLinkEvent => NoLinkEvent'
      /\ ~LinkEvent(Head(inbox))
  BY TakeLeaves DEF LinkEvent
<1>2. scanning /\ Unlinked /\ conn'.handle = conn.handle /\ conn'.pending
  BY DEF SeekInv, Seeking, Connection
<1>3. /\ gap = "discovery" \/ stopping
      /\ at["app"] # "scanAccepted" /\ (Ending => stopping)
  BY <1>2 DEF GapInv, Ending
<1>4. SeekInv' /\ HangInv'
  BY <1>1, <1>2 DEF SeekInv, Unlinked, HangInv
<1>5. GapInv'
  BY <1>1, <1>2, <1>3 DEF GapInv, Ending, Leaving
<1>6. EpochInv'
  BY <1>1, <1>2, OtherTaken DEF EpochInv, Idle, Unlinked
<1> QED
  BY <1>4, <1>5, <1>6

LEMMA TerminateStep ==
    ASSUME SearchInv, TerminateAccepted \/ TerminateRefused
    PROVE  LinkageInv'
<1> USE DEF SearchInv, LinkageInv, data, device, session, search, radio, air, peer, camera,
        Step, Goto
<1>0. /\ at \in [{"app", "ble"} -> AppLabels \cup BleLabels] /\ conn \in Connection
      /\ at["ble"] = "terminate"
  BY DEF TypeInv, TypeOK, ControlTypeOK, AtOK, DeviceTypeOK, TerminateAccepted,
     TerminateRefused
<1>1. /\ UNCHANGED <<link, inbox, proc, pairing, started, stopping, scanning>>
      /\ conn'.handle = conn.handle
  BY <1>0 DEF TerminateAccepted, TerminateRefused, EndDiscovery, Connection
<1>2. (Reported' <=> Reported) /\ (Once' <=> Once) /\ (NoLinkEvent' <=> NoLinkEvent)
  BY <1>1, InboxSame
<1>3. /\ Unlinked /\ ~scanning
      /\ at["app"] \notin {"off", "quiet", "scan", "scanCommand", "scanAccepted",
                            "hangup", "awaitDown"}
      /\ started \/ stopping
      /\ started => conn.pending
      /\ Ending => stopping
  BY <1>0 DEF SeekInv, Seeking, Unlinked, SessionInv, Fresh, GapInv, Leaving, HangInv
<1>4. EpochInv'
  BY <1>1, EpochSame
<1>5. at'["app"] = at["app"] /\ at'["ble"] \in {"idle", "scan"}
  BY <1>0 DEF TerminateAccepted, TerminateRefused
<1>6. SeekInv' /\ HangInv'
  BY <1>0, <1>1, <1>2, <1>3, <1>5 DEF SeekInv, Unlinked, HangInv
<1>7. GapInv'
  <2>1. CASE TerminateAccepted
    BY <1>0, <1>1, <1>2, <1>3, <1>5, <2>1 DEF GapInv, Ending, Leaving, TerminateAccepted,
       EndDiscovery
  <2>2. CASE TerminateRefused
    BY <1>0, <1>1, <1>2, <1>3, <1>5, <2>2 DEF GapInv, Ending, Leaving, TerminateRefused
  <2> QED
    BY <2>1, <2>2
<1> QED
  BY <1>4, <1>6, <1>7

\* The end of the discovery: the one that was waited for, with nothing linked.
LEMMA GapStep ==
    ASSUME SearchInv, HandleGapComplete \/ HandleGapFailure
    PROVE  LinkageInv'
<1> USE DEF SearchInv, LinkageInv, software, data, device, session, search, radio, air, peer,
        camera, Goto
<1>0. Take("procComplete")
  BY DEF HandleGapComplete, HandleGapFailure
<1>1. /\ Reported /\ ~Reported' /\ Once'
      /\ NoLinkEvent => NoLinkEvent'
      /\ ~LinkEvent(Head(inbox))
  BY <1>0, Taken, TakeLeaves DEF GapInv, LinkEvent
<1>2. /\ Unlinked /\ gap = "idle" /\ conn.pending /\ ~scanning
      /\ at["app"] \notin {"off", "quiet", "scan", "scanCommand", "scanAccepted",
                            "hangup", "awaitDown"}
  BY <1>0, <1>1, Taken DEF SeekInv, Seeking, Unlinked, GapInv, HangInv
<1>3. /\ UNCHANGED <<gap, proc, pairing, started, stopping, scanning>>
      /\ conn'.handle = conn.handle /\ at'["app"] = at["app"]
  BY <1>0, Taken DEF HandleGapComplete, HandleGapFailure, BeginConnection, Connection
<1>4. Idle /\ Unaware /\ Idle'
  BY <1>0, <1>2, <1>3, Taken DEF EpochInv, Unlinked, Idle
<1>5. Silent'
  <2>1. \A i \in Positions' : ~Completion(inbox'[i])
    BY <1>0, <1>4, Taken, TakeShifts DEF Unaware, Silent, Completion
  <2> QED
    BY <1>4, <2>1 DEF Silent
<1>6. link'.phase \in {"down", "connecting"} /\ NoLinkEvent'
  BY <1>1, <1>2 DEF Unlinked, HandleGapComplete, HandleGapFailure, BeginConnection
<1>7. EpochInv'
  BY <1>2, <1>3, <1>4, <1>5, <1>6 DEF EpochInv, Unaware, NoneYet, Unlinked
<1>8. HangInv'
  BY <1>2, <1>3 DEF HangInv
<1>9. SeekInv'
  <2>1. CASE HandleGapComplete
    BY <1>0, <1>1, <1>2, <1>3, <2>1, Taken DEF SeekInv, Seeking, HandleGapComplete
  <2>2. CASE HandleGapFailure
    BY <1>1, <1>2, <1>3, <2>2 DEF SeekInv, Unlinked, HandleGapFailure
  <2> QED
    BY <2>1, <2>2
<1>10. GapInv'
  <2>1. CASE HandleGapComplete
    BY <1>0, <1>1, <1>2, <1>3, <2>1, Taken DEF GapInv, Ending, Leaving, HandleGapComplete
  <2>2. CASE HandleGapFailure
    BY <1>0, <1>1, <1>2, <1>3, <2>2, Taken DEF GapInv, Ending, Leaving, HandleGapFailure
  <2> QED
    BY <2>1, <2>2
<1> QED
  BY <1>7, <1>8, <1>9, <1>10

\* The link failed or came up.
LEMMA ConnectedStep ==
    ASSUME SearchInv,
           HandleConnectionFailure \/ HandleConnectedPairing \/ HandleConnected
    PROVE  LinkageInv'
<1> USE DEF SearchInv, LinkageInv, software, data, device, session, search, radio, air, peer,
        camera, Goto
<1>0. Take("connected")
  BY DEF HandleConnectionFailure, HandleConnectedPairing, HandleConnected
<1>1. /\ Reported' => Reported
      /\ Once => Once'
      /\ ~NoLinkEvent
  BY <1>0, Taken, TakeLeaves DEF LinkEvent
<1>2. ~Seeking
  BY <1>1 DEF SeekInv, Unlinked
<1>3. /\ UNCHANGED <<gap, proc, pairing, started, stopping, scanning, link>>
      /\ conn'.pending = conn.pending /\ at'["app"] = at["app"]
      /\ at'["ble"] \in {"scan", "pair", "request"}
  BY <1>0, Taken DEF HandleConnectionFailure, HandleConnectedPairing, HandleConnected,
     Connection
<1>4. GapInv'
  BY <1>1, <1>2, <1>3 DEF GapInv, Seeking, Ending, Leaving
<1>5. CASE HandleConnectionFailure
  <2>1. Unlinked' /\ Unaware' /\ conn.handle = NoHandle
    BY <1>0, <1>3, <1>5, Taken, FailureTaken, FirstEvent DEF HandleConnectionFailure
  <2>2. SeekInv' /\ EpochInv'
    BY <2>1, <1>3 DEF SeekInv, EpochInv, Unlinked, Idle
  <2>3. HangInv'
    BY <1>1, <1>3, <2>1 DEF HangInv, Unlinked
  <2> QED
    BY <1>4, <2>2, <2>3
<1>6. CASE HandleConnectedPairing \/ HandleConnected
  <2>1. conn'.handle = Head(inbox).handle /\ Head(inbox).ok
    BY <1>0, <1>6, Taken DEF HandleConnectedPairing, HandleConnected, Connection
  <2>2. conn'.handle # NoHandle /\ Aware'
    BY <1>0, <1>3, <2>1, Taken, ConnectionTaken
  <2>3. at'["ble"] \in {"pair", "request"}
    BY <1>0, <1>6, Taken DEF HandleConnectedPairing, HandleConnected
  <2>4. SeekInv'
    BY <1>1, <1>2, <1>3, <2>3 DEF SeekInv, Seeking
  <2>5. EpochInv' /\ HangInv'
    BY <1>3, <2>2 DEF EpochInv, HangInv, Idle
  <2> QED
    BY <1>4, <2>4, <2>5
<1> QED
  BY <1>5, <1>6

LEMMA DisconnectedStep == ASSUME SearchInv, HandleDisconnected PROVE LinkageInv'
<1> USE DEF SearchInv, LinkageInv, session, radio, air, peer, Goto
<1>0. Take("disconnected")
  BY DEF HandleDisconnected
<1>1. /\ Reported' => Reported
      /\ Once => Once'
  BY <1>0, Taken, TakeLeaves
<1>2. /\ UNCHANGED <<gap, proc, pairing, started, stopping, link>> /\ ~scanning'
      /\ conn'.handle = NoHandle /\ ~conn'.pending
  BY DEF HandleDisconnected, ResetConnection, NoConnection
<1>3. conn.handle # NoHandle /\ Unlinked' /\ Unaware'
  BY <1>0, <1>2, Taken, DisconnectionTaken
<1>4. ~Seeking
  BY <1>3 DEF SeekInv, Unlinked
<1>5. at'["app"] = at["app"] /\ at'["ble"] = IF stopping THEN "idle" ELSE "scan"
  BY <1>0, Taken DEF HandleDisconnected
<1>6. SeekInv' /\ EpochInv'
  BY <1>2, <1>3 DEF SeekInv, EpochInv, Idle, Unaware, Silent
<1>7. GapInv'
  BY <1>1, <1>2, <1>4, <1>5 DEF GapInv, Seeking, Ending, Leaving
<1>8. HangInv'
  BY <1>2, <1>3, <1>5 DEF HangInv, GapInv, Leaving
<1> QED
  BY <1>6, <1>7, <1>8
-----------------------------------------------------------------------------
(* sony_transport_start and sony_transport_stop.                           *)

\* Steps of the app thread that leave the radio's link alone.
LEMMA SessionSteps ==
    ASSUME SearchInv,
           \/ Start \/ StopAdvertising \/ Stop \/ StopScan \/ StopScanFlag
           \/ StopNoScan \/ StopLink \/ StopNoLink \/ AwaitDown
           \/ Unregister \/ Release
    PROVE  LinkageInv'
<1> USE DEF SearchInv, LinkageInv, data, device, session, search, radio, air, peer, camera,
        Step, Goto
<1>0. at \in [{"app", "ble"} -> AppLabels \cup BleLabels]
  BY DEF TypeInv, TypeOK, ControlTypeOK, AtOK
<1>1. /\ UNCHANGED <<inbox, link, proc, pairing>> /\ at'["ble"] = at["ble"]
      /\ at'["app"] \in AppLabels
  BY <1>0 DEF AppLabels, Start, StopAdvertising, Stop, StopScan, StopScanFlag, StopNoScan,
     StopLink, StopNoLink, AwaitDown, Unregister, Release, SetAdvertising, EndDiscovery
<1>2. (Reported' <=> Reported) /\ (Once' <=> Once) /\ (NoLinkEvent' <=> NoLinkEvent)
  BY <1>1, InboxSame
<1>3. NoConnection.handle = NoHandle /\ ~NoConnection.pending
  BY DEF NoConnection
<1>4. at["app"] = "off" => Fresh /\ ~Reported /\ ~scanning
  BY DEF SessionInv, Fresh, Reported, Positions, GapInv
<1>5. EpochInv'
  <2>1. CASE Start
    <3>1. Unaware' /\ conn'.handle = NoHandle /\ Idle'
      BY <1>1, <1>3, <1>4, <2>1
      DEF Start, Fresh, Unaware, Silent, Idle, NoneYet, NoLinkEvent, Only, Positions, EpochInv
    <3> QED
      BY <3>1 DEF EpochInv
  <2>2. CASE Unregister \/ Release
    <3>1. ~started'
      BY <2>2 DEF Unregister, Release, SessionInv
    <3> QED
      BY <1>1, <3>1, EpochSame
  <2>3. CASE \/ StopAdvertising \/ Stop \/ StopScan \/ StopScanFlag
             \/ StopNoScan \/ StopLink \/ StopNoLink \/ AwaitDown
    <3>1. UNCHANGED <<started, conn>>
      BY <2>3 DEF StopAdvertising, Stop, StopScan, StopScanFlag, StopNoScan, StopLink,
         StopNoLink, AwaitDown
    <3> QED
      BY <1>1, <3>1, EpochSame
  <2> QED
    BY <2>1, <2>2, <2>3
<1>6. CASE Start
  BY <1>0, <1>1, <1>2, <1>4, <1>5, <1>6
  DEF Start, Fresh, SeekInv, Seeking, Unlinked, GapInv, Ending, Leaving, HangInv
<1>7. CASE StopAdvertising
  BY <1>0, <1>1, <1>2, <1>5, <1>7
  DEF StopAdvertising, SetAdvertising, SeekInv, Seeking, Unlinked, GapInv, Ending, Leaving,
      HangInv
<1>8. CASE Stop
  BY <1>0, <1>1, <1>2, <1>5, <1>8
  DEF Stop, SeekInv, Seeking, Unlinked, GapInv, Ending, Leaving, HangInv
<1>9. CASE StopScan
  BY <1>0, <1>1, <1>2, <1>5, <1>9
  DEF StopScan, EndDiscovery, SeekInv, Seeking, Unlinked, GapInv, Ending, Leaving, HangInv
<1>10. CASE StopScanFlag
  BY <1>0, <1>1, <1>2, <1>5, <1>10
  DEF StopScanFlag, SeekInv, Seeking, Unlinked, GapInv, Ending, Leaving, HangInv
<1>11. CASE StopNoScan \/ StopLink \/ StopNoLink
  BY <1>0, <1>1, <1>2, <1>5, <1>11
  DEF StopNoScan, StopLink, StopNoLink, SeekInv, Seeking, Unlinked, GapInv, Ending, Leaving,
      HangInv
<1>12. CASE AwaitDown \/ Unregister
  BY <1>0, <1>1, <1>2, <1>5, <1>12
  DEF AwaitDown, Unregister, SeekInv, Seeking, Unlinked, GapInv, Ending, Leaving, HangInv
<1>13. CASE Release
  BY <1>0, <1>1, <1>2, <1>3, <1>5, <1>13
  DEF Release, SetAdvertising, ResetConnection, SeekInv, Seeking, Unlinked, GapInv, Ending,
      Leaving, HangInv, SessionInv
<1> QED
  BY <1>6, <1>7, <1>8, <1>9, <1>10, <1>11, <1>12, <1>13

\* Hanging up closes the link that is up, which is the one in use.
LEMMA HangUpStep == ASSUME SearchInv, HangUp PROVE LinkageInv'
<1> USE DEF SearchInv, LinkageInv, HangUp, EndConnection, data, device, session, search, air,
        Step, Goto
<1>0. /\ at \in [{"app", "ble"} -> AppLabels \cup BleLabels] /\ at["app"] = "hangup"
      /\ UNCHANGED <<inbox, proc, pairing, gap, started, stopping, scanning, conn>>
      /\ at'["ble"] = at["ble"] /\ at'["app"] = "awaitDown"
  BY DEF TypeInv, TypeOK, ControlTypeOK, AtOK
<1>1. (Reported' <=> Reported) /\ (Once' <=> Once) /\ (NoLinkEvent' <=> NoLinkEvent)
  BY <1>0, InboxSame
<1>2. started
  BY <1>0 DEF HangInv
<1> HIDE DEF Step, Goto, session, search, device, data, air
<1>3. CASE Linked(conn.handle)
  <2>1. link'.phase = "closing" /\ link'.handle = link.handle /\ link.phase = "up"
    BY <1>3 DEF Linked, TypeInv, TypeOK, RadioTypeOK, Link
  <2>2. conn.handle # NoHandle
    BY <1>3, RadioAssumption DEF Linked, TypeInv, LinkInv
  <2>3. NoLinkEvent /\ link.handle = conn.handle
    BY <1>2, <1>3, <2>1, <2>2 DEF EpochInv, Aware, Gone, Linked
  <2>4. ~Seeking
    BY <2>1 DEF SeekInv, Unlinked
  <2>5. SeekInv' /\ GapInv' /\ HangInv'
    BY <1>0, <1>1, <1>2, <2>1, <2>2, <2>4
    DEF SeekInv, Seeking, GapInv, Ending, Leaving, HangInv
  <2>6. EpochInv'
    BY <1>0, <1>1, <2>1, <2>2, <2>3 DEF EpochInv, Aware, Holds
  <2> QED
    BY <2>5, <2>6
<1>4. CASE ~Linked(conn.handle)
  <2>1. UNCHANGED link
    BY <1>4
  <2> HIDE DEF HangUp, EndConnection
  <2>2. link.phase \in {"closing", "down"}
    BY <1>0, <1>2, <1>4 DEF HangInv, EpochInv, Aware, Holds, Gone, Linked, Unlinked
  <2>3. SeekInv' /\ GapInv'
    BY <1>0, <1>1, <1>2, <2>1 DEF SeekInv, Seeking, Unlinked, GapInv, Ending, Leaving
  <2>4. HangInv'
    BY <1>0, <1>1, <1>2, <2>1, <2>2 DEF HangInv, Unlinked
  <2>5. EpochInv'
    BY <1>0, <2>1, EpochSame
  <2> QED
    BY <2>3, <2>4, <2>5
<1> QED
  BY <1>3, <1>4
-----------------------------------------------------------------------------
(* All steps, and the theorems.                                            *)

LEMMA LinkageStep ==
    ASSUME "discoveryTimeout" \notin Faults, SearchInv, [Next]_vars
    PROVE  LinkageInv'
<1>1. CASE AppThread
  <2>1. CASE Exited
    <3>1. Aside
      BY <2>1 DEF Exited, vars, software, data, device, session, search, radio, peer, air, Aside
    <3> QED
      BY <3>1, AsideKeeps
  <2> QED
    BY <1>1, <2>1, SessionSteps, HangUpStep, ScanStep, SendStepAside, AsideKeeps
    DEF AppThread, StartCall, StopCall, Client, SearchInv
<1>2. CASE BleThread
  BY <1>2, ScanStep, DropStep, ReportStep, TerminateStep, GapStep, ConnectedStep,
     DisconnectedStep, GattStepAside, AsideKeeps
  DEF BleThread, SearchInv
<1>3. CASE Environment
  BY <1>3, LinkStep, DiscoveryStep, ReportsTraffic, TrafficKeeps
  DEF Environment, Radio, DiscoveryTimeout
<1>4. CASE UNCHANGED vars
  <2>1. Aside
    BY <1>4 DEF vars, software, data, device, session, search, radio, peer, air, Aside
  <2> QED
    BY <2>1, AsideKeeps
<1> QED
  BY <1>1, <1>2, <1>3, <1>4 DEF Next

LEMMA InitSearch == Init => SearchInv
<1> SUFFICES ASSUME Init PROVE SearchInv
  OBVIOUS
<1> USE DEF Init, RadioInit, NoLink, NoConnection
<1>1. TypeInv /\ SessionInv
  BY InitTypeInv DEF SessionInv, Fresh, PairInv
<1>2. ~Reported /\ Once /\ NoLinkEvent
  BY DEF Reported, Once, NoLinkEvent, Only, Positions
<1> QED
  BY <1>1, <1>2 DEF SearchInv, LinkageInv, SeekInv, Unlinked, GapInv, Ending, Leaving,
     EpochInv, Idle, HangInv

LEMMA SearchStep ==
    "discoveryTimeout" \notin Faults /\ SearchInv /\ [Next]_vars => SearchInv'
<1> SUFFICES ASSUME "discoveryTimeout" \notin Faults, SearchInv, [Next]_vars
             PROVE  SearchInv'
  OBVIOUS
<1>1. TypeInv'
  BY TypeInvStep DEF SearchInv
<1>2. SessionInv'
  <2>1. CASE UNCHANGED vars
    BY <2>1 DEF SearchInv, vars, software, radio, air, peer, data, device, session,
       SessionInv, Fresh, PairInv
  <2> QED
    BY <2>1, SessionStep DEF SearchInv
<1> QED
  BY <1>1, <1>2, LinkageStep DEF SearchInv

\* start_scan forgets the connection, and is called from six error branches of
\* two threads: whatever their interleaving, it never starts a scan while a
\* camera is linked or being linked.
THEOREM ScansUnlinked == "discoveryTimeout" \notin Faults => (Spec => []ScanOnlyUnlinked)
<1>1. SearchInv => ScanOnlyUnlinked
  BY DEF SearchInv, LinkageInv, SeekInv, Seeking, Unlinked, ScanOnlyUnlinked
<1> SUFFICES ASSUME "discoveryTimeout" \notin Faults PROVE Spec => []ScanOnlyUnlinked
  OBVIOUS
<1>2. SearchInv /\ [Next]_vars => SearchInv'
  BY SearchStep
<1> QED
  BY <1>1, <1>2, InitSearch, PTL DEF Spec

\* sony_transport_stop tests the handle, then hangs up and waits: by then the
\* link it used is closing or gone, and no other has come up in its place.
THEOREM HangsUp == "discoveryTimeout" \notin Faults => (Spec => []StopHangsUp)
<1>1. SearchInv => StopHangsUp
  BY DEF SearchInv, LinkageInv, HangInv, StopHangsUp
<1> SUFFICES ASSUME "discoveryTimeout" \notin Faults PROVE Spec => []StopHangsUp
  OBVIOUS
<1>2. SearchInv /\ [Next]_vars => SearchInv'
  BY SearchStep
<1> QED
  BY <1>1, <1>2, InitSearch, PTL DEF Spec
-----------------------------------------------------------------------------
(* AttributesOfLinkedCamera.  Each attribute is sought once per link, and    *)
(* its result is handled, or ignored, before the next one is.                *)

\* What waits in the inbox of discoveries and of pairings.
Results == \E i \in Positions : inbox[i].type = "result"
OneResult ==
    \A i, j \in Positions : inbox[i].type = "result" /\ inbox[j].type = "result" => i = j
ResultsOf(k) == \A i \in Positions : inbox[i].type = "result" => inbox[i].attr[2] = k
ResultsFrom(c) == \A i \in Positions : inbox[i].type = "result" => inbox[i].attr[1] = c
ResultsComplete ==
    \A i \in Positions : inbox[i].type = "result"
        => i + 1 \in Positions /\ inbox[i + 1].type = "gattComplete"
PairDone == \E i \in Positions : inbox[i].type = "pairingComplete"
PairedOnce ==
    \A i, j \in Positions :
        inbox[i].type = "pairingComplete" /\ inbox[j].type = "pairingComplete" => i = j

Found(k) == conn.found[k] # NoAttr
Sought == proc \in Discoveries \/ Results

\* The attributes that the operations after this one look for.
Later == [DiscoverService |-> {"command", "status", "cccd"},
          DiscoverCommand |-> {"status", "cccd"},
          DiscoverStatus  |-> {"cccd"},
          DiscoverCccd    |-> {}]
Ahead(op) == \A k \in Later[op] : ~Found(k)

\* What is kept is of the camera linked, and no link comes up under a handle.
KeptInv ==
    /\ ResultsComplete
    /\ conn.handle = NoHandle =>
          /\ \A k \in Kinds : ~Found(k)
          /\ started => conn.operation \notin Discoveries
    /\ conn.handle # NoHandle =>
          /\ link.phase # "connecting"
          /\ Holds(conn.handle) =>
                \A k \in Kinds : Found(k) => conn.found[k] = <<link.camera, k>>

\* An operation in progress looks for what is sought, and found it only if
\* nothing is sought any more.
SeekOnce ==
    /\ OneResult /\ (proc \in Discoveries => ~Results)
    /\ Holds(conn.handle) => ResultsFrom(link.camera)
    /\ conn.operation \in Discoveries =>
          /\ Ahead(conn.operation)
          /\ proc \in Discoveries => proc = conn.operation
          /\ ResultsOf(Seeks[conn.operation])
          /\ Found(Seeks[conn.operation]) => ~Sought
    /\ at["ble"] = "request" =>
          /\ ~Sought
          /\ current \in Discoveries => Ahead(current) /\ ~Found(Seeks[current])
          /\ conn.operation \in Discoveries => conn.operation = current
    /\ at["ble"] = "completed" =>
          /\ conn.operation \notin Discoveries
          /\ current \in Discoveries => Ahead(current) /\ (Found(Seeks[current]) => ~Sought)

\* A camera that is being paired with is not asked for attributes yet.
Pairs == at["ble"] = "pair" \/ pairing # "none" \/ PairDone
PairFirst ==
    /\ PairedOnce
    /\ at["ble"] = "pair" => pairing = "none"
    /\ at["ble"] = "pair" \/ pairing # "none" => ~PairDone
    /\ Pairs =>
          /\ ~Sought /\ conn.operation \notin Discoveries
          /\ \A k \in Kinds : ~Found(k)
          /\ at["ble"] # "request" /\ (at["ble"] = "completed" => current \notin Discoveries)

FoundInv == KeptInv /\ (started /\ conn.handle # NoHandle => SeekOnce /\ PairFirst)

\* No more results wait than before, and no more completions of a pairing.
NothingFound ==
    /\ Results' => Results
    /\ OneResult => OneResult'
    /\ \A k \in Kinds : ResultsOf(k) => ResultsOf(k)'
    /\ ResultsFrom(link.camera) =>
          \A i \in Positions' : inbox'[i].type = "result" => inbox'[i].attr[1] = link.camera
    /\ ResultsComplete => ResultsComplete'
NothingPaired == (PairDone' => PairDone) /\ (PairedOnce => PairedOnce')

LEMMA FoundSame == inbox' = inbox => NothingFound /\ NothingPaired
  BY DEF NothingFound, NothingPaired, Results, OneResult, ResultsOf, ResultsFrom,
     ResultsComplete, PairDone, PairedOnce, Positions

LEMMA FoundTaken ==
    ASSUME inbox \in Seq(Event), inbox # <<>>, inbox' = Tail(inbox)
    PROVE  /\ NothingFound /\ NothingPaired
           /\ OneResult /\ Head(inbox).type = "result" => ~Results'
           /\ PairedOnce /\ Head(inbox).type = "pairingComplete" => ~PairDone'
           /\ Head(inbox).type = "result" =>
                 /\ Results
                 /\ \A k \in Kinds : ResultsOf(k) => Head(inbox).attr[2] = k
                 /\ ResultsFrom(link.camera) => Head(inbox).attr[1] = link.camera
           /\ Head(inbox).type = "pairingComplete" => PairDone
<1>1. Len(inbox) \in Nat /\ Len(inbox') = Len(inbox) - 1
  OBVIOUS
<1>2. /\ 1 \in Positions /\ Head(inbox) = inbox[1]
      /\ \A i \in Positions' :
            i + 1 \in Positions /\ inbox'[i] = inbox[i + 1] /\ i \in Nat /\ i # 0
  BY TakeShifts DEF Positions
<1>3. NothingPaired
  <2>1. PairDone' => PairDone
    BY <1>2 DEF PairDone
  <2>2. ASSUME PairedOnce, NEW i \in Positions', NEW j \in Positions',
               inbox'[i].type = "pairingComplete", inbox'[j].type = "pairingComplete"
        PROVE  i = j
    <3>1. i + 1 = j + 1
      BY <1>2, <2>2 DEF PairedOnce
    <3> QED
      BY <1>2, <2>2, <3>1
  <2>3. PairedOnce => PairedOnce'
    BY <2>2 DEF PairedOnce
  <2> QED
    BY <2>1, <2>3 DEF NothingPaired
<1>4. ResultsComplete => ResultsComplete'
  <2>1. SUFFICES ASSUME ResultsComplete, NEW i \in Positions', inbox'[i].type = "result"
                 PROVE  i + 1 \in Positions' /\ inbox'[i + 1].type = "gattComplete"
    BY DEF ResultsComplete
  <2>2. (i + 1) + 1 \in Positions /\ inbox[(i + 1) + 1].type = "gattComplete"
    BY <1>2, <2>1 DEF ResultsComplete
  <2>3. i + 1 \in Positions'
    BY <1>1, <1>2, <2>2 DEF Positions
  <2> QED
    BY <1>2, <2>2, <2>3
<1>5. NothingFound
  <2>1. Results' => Results
    BY <1>2 DEF Results
  <2>2. ASSUME OneResult, NEW i \in Positions', NEW j \in Positions',
               inbox'[i].type = "result", inbox'[j].type = "result"
        PROVE  i = j
    <3>1. i + 1 = j + 1
      BY <1>2, <2>2 DEF OneResult
    <3> QED
      BY <1>2, <2>2, <3>1
  <2>3. OneResult => OneResult'
    BY <2>2 DEF OneResult
  <2>4. \A k \in Kinds : ResultsOf(k) => ResultsOf(k)'
    BY <1>2 DEF ResultsOf
  <2>5. ResultsFrom(link.camera) =>
          \A i \in Positions' : inbox'[i].type = "result" => inbox'[i].attr[1] = link.camera
    BY <1>2 DEF ResultsFrom
  <2> QED
    BY <1>4, <2>1, <2>3, <2>4, <2>5 DEF NothingFound
<1>6. OneResult /\ Head(inbox).type = "result" => ~Results'
  <2>1. ASSUME OneResult, Head(inbox).type = "result", NEW i \in Positions',
               inbox'[i].type = "result"
        PROVE  FALSE
    <3>1. i + 1 = 1
      BY <1>2, <2>1 DEF OneResult
    <3> QED
      BY <1>2, <3>1
  <2> QED
    BY <2>1 DEF Results
<1>7. PairedOnce /\ Head(inbox).type = "pairingComplete" => ~PairDone'
  <2>1. ASSUME PairedOnce, Head(inbox).type = "pairingComplete", NEW i \in Positions',
               inbox'[i].type = "pairingComplete"
        PROVE  FALSE
    <3>1. i + 1 = 1
      BY <1>2, <2>1 DEF PairedOnce
    <3> QED
      BY <1>2, <3>1
  <2> QED
    BY <2>1 DEF PairDone
<1> QED
  BY <1>2, <1>3, <1>5, <1>6, <1>7 DEF Results, ResultsOf, ResultsFrom, PairDone

LEMMA FoundReported ==
    ASSUME inbox \in Seq(Event), NEW e \in Event, inbox' = Append(inbox, e),
           e.type # "result"
    PROVE  /\ NothingFound
           /\ PairDone' <=> PairDone \/ e.type = "pairingComplete"
           /\ PairedOnce /\ (e.type = "pairingComplete" => ~PairDone) => PairedOnce'
<1>1. /\ Len(inbox) \in Nat /\ Len(inbox') = Len(inbox) + 1
      /\ \A i \in 1..Len(inbox) : inbox'[i] = inbox[i]
      /\ inbox'[Len(inbox) + 1] = e
  OBVIOUS
<1>2. /\ \A i \in Positions : i \in Positions' /\ inbox'[i] = inbox[i]
      /\ \A i \in Positions' : i \in Positions \/ (i = Len(inbox) + 1 /\ inbox'[i] = e)
  BY <1>1 DEF Positions
<1>3. \A i \in Positions' : inbox'[i].type = "result" => i \in Positions
  BY <1>2
<1>4. NothingFound
  BY <1>2, <1>3 DEF NothingFound, Results, OneResult, ResultsOf, ResultsFrom, ResultsComplete
<1>5. PairDone' <=> PairDone \/ e.type = "pairingComplete"
  <2>1. Len(inbox) + 1 \in Positions'
    BY <1>1 DEF Positions
  <2> QED
    BY <1>1, <1>2, <2>1 DEF PairDone
<1>6. PairedOnce /\ (e.type = "pairingComplete" => ~PairDone) => PairedOnce'
  BY <1>2 DEF PairedOnce, PairDone
<1> QED
  BY <1>4, <1>5, <1>6

LEMMA ResultReported ==
    ASSUME inbox \in Seq(Event), NEW r \in Event, NEW g \in Event, inbox' = inbox \o <<r, g>>,
           r.type = "result", g.type = "gattComplete"
    PROVE  /\ ~Results =>
                 /\ OneResult'
                 /\ \A i \in Positions' : inbox'[i].type = "result" => inbox'[i] = r
           /\ ResultsComplete => ResultsComplete'
           /\ PairDone' <=> PairDone
           /\ PairedOnce => PairedOnce'
<1>1. /\ Len(inbox) \in Nat /\ Len(inbox') = Len(inbox) + 2
      /\ \A i \in 1..Len(inbox) : inbox'[i] = inbox[i]
      /\ inbox'[Len(inbox) + 1] = r /\ inbox'[Len(inbox) + 2] = g
  <2>1. <<r, g>> \in Seq(Event) /\ Len(<<r, g>>) = 2 /\ <<r, g>>[1] = r /\ <<r, g>>[2] = g
    OBVIOUS
  <2> QED
    BY <2>1
<1>2. /\ \A i \in Positions : i \in Positions' /\ inbox'[i] = inbox[i]
      /\ \A i \in Positions' : i \in Positions \/ i = Len(inbox) + 1 \/ i = Len(inbox) + 2
      /\ (Len(inbox) + 1) + 1 = Len(inbox) + 2 /\ Len(inbox) + 2 \in Positions'
  BY <1>1 DEF Positions
<1>3. ~Results => \A i \in Positions' : inbox'[i].type = "result" => i = Len(inbox) + 1
  BY <1>1, <1>2 DEF Results
<1>4. \A i \in Positions' : inbox'[i].type = "pairingComplete" => i \in Positions
  BY <1>1, <1>2
<1>5. PairDone' <=> PairDone
  BY <1>2, <1>4 DEF PairDone
<1>6. PairedOnce => PairedOnce'
  BY <1>2, <1>4 DEF PairedOnce
<1>7. ~Results => OneResult'
  BY <1>3 DEF OneResult
<1>8. ResultsComplete => ResultsComplete'
  BY <1>1, <1>2 DEF ResultsComplete
<1> QED
  BY <1>1, <1>3, <1>5, <1>6, <1>7, <1>8

\* Steps that find nothing and look for nothing new.
Neutral ==
    /\ started' => started
    /\ conn'.handle = conn.handle /\ conn'.found = conn.found
    /\ conn'.operation = conn.operation \/ conn'.operation \notin Discoveries
    /\ proc' = proc \/ proc' \notin Discoveries
    /\ pairing' # "none" => pairing # "none"
    /\ current' = current
    /\ at'["ble"] = at["ble"] \/ at'["ble"] \notin {"pair", "request", "completed"}
    /\ link'.phase = "connecting" => link.phase = "connecting"
    /\ link'.phase \in {"up", "closing"} =>
          /\ link.phase \in {"up", "closing"}
          /\ link'.camera = link.camera /\ link'.handle = link.handle

LEMMA FoundAside == ASSUME FoundInv, Neutral, NothingFound, NothingPaired PROVE FoundInv'
<1> USE DEF Neutral
<1>1. \A k \in Kinds : Found(k)' <=> Found(k)
  BY DEF Found
<1>2. Holds(conn.handle)' => Holds(conn.handle) /\ link'.camera = link.camera
  BY DEF Holds
<1>3. KeptInv'
  BY <1>1, <1>2 DEF FoundInv, KeptInv, NothingFound
<1>4. Sought' => Sought
  BY DEF Sought, NothingFound
<1>5. \A op \in Discoveries : Seeks[op] \in Kinds /\ Later[op] \subseteq Kinds
  BY DEF Discoveries, Seeks, Kinds, Later
<1>6. SeekOnce => SeekOnce'
  <2>1. SUFFICES ASSUME SeekOnce PROVE SeekOnce'
    OBVIOUS
  <2>2. \A op \in Discoveries : Ahead(op) => Ahead(op)'
    BY <1>1, <1>5 DEF Ahead
  <2>3. OneResult' /\ (proc' \in Discoveries => ~Results')
    BY <2>1 DEF SeekOnce, NothingFound
  <2>4. Holds(conn.handle)' => ResultsFrom(link.camera)'
    BY <1>2, <2>1 DEF SeekOnce, NothingFound, ResultsFrom
  <2>5. conn'.operation \in Discoveries =>
           /\ Ahead(conn.operation)'
           /\ proc' \in Discoveries => proc' = conn'.operation
           /\ ResultsOf(Seeks[conn.operation])'
           /\ Found(Seeks[conn.operation])' => ~Sought'
    <3>1. ASSUME conn'.operation \in Discoveries
          PROVE  /\ conn'.operation = conn.operation
                 /\ Seeks[conn.operation] \in Kinds
      BY <1>5, <3>1
    <3>2. ASSUME conn'.operation \in Discoveries
          PROVE  /\ Ahead(conn.operation)'
                 /\ proc' \in Discoveries => proc' = conn'.operation
      BY <2>1, <2>2, <3>1, <3>2 DEF SeekOnce, Ahead, Found
    <3>3. ASSUME conn'.operation \in Discoveries
          PROVE  ResultsOf(Seeks[conn.operation])'
      BY <2>1, <3>1, <3>3 DEF SeekOnce, NothingFound, ResultsOf
    <3>4. ASSUME conn'.operation \in Discoveries
          PROVE  Found(Seeks[conn.operation])' => ~Sought'
      BY <1>4, <2>1, <3>1, <3>4 DEF SeekOnce, Found
    <3> QED
      BY <3>2, <3>3, <3>4
  <2>6. at'["ble"] = "request" =>
           /\ ~Sought'
           /\ current' \in Discoveries => Ahead(current)' /\ ~Found(Seeks[current])'
           /\ conn'.operation \in Discoveries => conn'.operation = current'
    BY <1>4, <2>1 DEF SeekOnce, Ahead, Found
  <2>7. at'["ble"] = "completed" =>
           /\ conn'.operation \notin Discoveries
           /\ current' \in Discoveries =>
                Ahead(current)' /\ (Found(Seeks[current])' => ~Sought')
    BY <1>4, <2>1 DEF SeekOnce, Ahead, Found
  <2> QED
    BY <2>3, <2>4, <2>5, <2>6, <2>7 DEF SeekOnce
<1>7. PairFirst => PairFirst'
  BY <1>1, <1>4 DEF PairFirst, Pairs, NothingPaired
<1> QED
  BY <1>3, <1>6, <1>7 DEF FoundInv

LEMMA FoundNeutral ==
    ASSUME TypeInv, FoundInv, Neutral,
           \/ inbox' = inbox
           \/ inbox # <<>> /\ inbox' = Tail(inbox)
           \/ \E e \in Event : Report(e) /\ e.type \notin {"result", "pairingComplete"}
    PROVE  FoundInv'
<1>0. inbox \in Seq(Event)
  BY DEF TypeInv, TypeOK, RadioTypeOK
<1>1. CASE inbox' = inbox
  BY <1>1, FoundSame, FoundAside
<1>2. CASE inbox # <<>> /\ inbox' = Tail(inbox)
  BY <1>0, <1>2, FoundTaken, FoundAside
<1>3. ASSUME NEW e \in Event, Report(e), e.type \notin {"result", "pairingComplete"}
      PROVE  FoundInv'
  <2>1. inbox' = Append(inbox, e)
    BY <1>3 DEF Report
  <2>2. NothingFound /\ NothingPaired
    BY <1>0, <1>3, <2>1, FoundReported DEF NothingPaired
  <2> QED
    BY <2>2, FoundAside
<1> QED
  BY <1>1, <1>2, <1>3

\* No handle, nothing found.
LEMMA FoundWithout ==
    ASSUME FoundInv, ResultsComplete => ResultsComplete',
           conn'.handle = NoHandle, \A k \in Kinds : conn'.found[k] = NoAttr,
           started' => conn'.operation \notin Discoveries
    PROVE  FoundInv'
  BY DEF FoundInv, KeptInv, Found

LEMMA NoneWithout == \A k \in Kinds : NoConnection.found[k] = NoAttr
  BY DEF NoConnection
-----------------------------------------------------------------------------
(* The steps of the two threads.                                           *)

LEMMA FoundScan ==
    ASSUME TypeInv, FoundInv, NEW t \in {"app", "ble"}, StartScan(t) PROVE FoundInv'
<1> USE DEF StartScan, data, device, session, search, radio, peer, Step, Goto, Home
<1>1. CASE ScanAccepted(t) \/ ScanRefused(t)
  <2>1. conn' = NoConnection /\ inbox' = inbox
    BY <1>1 DEF ScanAccepted, ScanRefused, ResetConnection
  <2>2. conn'.operation = "None" /\ conn'.handle = NoHandle /\ "None" \notin Discoveries
    BY <2>1 DEF NoConnection, Discoveries, Seeks
  <2>3. ResultsComplete => ResultsComplete'
    BY <2>1 DEF ResultsComplete, Positions
  <2> QED
    BY <2>1, <2>2, <2>3, NoneWithout, FoundWithout
<1>2. CASE ScanDeclined(t) \/ ScanChecked(t) \/ ScanFlagged(t) \/ ScanShown(t)
  <2>1. Neutral /\ inbox' = inbox
    BY <1>2 DEF Neutral, ScanDeclined, ScanChecked, ScanFlagged, ScanShown, TypeInv, TypeOK,
       ControlTypeOK, AtOK
  <2> QED
    BY <2>1, FoundNeutral
<1> QED
  BY <1>1, <1>2

LEMMA FoundApp == ASSUME SearchInv, FoundInv, AppThread PROVE FoundInv'
<1> USE DEF SearchInv
<1>0. /\ at \in [{"app", "ble"} -> AppLabels \cup BleLabels]
      /\ conn \in Connection /\ "WriteButton" \notin Discoveries /\ "None" \notin Discoveries
  BY DEF TypeInv, TypeOK, DeviceTypeOK, ControlTypeOK, AtOK, Discoveries, Seeks
<1>1. CASE StartCall
  <2>1. CASE Start
    <3>1. conn' = NoConnection /\ inbox' = inbox
      BY <2>1 DEF Start, Step, SessionInv, Fresh
    <3>2. ResultsComplete => ResultsComplete'
      BY <3>1 DEF ResultsComplete, Positions
    <3>3. conn'.handle = NoHandle /\ conn'.operation = "None"
      BY <3>1 DEF NoConnection
    <3> QED
      BY <1>0, <3>1, <3>2, <3>3, NoneWithout, FoundWithout
  <2>2. CASE StopAdvertising
    <3>1. Neutral /\ inbox' = inbox
      BY <1>0, <2>2 DEF StopAdvertising, SetAdvertising, Neutral, data, device, session, peer,
         Step, Goto
    <3> QED
      BY <3>1, FoundNeutral
  <2> QED
    BY <1>1, <2>1, <2>2, FoundScan DEF StartCall
<1>2. CASE SendCall \/ Client
  <2> USE DEF Neutral, data, device, session, search, call, radio, peer, Step, Goto, Connection
  <2>1. CASE SendCall
    <3>1. CASE Arm \/ Claim \/ WriteRefused
      <4>1. /\ conn'.handle = conn.handle /\ conn'.found = conn.found
            /\ conn'.operation \in {conn.operation, "WriteButton", "None"}
            /\ UNCHANGED <<started, link, proc, pairing, current, inbox>>
            /\ at'["ble"] = at["ble"]
        BY <1>0, <3>1 DEF Arm, Claim, WriteRefused
      <4>2. Neutral /\ inbox' = inbox
        BY <1>0, <4>1
      <4> QED
        BY <4>2, FoundNeutral
    <3>2. CASE WriteAccepted
      BY <1>0, <3>2, FoundNeutral DEF WriteAccepted, BeginWrite
    <3>3. CASE Woken \/ SendReturns \/ SendTimeout
      BY <1>0, <3>3, FoundNeutral DEF Woken, SendReturns, SendTimeout
    <3> QED
      BY <2>1, <3>1, <3>2, <3>3 DEF SendCall
  <2>2. ASSUME NEW b \in Buttons, SendButton(b) \/ SendDeclined(b) PROVE FoundInv'
    BY <1>0, <2>2, FoundNeutral DEF SendButton, SendDeclined
  <2>3. CASE ReportError \/ Stop
    BY <1>0, <2>3, FoundNeutral DEF ReportError, Stop
  <2> QED
    BY <1>2, <2>1, <2>2, <2>3 DEF Client
<1>3. CASE StopCall
  <2> USE DEF Neutral, data, device, session, search, radio, peer, Step, Goto
  <2>1. CASE StopScan
    BY <1>0, <2>1, FoundNeutral DEF StopScan, EndDiscovery
  <2>2. CASE StopScanFlag \/ StopNoScan \/ StopLink \/ StopNoLink \/ AwaitDown \/ Unregister
    BY <1>0, <2>2, FoundNeutral
    DEF StopScanFlag, StopNoScan, StopLink, StopNoLink, AwaitDown, Unregister
  <2>3. CASE HangUp
    <3>1. link'.phase # link.phase => link.phase = "up" /\ link'.phase = "closing"
      BY <2>3 DEF HangUp, EndConnection, Linked, TypeInv, TypeOK, RadioTypeOK, Link
    <3>2. link'.camera = link.camera /\ link'.handle = link.handle
      BY <2>3 DEF HangUp, EndConnection, TypeInv, TypeOK, RadioTypeOK, Link
    <3>3. Neutral /\ inbox' = inbox
      BY <1>0, <2>3, <3>1, <3>2 DEF HangUp, EndConnection
    <3> QED
      BY <3>3, FoundNeutral
  <2>4. CASE Release
    <3>1. conn' = NoConnection /\ inbox' = inbox
      BY <2>4 DEF Release, ResetConnection
    <3>2. ResultsComplete => ResultsComplete'
      BY <3>1 DEF ResultsComplete, Positions
    <3>3. conn'.handle = NoHandle /\ conn'.operation = "None"
      BY <3>1 DEF NoConnection
    <3> QED
      BY <1>0, <3>1, <3>2, <3>3, NoneWithout, FoundWithout
  <2> QED
    BY <1>3, <2>1, <2>2, <2>3, <2>4 DEF StopCall
<1>4. CASE Exited
  <2>1. Neutral /\ inbox' = inbox
    BY <1>4 DEF Exited, vars, software, data, device, session, radio, peer, Neutral
  <2> QED
    BY <2>1, FoundNeutral
<1> QED
  BY <1>1, <1>2, <1>3, <1>4 DEF AppThread

LEMMA FoundBleNeutral ==
    ASSUME TypeInv, FoundInv,
           \/ Drop \/ HandleAdvertisingReport \/ TerminateAccepted \/ TerminateRefused
           \/ HandleGapFailure \/ HandleConnectionFailure \/ PairingRefused
           \/ HandleNumericComparison \/ HandlePairingFailure \/ RequestRefused
           \/ HandleWriteComplete \/ HandleGattFailure \/ DiscoveredNothing
           \/ NotificationsEnabled \/ HandleNotification
    PROVE  FoundInv'
<1> USE DEF Neutral, Connection, software, data, device, session, search, radio, peer, Step,
        Goto
<1>0. /\ at \in [{"app", "ble"} -> AppLabels \cup BleLabels]
      /\ conn \in Connection /\ "None" \notin Discoveries
  BY DEF TypeInv, TypeOK, DeviceTypeOK, ControlTypeOK, AtOK, Discoveries, Seeks
<1> SUFFICES /\ Neutral
             /\ inbox' = inbox \/ (inbox # <<>> /\ inbox' = Tail(inbox))
  BY FoundNeutral
<1>1. CASE Drop
  BY <1>1 DEF Drop
<1>2. CASE HandleAdvertisingReport
  BY <1>0, <1>2 DEF HandleAdvertisingReport, Take
<1>3. CASE HandleGapFailure
  BY <1>0, <1>3 DEF HandleGapFailure, Take
<1>4. CASE HandleConnectionFailure
  BY <1>0, <1>4 DEF HandleConnectionFailure, Take
<1>5. CASE TerminateAccepted \/ TerminateRefused
  BY <1>0, <1>5 DEF TerminateAccepted, EndDiscovery, TerminateRefused
<1>6. CASE PairingRefused \/ DiscoveredNothing \/ NotificationsEnabled
  BY <1>0, <1>6 DEF PairingRefused, DiscoveredNothing, NotificationsEnabled
<1>7. CASE RequestRefused
  BY <1>0, <1>7 DEF RequestRefused
<1>8. CASE HandleNumericComparison
  BY <1>0, <1>8 DEF HandleNumericComparison, ConfirmPairing, Take
<1>9. CASE HandlePairingFailure
  BY <1>0, <1>9 DEF HandlePairingFailure, Take
<1>10. CASE HandleWriteComplete
  BY <1>0, <1>10 DEF HandleWriteComplete, Take
<1>11. CASE HandleGattFailure
  BY <1>0, <1>11 DEF HandleGattFailure, Take
<1>12. CASE HandleNotification
  BY <1>0, <1>12 DEF HandleNotification, Take
<1> QED
  BY <1>1, <1>2, <1>3, <1>4, <1>5, <1>6, <1>7, <1>8, <1>9, <1>10, <1>11, <1>12

\* The handlers that forget the connection, or have none.
LEMMA FoundBleWithout ==
    ASSUME SearchInv, FoundInv, HandleDisconnected \/ HandleGapComplete
    PROVE  FoundInv'
<1> USE DEF SearchInv
<1>1. inbox \in Seq(Event) /\ inbox # <<>> /\ inbox' = Tail(inbox) /\ started
  BY Taken DEF HandleDisconnected, HandleGapComplete
<1>2. ResultsComplete => ResultsComplete'
  BY <1>1, FoundTaken DEF NothingFound
<1>3. CASE HandleDisconnected
  <2>1. conn' = NoConnection
    BY <1>3 DEF HandleDisconnected, ResetConnection
  <2>2. conn'.handle = NoHandle /\ conn'.operation \notin Discoveries
    BY <2>1 DEF NoConnection, Discoveries, Seeks
  <2> QED
    BY <1>2, <2>1, <2>2, NoneWithout, FoundWithout
<1>4. CASE HandleGapComplete
  <2>1. conn' = conn /\ started' = started
    BY <1>4 DEF HandleGapComplete, software, data, device, session
  <2>2. Reported
    BY <1>1, <1>4, TakeLeaves DEF HandleGapComplete, Take
  <2>3. conn.handle = NoHandle
    BY <2>2 DEF LinkageInv, SeekInv, Seeking, Unlinked
  <2>4. (\A k \in Kinds : conn.found[k] = NoAttr) /\ conn.operation \notin Discoveries
    BY <1>1, <2>3 DEF FoundInv, KeptInv, Found
  <2> QED
    BY <1>2, <2>1, <2>3, <2>4, FoundWithout
<1> QED
  BY <1>3, <1>4

\* With no handle nothing was asked for, so no result waits.
LEMMA NothingAsked ==
    ASSUME SearchInv, FoundInv, started, conn.handle = NoHandle
    PROVE  /\ ~Sought /\ pairing = "none" /\ ~PairDone
           /\ \A k \in Kinds : ~Found(k)
           /\ conn.operation \notin Discoveries
<1>1. Silent
  BY DEF SearchInv, LinkageInv, EpochInv, Unaware
<1>2. ~Results
  BY <1>1 DEF FoundInv, KeptInv, ResultsComplete, Results, Silent, Completion
<1>3. ~PairDone
  BY <1>1 DEF PairDone, Silent, Completion
<1> QED
  BY <1>1, <1>2, <1>3 DEF Silent, Idle, Sought, FoundInv, KeptInv, Discoveries, Seeks

LEMMA FoundConnected ==
    ASSUME SearchInv, FoundInv, HandleConnectedPairing \/ HandleConnected
    PROVE  FoundInv'
<1> USE DEF SearchInv
<1>0. Take("connected") /\ Head(inbox).ok
  BY DEF HandleConnectedPairing, HandleConnected
<1>1. /\ inbox \in Seq(Event) /\ inbox # <<>> /\ inbox' = Tail(inbox) /\ started
      /\ at \in [{"app", "ble"} -> AppLabels \cup BleLabels] /\ conn \in Connection
      /\ Head(inbox).type = "connected"
  BY <1>0, Taken
<1>2. conn.handle = NoHandle
  BY <1>1, FirstEvent DEF LinkageInv
<1>3. /\ UNCHANGED <<link, proc, pairing>> /\ conn'.found = conn.found
      /\ conn'.handle = Head(inbox).handle
  BY <1>1 DEF HandleConnectedPairing, HandleConnected, Connection, radio, peer
<1>4. conn'.handle # NoHandle /\ Aware'
  BY <1>0, <1>1, <1>3, ConnectionTaken DEF LinkageInv
<1>5. link'.phase # "connecting"
  BY <1>4 DEF Aware, Holds, Gone
<1>6. /\ ~Sought /\ pairing = "none" /\ ~PairDone /\ \A k \in Kinds : ~Found(k)
      /\ conn.operation \notin Discoveries
  BY <1>1, <1>2, NothingAsked
<1>7. NothingFound /\ NothingPaired
  BY <1>1, FoundTaken
<1>8. /\ ~Sought' /\ ~Results' /\ pairing' = "none" /\ ~PairDone' /\ ResultsComplete'
      /\ \A k \in Kinds : ~Found(k)'
  BY <1>3, <1>6, <1>7 DEF Sought, NothingFound, NothingPaired, Found, FoundInv, KeptInv
<1>9. KeptInv'
  BY <1>4, <1>5, <1>8 DEF KeptInv
<1>10. OneResult' /\ PairedOnce' /\ ResultsFrom(link.camera)' /\ \A k \in Kinds : ResultsOf(k)'
  BY <1>8 DEF OneResult, Results, PairedOnce, PairDone, ResultsFrom, ResultsOf
<1>11. \A op \in Discoveries : Seeks[op] \in Kinds /\ Later[op] \subseteq Kinds
  BY DEF Discoveries, Seeks, Kinds, Later
<1>12. \A op \in Discoveries : Ahead(op)'
  BY <1>8, <1>11 DEF Ahead
<1>13. CASE HandleConnectedPairing
  <2>1. at'["ble"] = "pair" /\ conn'.operation = conn.operation
    BY <1>1, <1>13 DEF HandleConnectedPairing, Goto, Connection
  <2>2. SeekOnce' /\ PairFirst'
    BY <1>6, <1>8, <1>10, <2>1 DEF SeekOnce, PairFirst, Pairs, Sought
  <2> QED
    BY <1>9, <2>2 DEF FoundInv
<1>14. CASE HandleConnected
  <2>1. /\ at'["ble"] = "request" /\ conn'.operation = "DiscoverService"
        /\ current' = "DiscoverService" /\ "DiscoverService" \in Discoveries
    BY <1>1, <1>14 DEF HandleConnected, Goto, Connection, Discoveries, Seeks
  <2>2. Ahead("DiscoverService")' /\ ~Found(Seeks["DiscoverService"])'
        /\ ResultsOf(Seeks["DiscoverService"])'
    BY <1>8, <1>10, <1>11, <1>12, <2>1
  <2>3. SeekOnce'
    BY <1>8, <1>10, <2>1, <2>2 DEF SeekOnce, Sought, Ahead, Found, ResultsOf
  <2>4. PairFirst'
    BY <1>8, <1>10, <2>1 DEF PairFirst, Pairs
  <2> QED
    BY <1>9, <2>3, <2>4 DEF FoundInv
<1> QED
  BY <1>13, <1>14

LEMMA SeeksKinds == \A op \in Discoveries : Seeks[op] \in Kinds /\ Later[op] \subseteq Kinds
  BY DEF Discoveries, Seeks, Kinds, Later

\* What is kept stays kept while neither link nor connection changes.
LEMMA KeptSame ==
    ASSUME KeptInv, ResultsComplete', UNCHANGED <<link, started>>,
           conn'.handle = conn.handle, conn'.found = conn.found,
           conn'.operation = conn.operation \/ conn.handle # NoHandle
    PROVE  KeptInv'
  BY DEF KeptInv, Found, Holds

LEMMA FoundPairing ==
    ASSUME SearchInv, FoundInv, PairingRequested PROVE FoundInv'
<1> USE DEF SearchInv
<1>1. /\ at["ble"] = "pair" /\ at'["ble"] = "idle"
      /\ UNCHANGED <<link, started, conn, proc, inbox, current>>
  BY DEF PairingRequested, Step, Goto, BeginPairing, data, device, session, TypeInv, TypeOK,
     ControlTypeOK, AtOK
<1>2. NothingFound /\ NothingPaired
  BY <1>1, FoundSame
<1>3. KeptInv'
  BY <1>1, <1>2, KeptSame DEF FoundInv, KeptInv, NothingFound
<1>4. ASSUME started, conn.handle # NoHandle PROVE SeekOnce' /\ PairFirst'
  <2>1. SeekOnce /\ PairFirst
    BY <1>4 DEF FoundInv
  <2>2. Sought' => Sought
    BY <1>1, <1>2 DEF Sought, NothingFound
  <2>3. SeekOnce'
    BY <1>1, <2>1 DEF SeekOnce, OneResult, Results, ResultsFrom, ResultsOf, Holds, Ahead, Found,
       Sought, Positions
  <2>4. PairFirst'
    BY <1>1, <1>2, <2>1, <2>2 DEF PairFirst, Pairs, NothingPaired, Found
  <2> QED
    BY <2>3, <2>4
<1> QED
  BY <1>1, <1>3, <1>4 DEF FoundInv

LEMMA FoundPaired ==
    ASSUME SearchInv, FoundInv, HandlePairingComplete PROVE FoundInv'
<1> USE DEF SearchInv
<1>1. /\ Take("pairingComplete")
      /\ inbox \in Seq(Event) /\ inbox # <<>> /\ inbox' = Tail(inbox) /\ started
      /\ Head(inbox).type = "pairingComplete"
      /\ at \in [{"app", "ble"} -> AppLabels \cup BleLabels] /\ conn \in Connection
      /\ conn.handle # NoHandle
  BY Taken, EventOfLink DEF HandlePairingComplete
<1>2. /\ UNCHANGED <<link, proc, pairing, started>>
      /\ conn'.found = conn.found /\ conn'.handle = conn.handle
      /\ conn'.operation = "DiscoverService" /\ current' = "DiscoverService"
      /\ at'["ble"] = "request" /\ "DiscoverService" \in Discoveries
  BY <1>1 DEF HandlePairingComplete, Connection, Goto, radio, peer, session, Discoveries, Seeks
<1>3. NothingFound /\ NothingPaired /\ PairDone /\ (PairedOnce => ~PairDone')
  BY <1>1, FoundTaken
<1>4. SeekOnce /\ PairFirst /\ KeptInv
  BY <1>1 DEF FoundInv
<1>5. ~Sought /\ pairing = "none" /\ PairedOnce /\ \A k \in Kinds : ~Found(k)
  BY <1>3, <1>4 DEF PairFirst, Pairs
<1>6. /\ ~Sought' /\ ~Results' /\ ~PairDone' /\ PairedOnce' /\ pairing' = "none"
      /\ ResultsComplete'
  BY <1>2, <1>3, <1>4, <1>5 DEF Sought, NothingFound, NothingPaired, KeptInv
<1>7. \A k \in Kinds : ~Found(k)'
  BY <1>2, <1>5 DEF Found
<1>8. KeptInv'
  BY <1>1, <1>2, <1>4, <1>6, KeptSame
<1>9. /\ Ahead("DiscoverService")' /\ ~Found(Seeks["DiscoverService"])'
      /\ OneResult' /\ ResultsFrom(link.camera)' /\ ResultsOf(Seeks["DiscoverService"])'
  BY <1>2, <1>6, <1>7, SeeksKinds DEF Ahead, OneResult, ResultsFrom, ResultsOf, Results
<1>10. SeekOnce'
  BY <1>2, <1>6, <1>9 DEF SeekOnce, Sought, Ahead, Found, ResultsOf
<1>11. PairFirst'
  BY <1>2, <1>6 DEF PairFirst, Pairs
<1> QED
  BY <1>8, <1>10, <1>11 DEF FoundInv

LEMMA FoundRequested ==
    ASSUME SearchInv, FoundInv, RequestAccepted PROVE FoundInv'
<1> USE DEF SearchInv
<1>1. /\ at["ble"] = "request" /\ at'["ble"] = "idle" /\ proc' = current
      /\ UNCHANGED <<link, started, conn, pairing, inbox, current>>
  BY DEF RequestAccepted, Step, Goto, BeginGatt, device, session, TypeInv, TypeOK,
     ControlTypeOK, AtOK
<1>2. NothingFound /\ NothingPaired
  BY <1>1, FoundSame
<1>3. KeptInv'
  BY <1>1, <1>2, KeptSame DEF FoundInv, KeptInv, NothingFound
<1>4. ASSUME started, conn.handle # NoHandle PROVE SeekOnce' /\ PairFirst'
  <2>1. SeekOnce /\ PairFirst
    BY <1>4 DEF FoundInv
  <2>2. ~Results /\ ~Results' /\ ~Pairs /\ ~Pairs'
    BY <1>1, <1>2, <2>1 DEF SeekOnce, Sought, NothingFound, NothingPaired, PairFirst, Pairs
  <2>3. PairFirst'
    BY <1>1, <1>2, <2>1, <2>2 DEF PairFirst, Pairs, NothingPaired
  <2>4. /\ OneResult' /\ ResultsFrom(link.camera)'
        /\ \A k \in Kinds : ResultsOf(k)'
    BY <2>2 DEF OneResult, ResultsFrom, ResultsOf, Results
  <2>5. conn.operation \in Discoveries =>
           /\ conn.operation = current /\ Ahead(current) /\ ~Found(Seeks[current])
           /\ ResultsOf(Seeks[conn.operation])'
    BY <1>1, <2>1, <2>4, SeeksKinds DEF SeekOnce
  <2>6. SeekOnce'
    BY <1>1, <2>2, <2>4, <2>5 DEF SeekOnce, Ahead, Found, ResultsOf
  <2> QED
    BY <2>3, <2>6
<1> QED
  BY <1>1, <1>3, <1>4 DEF FoundInv

LEMMA FoundResult ==
    ASSUME SearchInv, FoundInv, HandleResult PROVE FoundInv'
<1> USE DEF SearchInv
<1> DEFINE op == conn.operation
           attr == Head(inbox).attr
<1>1. /\ Take("result")
      /\ inbox \in Seq(Event) /\ inbox # <<>> /\ inbox' = Tail(inbox) /\ started
      /\ Head(inbox).type = "result" /\ at["ble"] = "idle" /\ conn \in Connection
      /\ conn.handle # NoHandle
  BY Taken, EventOfLink DEF HandleResult
<1>2. UNCHANGED <<link, proc, pairing, started, at, current>>
  BY DEF HandleResult, radio, peer, session
<1>3. /\ conn'.handle = conn.handle /\ conn'.operation = op
      /\ \/ conn'.found = conn.found
         \/ op \in Discoveries /\ conn'.found = [conn.found EXCEPT ![Seeks[op]] = attr]
  BY <1>1 DEF HandleResult, Connection
<1>4. attr \in Attrs
  <2>1. Head(inbox) \in Event
    BY <1>1
  <2> QED
    BY <1>1, <2>1, EventElim
<1>5. /\ NothingFound /\ NothingPaired /\ Results /\ (OneResult => ~Results')
      /\ \A k \in Kinds : ResultsOf(k) => attr[2] = k
      /\ ResultsFrom(link.camera) => attr[1] = link.camera
  BY <1>1, FoundTaken
<1>6. SeekOnce /\ PairFirst /\ KeptInv
  BY <1>1 DEF FoundInv
<1>7. ~Results' /\ ~Sought' /\ OneResult' /\ ~Pairs /\ ~Pairs' /\ ResultsComplete'
  BY <1>2, <1>5, <1>6
  DEF SeekOnce, Sought, NothingFound, NothingPaired, PairFirst, Pairs, KeptInv
<1>8. Holds(conn.handle) /\ op \in Discoveries => attr = <<link.camera, Seeks[op]>>
  BY <1>4, <1>5, <1>6, SeeksKinds DEF SeekOnce, Attrs
<1>9. \A k \in Kinds : (op \in Discoveries => k # Seeks[op]) => conn'.found[k] = conn.found[k]
  BY <1>1, <1>3 DEF Connection
<1>10. KeptInv'
  <2>1. ASSUME Holds(conn.handle), NEW k \in Kinds, Found(k)'
        PROVE  conn'.found[k] = <<link.camera, k>>
    <3>1. CASE conn'.found[k] = conn.found[k]
      BY <1>1, <1>6, <2>1, <3>1 DEF KeptInv, Found
    <3>2. CASE conn'.found[k] # conn.found[k]
      <4>1. op \in Discoveries /\ k = Seeks[op] /\ conn'.found[k] = attr
        BY <1>1, <1>3, <1>9, <3>2 DEF Connection
      <4> QED
        BY <1>8, <2>1, <4>1
    <3> QED
      BY <3>1, <3>2
  <2> QED
    BY <1>1, <1>2, <1>3, <1>6, <1>7, <2>1 DEF KeptInv, Holds
<1>11. Seeks[op] \notin Later[op] \/ op \notin Discoveries
  BY DEF Discoveries, Seeks, Later
<1>12. SeekOnce'
  <2>1. /\ ResultsFrom(link.camera)' /\ \A k \in Kinds : ResultsOf(k)'
    BY <1>7 DEF ResultsFrom, ResultsOf, Results
  <2>2. op \in Discoveries => Ahead(conn.operation)'
    BY <1>3, <1>6, <1>9, <1>11, SeeksKinds DEF SeekOnce, Ahead, Found
  <2>3. op \in Discoveries => ResultsOf(Seeks[conn.operation])'
    BY <1>3, <2>1, SeeksKinds DEF ResultsOf
  <2>4. proc' \notin Discoveries
    BY <1>7 DEF Sought
  <2> QED
    BY <1>1, <1>2, <1>3, <1>7, <2>1, <2>2, <2>3, <2>4 DEF SeekOnce
<1>13. PairFirst'
  BY <1>1, <1>2, <1>5, <1>6, <1>7 DEF PairFirst, Pairs, NothingPaired
<1> QED
  BY <1>10, <1>12, <1>13 DEF FoundInv

LEMMA FoundCompleted ==
    ASSUME SearchInv, FoundInv, HandleGattComplete PROVE FoundInv'
<1> USE DEF SearchInv
<1>1. /\ Take("gattComplete")
      /\ inbox \in Seq(Event) /\ inbox # <<>> /\ inbox' = Tail(inbox) /\ started
      /\ at \in [{"app", "ble"} -> AppLabels \cup BleLabels] /\ conn \in Connection
      /\ conn.handle # NoHandle
  BY Taken, EventOfLink DEF HandleGattComplete
<1>2. /\ UNCHANGED <<link, proc, pairing, started>>
      /\ conn'.found = conn.found /\ conn'.handle = conn.handle
      /\ conn'.operation = "None" /\ "None" \notin Discoveries
      /\ current' = conn.operation /\ at'["ble"] = "completed"
  BY <1>1 DEF HandleGattComplete, Connection, Goto, radio, peer, session, Discoveries, Seeks
<1>3. NothingFound /\ NothingPaired
  BY <1>1, FoundTaken
<1>4. SeekOnce /\ PairFirst /\ KeptInv
  BY <1>1 DEF FoundInv
<1>5. KeptInv'
  BY <1>1, <1>2, <1>3, <1>4, KeptSame DEF KeptInv, NothingFound
<1>6. Sought' => Sought
  BY <1>2, <1>3 DEF Sought, NothingFound
<1>7. \A k \in Kinds : Found(k)' <=> Found(k)
  BY <1>2 DEF Found
<1>8. OneResult' /\ (proc' \in Discoveries => ~Results')
  BY <1>2, <1>3, <1>4 DEF SeekOnce, NothingFound
<1>9. Holds(conn.handle)' => ResultsFrom(link.camera)'
  BY <1>2, <1>3, <1>4 DEF SeekOnce, NothingFound, ResultsFrom, Holds
<1>10. current' \in Discoveries => Ahead(current)' /\ (Found(Seeks[current])' => ~Sought')
  BY <1>2, <1>4, <1>6 DEF SeekOnce, Ahead, Found
<1>11. SeekOnce'
  BY <1>2, <1>8, <1>9, <1>10 DEF SeekOnce
<1>12. PairFirst'
  BY <1>2, <1>3, <1>4, <1>6, <1>7 DEF PairFirst, Pairs, NothingPaired
<1> QED
  BY <1>5, <1>11, <1>12 DEF FoundInv

LEMMA FoundNext ==
    ASSUME SearchInv, FoundInv, DiscoveredNext PROVE FoundInv'
<1> USE DEF SearchInv
<1>1. /\ at["ble"] = "completed" /\ at'["ble"] = "request"
      /\ UNCHANGED <<link, started, proc, pairing, inbox>>
      /\ current \in Discoveries /\ Found(Seeks[current])
      /\ conn'.found = conn.found /\ conn'.handle = conn.handle
      /\ conn'.operation = current' /\ current' = Following[current]
  BY DEF DiscoveredNext, Step, Goto, session, radio, peer, TypeInv, TypeOK, Found,
     ControlTypeOK, AtOK, DeviceTypeOK, Connection
<1>2. NothingFound /\ NothingPaired
  BY <1>1, FoundSame
<1>3. conn.handle # NoHandle
  BY <1>1, SeeksKinds DEF FoundInv, KeptInv
<1>4. KeptInv'
  BY <1>1, <1>2, <1>3, KeptSame DEF FoundInv, KeptInv, NothingFound
<1>5. ASSUME started PROVE SeekOnce' /\ PairFirst'
  <2>1. SeekOnce /\ PairFirst
    BY <1>3, <1>5 DEF FoundInv
  <2>2. ~Sought /\ ~Sought' /\ ~Results' /\ ~Pairs /\ ~Pairs' /\ Ahead(current)
    BY <1>1, <1>2, <2>1
    DEF SeekOnce, Sought, NothingFound, NothingPaired, PairFirst, Pairs
  <2>3. PairFirst'
    BY <1>1, <1>2, <2>1, <2>2 DEF PairFirst, Pairs, NothingPaired
  <2>4. /\ OneResult' /\ ResultsFrom(link.camera)'
        /\ \A k \in Kinds : ResultsOf(k)'
    BY <2>2 DEF OneResult, ResultsFrom, ResultsOf, Results
  <2>5. current' \in Discoveries =>
           /\ Seeks[current'] \in Later[current]
           /\ Later[current'] \subseteq Later[current]
    BY <1>1 DEF Discoveries, Seeks, Following, Later
  <2>6. current' \in Discoveries => Ahead(current)' /\ ~Found(Seeks[current])'
    BY <1>1, <2>2, <2>5 DEF Ahead, Found
  <2>7. current' \in Discoveries => ResultsOf(Seeks[conn.operation])'
    BY <1>1, <2>4, SeeksKinds DEF ResultsOf
  <2>8. SeekOnce'
    BY <1>1, <2>2, <2>4, <2>6, <2>7 DEF SeekOnce, Ahead, Found, Sought
  <2> QED
    BY <2>3, <2>8
<1> QED
  BY <1>1, <1>4, <1>5 DEF FoundInv

LEMMA FoundBle == ASSUME SearchInv, FoundInv, BleThread PROVE FoundInv'
  BY FoundScan, FoundBleNeutral, FoundBleWithout, FoundConnected, FoundPairing, FoundPaired,
     FoundRequested, FoundResult, FoundCompleted, FoundNext DEF BleThread, SearchInv
-----------------------------------------------------------------------------
(* The radio and the camera.                                               *)

LEMMA FoundTraffic ==
    ASSUME SearchInv, FoundInv, UNCHANGED software,
           \/ \E c \in Cameras, p \in BOOLEAN : Advertise(c, p)
           \/ DiscoveryTimeout \/ \E ok \in BOOLEAN : DiscoveryEnds(ok)
           \/ ConnectFails \/ PairAsks \/ LinkDown \/ DiscoveryFindsNothing
           \/ EnablingSucceeds \/ WriteSucceeds \/ GattFails
           \/ \E n \in Notices : Notify(n)
    PROVE  FoundInv'
<1> USE EventIntro
    DEF SearchInv, Neutral, software, data, device, session, peer, air, camera, Discoveries, Seeks
<1>0. TypeInv /\ (link.phase = "up" => link.handle \in Handles /\ link.camera \in Cameras)
  BY DEF TypeInv, LinkInv
<1> SUFFICES Neutral /\ \E e \in Event : Report(e) /\ e.type \notin {"result", "pairingComplete"}
  BY FoundNeutral
<1>1. ASSUME NEW c \in Cameras, NEW p \in BOOLEAN, Advertise(c, p)
      PROVE  Neutral /\ \E e \in Event : Report(e) /\ e.type \notin {"result", "pairingComplete"}
  BY <1>1 DEF Advertise, Advertisement
<1>2. CASE DiscoveryTimeout
  BY <1>2 DEF DiscoveryTimeout, ProcComplete
<1>3. ASSUME NEW ok \in BOOLEAN, DiscoveryEnds(ok)
      PROVE  Neutral /\ \E e \in Event : Report(e) /\ e.type \notin {"result", "pairingComplete"}
  BY <1>3 DEF DiscoveryEnds, ProcComplete
<1>4. CASE ConnectFails
  BY <1>4 DEF ConnectFails, Connected, NoLink
<1>5. CASE PairAsks
  BY <1>0, <1>5 DEF PairAsks, NumericComparison
<1>6. CASE LinkDown
  <2>1. link.handle \in Handles
    BY <1>0, <1>6 DEF LinkDown, TypeInv, LinkInv
  <2> QED
    BY <1>6, <2>1 DEF LinkDown, Disconnected, NoLink
<1>7. CASE DiscoveryFindsNothing
  BY <1>0, <1>7 DEF DiscoveryFindsNothing, GattComplete
<1>8. CASE EnablingSucceeds
  BY <1>0, <1>8 DEF EnablingSucceeds, GattComplete
<1>9. CASE WriteSucceeds
  BY <1>0, <1>9 DEF WriteSucceeds, GattComplete
<1>10. CASE GattFails
  BY <1>0, <1>10 DEF GattFails, GattComplete
<1>11. ASSUME NEW n \in Notices, Notify(n)
       PROVE  Neutral /\ \E e \in Event : Report(e) /\ e.type \notin {"result", "pairingComplete"}
  <2>1. <<link.camera, "status">> \in Attrs
    BY <1>0, <1>11 DEF Notify, Attrs, Kinds
  <2> QED
    BY <1>0, <1>11, <2>1 DEF Notify, Notification
<1> QED
  BY <1>1, <1>2, <1>3, <1>4, <1>5, <1>6, <1>7, <1>8, <1>9, <1>10, <1>11

LEMMA FoundLink ==
    ASSUME SearchInv, FoundInv, UNCHANGED software, NEW h \in Handles, LinkUp(h)
    PROVE  FoundInv'
<1>1. inbox \in Seq(Event) /\ link.phase = "connecting" /\ UNCHANGED <<conn, started>>
  BY DEF SearchInv, TypeInv, TypeOK, RadioTypeOK, LinkUp, software, data, device, session
<1>2. conn.handle = NoHandle
  BY <1>1 DEF FoundInv, KeptInv
<1>3. Connected(TRUE, h) \in Event /\ inbox' = Append(inbox, Connected(TRUE, h))
      /\ Connected(TRUE, h).type = "connected"
  BY EventIntro DEF LinkUp, Report, Connected
<1>4. ResultsComplete => ResultsComplete'
  BY <1>1, <1>3, FoundReported DEF NothingFound
<1> QED
  BY <1>1, <1>2, <1>4, FoundWithout DEF FoundInv, KeptInv, Found

LEMMA FoundPairFinishes ==
    ASSUME SearchInv, FoundInv, UNCHANGED software, NEW ok \in BOOLEAN, PairFinishes(ok)
    PROVE  FoundInv'
<1> DEFINE e == PairingComplete(link.handle, ok)
<1>1. /\ inbox \in Seq(Event) /\ link.phase = "up" /\ link.handle \in Handles
      /\ UNCHANGED <<conn, started, link, proc, at, current>>
      /\ pairing # "none" /\ pairing' = "none" /\ Report(e)
  BY DEF SearchInv, TypeInv, TypeOK, RadioTypeOK, LinkInv, PairFinishes, software, data,
     device, session
<1>2. e \in Event /\ e.type = "pairingComplete"
  BY <1>1, EventIntro DEF PairingComplete
<1>3. inbox' = Append(inbox, e)
  BY <1>1 DEF Report
<1> HIDE DEF e
<1>4. NothingFound /\ PairDone' /\ (PairedOnce /\ ~PairDone => PairedOnce')
  BY <1>1, <1>2, <1>3, FoundReported
<1>5. KeptInv'
  BY <1>1, <1>4, KeptSame DEF FoundInv, KeptInv, NothingFound
<1>6. ASSUME started, conn.handle # NoHandle PROVE SeekOnce' /\ PairFirst'
  <2>1. SeekOnce /\ PairFirst /\ Pairs /\ ~PairDone /\ at["ble"] # "pair"
    BY <1>1, <1>6 DEF FoundInv, PairFirst, Pairs
  <2>2. /\ ~Sought /\ ~Sought' /\ ~Results' /\ conn.operation \notin Discoveries
        /\ at["ble"] # "request" /\ (at["ble"] = "completed" => current \notin Discoveries)
        /\ \A k \in Kinds : ~Found(k)
    BY <1>1, <1>4, <2>1 DEF Sought, NothingFound, PairFirst
  <2>3. OneResult' /\ ResultsFrom(link.camera)'
    BY <2>2 DEF OneResult, ResultsFrom, Results
  <2>4. SeekOnce'
    BY <1>1, <2>2, <2>3 DEF SeekOnce
  <2>5. PairFirst'
    BY <1>1, <1>4, <2>1, <2>2 DEF PairFirst, Pairs, Found
  <2> QED
    BY <2>4, <2>5
<1> QED
  BY <1>1, <1>5, <1>6 DEF FoundInv

LEMMA FoundDiscovered ==
    ASSUME SearchInv, FoundInv, UNCHANGED software, DiscoverySucceeds PROVE FoundInv'
<1> DEFINE r == Result(link.handle, <<link.camera, Seeks[proc]>>)
           g == GattComplete(link.handle, TRUE)
<1>1. /\ inbox \in Seq(Event) /\ link.phase = "up" /\ link.handle \in Handles
      /\ link.camera \in Cameras
      /\ UNCHANGED <<conn, started, link, pairing, at, current>>
      /\ proc \in Discoveries /\ proc' \notin Discoveries /\ inbox' = inbox \o <<r, g>>
  BY DEF SearchInv, TypeInv, TypeOK, RadioTypeOK, LinkInv, DiscoverySucceeds, software, data,
     device, session, Discoveries, Seeks
<1>2. /\ r \in Event /\ g \in Event /\ r.type = "result" /\ g.type = "gattComplete"
      /\ r.attr[1] = link.camera /\ r.attr[2] = Seeks[proc]
  <2>1. <<link.camera, Seeks[proc]>> \in Attrs
    BY <1>1, SeeksKinds DEF Attrs
  <2> QED
    BY <1>1, <2>1, EventIntro DEF Result, GattComplete
<1> HIDE DEF r, g
<1>3. /\ ~Results =>
           /\ OneResult'
           /\ \A i \in Positions' : inbox'[i].type = "result" => inbox'[i] = r
      /\ ResultsComplete => ResultsComplete'
      /\ PairDone' <=> PairDone
      /\ PairedOnce => PairedOnce'
  BY <1>1, <1>2, ResultReported
<1>4. KeptInv'
  BY <1>1, <1>3, KeptSame DEF FoundInv, KeptInv
<1>5. ASSUME started, conn.handle # NoHandle PROVE SeekOnce' /\ PairFirst'
  <2>1. SeekOnce /\ PairFirst /\ Sought /\ ~Results
    BY <1>1, <1>5 DEF FoundInv, SeekOnce, Sought
  <2>2. /\ ~Pairs /\ at["ble"] # "request"
        /\ conn.operation \in Discoveries =>
              conn.operation = proc /\ Ahead(conn.operation) /\ ~Found(Seeks[conn.operation])
        /\ at["ble"] = "completed" =>
              /\ conn.operation \notin Discoveries
              /\ current \in Discoveries => Ahead(current) /\ ~Found(Seeks[current])
    BY <1>1, <2>1 DEF SeekOnce, PairFirst
  <2>3. /\ OneResult' /\ ResultsFrom(link.camera)'
        /\ conn.operation \in Discoveries => ResultsOf(Seeks[conn.operation])'
    <3>1. \A i \in Positions' : inbox'[i].type = "result" =>
              inbox'[i].attr[1] = link.camera /\ inbox'[i].attr[2] = Seeks[proc]
      BY <1>2, <1>3, <2>1
    <3>2. ResultsFrom(link.camera)'
      BY <1>1, <3>1 DEF ResultsFrom
    <3>3. conn.operation \in Discoveries => ResultsOf(Seeks[conn.operation])'
      BY <1>1, <2>2, <3>1 DEF ResultsOf
    <3> QED
      BY <1>3, <2>1, <3>2, <3>3
  <2>4. conn'.operation \in Discoveries =>
           /\ Ahead(conn.operation)' /\ ~Found(Seeks[conn.operation])'
           /\ ResultsOf(Seeks[conn.operation])'
    BY <1>1, <2>2, <2>3 DEF Ahead, Found
  <2>5. at'["ble"] = "completed" /\ current' \in Discoveries =>
           Ahead(current)' /\ ~Found(Seeks[current])'
    BY <1>1, <2>2 DEF Ahead, Found
  <2>6. SeekOnce'
    BY <1>1, <2>2, <2>3, <2>4, <2>5 DEF SeekOnce
  <2>7. PairFirst'
    BY <1>1, <1>3, <2>1, <2>2 DEF PairFirst, Pairs
  <2> QED
    BY <2>6, <2>7
<1> QED
  BY <1>1, <1>4, <1>5 DEF FoundInv

LEMMA FoundStep ==
    ASSUME SearchInv, FoundInv, [Next]_vars PROVE FoundInv'
<1>1. CASE Environment
  BY <1>1, FoundTraffic, FoundLink, FoundPairFinishes, FoundDiscovered
  DEF Environment, Radio, Camera
<1>2. CASE UNCHANGED vars
  <2>1. Neutral /\ inbox' = inbox
    BY <1>2 DEF vars, software, data, device, session, radio, peer, Neutral
  <2> QED
    BY <2>1, FoundNeutral DEF SearchInv
<1> QED
  BY <1>1, <1>2, FoundApp, FoundBle DEF Next

LEMMA InitFound == Init => FoundInv
<1> SUFFICES ASSUME Init PROVE FoundInv
  OBVIOUS
<1>1. conn = NoConnection /\ inbox = <<>>
  BY DEF Init, RadioInit
<1>2. conn.handle = NoHandle /\ conn.operation = "None" /\ \A k \in Kinds : ~Found(k)
  BY <1>1, NoneWithout DEF NoConnection, Found
<1>3. ResultsComplete
  BY <1>1 DEF ResultsComplete, Positions
<1> QED
  BY <1>2, <1>3 DEF FoundInv, KeptInv, Discoveries, Seeks

\* The handles of the attributes are kept from the discovery to every later
\* write: whatever the order of results, completions, links and scans, the one
\* kept under a name is that attribute of the camera that is linked.
THEOREM KeepsAttributes ==
    "discoveryTimeout" \notin Faults => (Spec => []AttributesOfLinkedCamera)
<1>1. FoundInv => AttributesOfLinkedCamera
  BY DEF FoundInv, KeptInv, Found, Holds, AttributesOfLinkedCamera
<1> SUFFICES ASSUME "discoveryTimeout" \notin Faults PROVE Spec => []AttributesOfLinkedCamera
  OBVIOUS
<1>2. SearchInv /\ FoundInv /\ [Next]_vars => (SearchInv /\ FoundInv)'
  BY SearchStep, FoundStep
<1> QED
  BY <1>1, <1>2, InitSearch, InitFound, PTL DEF Spec
-----------------------------------------------------------------------------
(* RecordingShown.  What the camera told last is the last recording           *)
(* notification that waits, and the indicator's once none does.              *)

Noted == \E i \in Positions : inbox[i].type = "notification"
NotesOf(h, a) ==
    \A i \in Positions : inbox[i].type = "notification"
        => inbox[i].handle = h /\ inbox[i].attr = a
NoLateNote ==
    \A i, j \in Positions :
        i < j /\ inbox[i].type = "disconnected" => inbox[j].type # "notification"

Says(e) == e.type = "notification" /\ RecordingNotice(e.notice)
Saying == \E i \in Positions : Says(inbox[i])
LastSaid(n) ==
    \E i \in Positions :
        /\ Says(inbox[i]) /\ inbox[i].notice = n
        /\ \A j \in Positions : j > i => ~Says(inbox[j])

Known ==
    \/ told = NothingYet
    \/ LastSaid(told)
    \/ ~Saying /\ recording = (told[3] = 32)

\* The link in use notifies only once subscribed to, which takes an attribute
\* to compare with; a link that is gone, or not known yet, notifies nothing.
ToldInv ==
    started =>
        /\ NoLateNote
        /\ conn.handle = NoHandle =>
              /\ ~Noted
              /\ link.phase \in {"up", "closing"} => told = Unsubscribed
        /\ conn.handle # NoHandle /\ Holds(conn.handle) =>
              /\ proc = "EnableNotifications" => Found("status")
              /\ told = Unsubscribed => ~Noted
              /\ told # Unsubscribed =>
                    /\ Found("status")
                    /\ NotesOf(conn.handle, <<link.camera, "status">>)
                    /\ Known

\* No notification is added, and none that says anything is taken.
NothingNoted ==
    /\ Noted' => Noted
    /\ \A h, a : NotesOf(h, a) =>
          \A i \in Positions' : inbox'[i].type = "notification"
              => inbox'[i].handle = h /\ inbox'[i].attr = a
    /\ NoLateNote => NoLateNote'
    /\ Saying' => Saying
    /\ \A n : LastSaid(n) =>
          \E i \in Positions' :
              /\ Says(inbox'[i]) /\ inbox'[i].notice = n
              /\ \A j \in Positions' : j > i => ~Says(inbox'[j])

LEMMA NotedSame == inbox' = inbox => NothingNoted
  BY DEF NothingNoted, Noted, NotesOf, NoLateNote, Saying, LastSaid, Positions

LEMMA NotedTaken ==
    ASSUME inbox \in Seq(Event), inbox # <<>>, inbox' = Tail(inbox)
    PROVE  /\ ~Says(Head(inbox)) => NothingNoted
           /\ Noted' => Noted
           /\ NoLateNote => NoLateNote'
           /\ NoLateNote /\ Head(inbox).type = "disconnected" => ~Noted'
           /\ Saying' => Saying
           /\ \A n : LastSaid(n) /\ (~Says(Head(inbox)) \/ Saying') => LastSaid(n)'
           /\ \A n : LastSaid(n) /\ Says(Head(inbox)) /\ ~Saying' => Head(inbox).notice = n
           /\ Head(inbox).type = "notification" =>
                 /\ Noted
                 /\ \A h, a : NotesOf(h, a) => Head(inbox).handle = h /\ Head(inbox).attr = a
<1>1. /\ 1 \in Positions /\ Head(inbox) = inbox[1]
      /\ \A i \in Positions' : i + 1 \in Positions /\ inbox'[i] = inbox[i + 1] /\ i + 1 > 1
      /\ \A i, j \in Positions' : i < j <=> i + 1 < j + 1
      /\ \A i \in Positions : i # 1 =>
            /\ i - 1 \in Positions' /\ inbox'[i - 1] = inbox[i]
            /\ \A j \in Positions' : j > i - 1 => j + 1 > i
  BY TakeShifts DEF Positions
<1>2. Noted' => Noted
  BY <1>1 DEF Noted
<1>3. NoLateNote => NoLateNote'
  <2>1. ASSUME NoLateNote, NEW i \in Positions', NEW j \in Positions', i < j,
               inbox'[i].type = "disconnected"
        PROVE  inbox'[j].type # "notification"
    <3>1. i + 1 \in Positions /\ j + 1 \in Positions /\ i + 1 < j + 1
      BY <1>1, <2>1
    <3>2. inbox[i + 1].type = "disconnected" /\ inbox'[j] = inbox[j + 1]
      BY <1>1, <2>1
    <3>3. inbox[j + 1].type # "notification"
      BY <2>1, <3>1, <3>2 DEF NoLateNote
    <3> QED
      BY <3>2, <3>3
  <2> QED
    BY <2>1 DEF NoLateNote
<1>4. NoLateNote /\ Head(inbox).type = "disconnected" => ~Noted'
  BY <1>1 DEF NoLateNote, Noted
<1>5. Saying' => Saying
  BY <1>1 DEF Saying
<1>6. ASSUME NEW n, LastSaid(n), ~Says(Head(inbox)) \/ Saying' PROVE LastSaid(n)'
  <2>1. PICK i \in Positions : /\ Says(inbox[i]) /\ inbox[i].notice = n
                               /\ \A j \in Positions : j > i => ~Says(inbox[j])
    BY <1>6 DEF LastSaid
  <2>2. i # 1
    <3>1. CASE ~Says(Head(inbox))
      BY <1>1, <2>1, <3>1
    <3>2. ASSUME i = 1, NEW j \in Positions', Says(inbox'[j]) PROVE FALSE
      <4>1. j + 1 \in Positions /\ Says(inbox[j + 1]) /\ j + 1 > 1
        BY <1>1, <3>2
      <4> QED
        BY <2>1, <3>2, <4>1
    <3> QED
      BY <1>6, <3>1, <3>2 DEF Saying
  <2>3. \A j \in Positions' : j > i - 1 => ~Says(inbox'[j])
    BY <1>1, <2>1, <2>2
  <2> QED
    BY <1>1, <2>1, <2>2, <2>3 DEF LastSaid
<1>7. ASSUME NEW n, LastSaid(n), Says(Head(inbox)), ~Saying' PROVE Head(inbox).notice = n
  <2>1. PICK i \in Positions : Says(inbox[i]) /\ inbox[i].notice = n
    BY <1>7 DEF LastSaid
  <2>2. i = 1
    BY <1>1, <1>7, <2>1 DEF Saying
  <2> QED
    BY <1>1, <2>1, <2>2
<1>8. Head(inbox).type = "notification" =>
        /\ Noted
        /\ \A h, a : NotesOf(h, a) => Head(inbox).handle = h /\ Head(inbox).attr = a
  BY <1>1 DEF Noted, NotesOf
<1>9. ~Says(Head(inbox)) => NothingNoted
  <2>1. ASSUME NEW h, NEW a, NotesOf(h, a), NEW i \in Positions',
               inbox'[i].type = "notification"
        PROVE  inbox'[i].handle = h /\ inbox'[i].attr = a
    <3>1. i + 1 \in Positions /\ inbox'[i] = inbox[i + 1]
      BY <1>1
    <3> QED
      BY <2>1, <3>1 DEF NotesOf
  <2>2. ~Says(Head(inbox)) => \A n : LastSaid(n) => LastSaid(n)'
    BY <1>6
  <2> QED
    BY <1>2, <1>3, <1>5, <2>1, <2>2 DEF NothingNoted, LastSaid
<1> QED
  BY <1>2, <1>3, <1>4, <1>5, <1>6, <1>7, <1>8, <1>9

\* Other events are reported.
LEMMA NotedReported ==
    ASSUME inbox \in Seq(Event), NEW s \in Seq(Event), inbox' = inbox \o s,
           \A k \in 1..Len(s) : s[k].type # "notification"
    PROVE  NothingNoted
<1>1. /\ \A i \in Positions : i \in Positions' /\ inbox'[i] = inbox[i]
      /\ \A i \in Positions' : inbox'[i].type = "notification" =>
            i \in Positions /\ inbox'[i] = inbox[i]
      /\ \A i \in Positions', j \in Positions : i < j => i \in Positions
  BY ReportGrows DEF Positions
<1>2. Noted' => Noted
  BY <1>1 DEF Noted
<1>3. \A h, a : NotesOf(h, a) =>
        \A i \in Positions' : inbox'[i].type = "notification"
            => inbox'[i].handle = h /\ inbox'[i].attr = a
  BY <1>1 DEF NotesOf
<1>4. NoLateNote => NoLateNote'
  BY <1>1 DEF NoLateNote
<1>5. Saying' => Saying
  BY <1>1 DEF Saying, Says
<1>6. ASSUME NEW n, LastSaid(n) PROVE LastSaid(n)'
  <2>1. PICK i \in Positions : /\ Says(inbox[i]) /\ inbox[i].notice = n
                               /\ \A j \in Positions : j > i => ~Says(inbox[j])
    BY <1>6 DEF LastSaid
  <2>2. \A j \in Positions' : j > i => ~Says(inbox'[j])
    BY <1>1, <2>1 DEF Says
  <2> QED
    BY <1>1, <2>1, <2>2 DEF LastSaid
<1> QED
  BY <1>2, <1>3, <1>4, <1>5, <1>6 DEF NothingNoted, LastSaid

\* A notification is reported.
LEMMA NoteReported ==
    ASSUME inbox \in Seq(Event), NEW e \in Event, inbox' = Append(inbox, e),
           e.type = "notification", NoLinkEvent
    PROVE  /\ NoLateNote'
           /\ NotesOf(e.handle, e.attr) => NotesOf(e.handle, e.attr)'
           /\ ~Noted => NotesOf(e.handle, e.attr)'
           /\ Says(e) => LastSaid(e.notice)'
           /\ ~Says(e) => /\ Saying' => Saying
                          /\ \A n : LastSaid(n) => LastSaid(n)'
<1>1. PICK k \in Nat :
        /\ k \in Positions' /\ inbox'[k] = e
        /\ \A i \in Positions : i < k /\ i \in Positions' /\ inbox'[i] = inbox[i]
        /\ \A i \in Positions' : ~(i > k) /\ (i \in Positions \/ i = k)
  BY LinkReported
<1>2. NoLateNote'
  <2>1. \A i \in Positions' : inbox'[i].type # "disconnected"
    BY <1>1 DEF NoLinkEvent, Only, LinkEvent
  <2> QED
    BY <2>1 DEF NoLateNote
<1>3. NotesOf(e.handle, e.attr) \/ ~Noted => NotesOf(e.handle, e.attr)'
  BY <1>1 DEF NotesOf, Noted
<1>4. Says(e) => LastSaid(e.notice)'
  BY <1>1 DEF LastSaid
<1>5. ~Says(e) => (Saying' => Saying)
  BY <1>1 DEF Saying
<1>6. ASSUME ~Says(e), NEW n, LastSaid(n) PROVE LastSaid(n)'
  <2>1. PICK i \in Positions : /\ Says(inbox[i]) /\ inbox[i].notice = n
                               /\ \A j \in Positions : j > i => ~Says(inbox[j])
    BY <1>6 DEF LastSaid
  <2> QED
    BY <1>1, <1>6, <2>1 DEF LastSaid
<1> QED
  BY <1>2, <1>3, <1>4, <1>5, <1>6
\* Steps that neither are told anything nor show it.
Untold ==
    /\ started' => started
    /\ conn'.handle = conn.handle /\ told' = told /\ recording' = recording
    /\ conn.handle # NoHandle /\ Found("status") => Found("status")'
    /\ proc' = proc \/ proc' # "EnableNotifications" \/ (started => Found("status"))
    /\ link'.phase \in {"up", "closing"} =>
          /\ link.phase \in {"up", "closing"}
          /\ link'.camera = link.camera /\ link'.handle = link.handle

LEMMA ToldKept == ASSUME ToldInv, Untold, NothingNoted PROVE ToldInv'
<1> USE DEF Untold
<1> SUFFICES ASSUME started' PROVE ToldInv'
  BY DEF ToldInv
<1>1. NoLateNote' /\ (Noted' => Noted)
  BY DEF ToldInv, NothingNoted
<1>2. conn'.handle = NoHandle =>
        ~Noted' /\ (link'.phase \in {"up", "closing"} => told' = Unsubscribed)
  BY <1>1 DEF ToldInv
<1>3. ASSUME conn'.handle # NoHandle, Holds(conn.handle)'
      PROVE  /\ proc' = "EnableNotifications" => Found("status")'
             /\ told' = Unsubscribed => ~Noted'
             /\ told' # Unsubscribed =>
                   /\ Found("status")'
                   /\ NotesOf(conn.handle, <<link.camera, "status">>)'
                   /\ Known'
  <2>1. /\ conn.handle # NoHandle /\ Holds(conn.handle) /\ link'.camera = link.camera
    BY <1>3 DEF Holds
  <2>2. proc' = "EnableNotifications" => Found("status")'
    BY <2>1 DEF ToldInv
  <2>3. told' = Unsubscribed => ~Noted'
    BY <1>1, <2>1 DEF ToldInv
  <2>4. ASSUME told' # Unsubscribed
        PROVE  /\ Found("status")'
               /\ NotesOf(conn.handle, <<link.camera, "status">>)'
               /\ Known'
    <3>1. /\ Found("status") /\ NotesOf(conn.handle, <<link.camera, "status">>) /\ Known
      BY <2>1, <2>4 DEF ToldInv
    <3>2. NotesOf(conn.handle, <<link.camera, "status">>)'
      <4> PICK h, a : h = conn.handle /\ a = <<link.camera, "status">>
        OBVIOUS
      <4>1. \A i \in Positions' : inbox'[i].type = "notification"
               => inbox'[i].handle = h /\ inbox'[i].attr = a
        BY <3>1 DEF NothingNoted
      <4> QED
        BY <2>1, <4>1 DEF NotesOf
    <3>3. (Saying' => Saying) /\ (LastSaid(told) => LastSaid(told)')
      BY DEF NothingNoted, LastSaid
    <3>4. Known'
      BY <3>1, <3>3 DEF Known
    <3> QED
      BY <2>1, <3>1, <3>2, <3>4
  <2> QED
    BY <2>2, <2>3, <2>4
<1> QED
  BY <1>1, <1>2, <1>3 DEF ToldInv

LEMMA ToldAside ==
    ASSUME TypeInv, ToldInv, Untold,
           \/ inbox' = inbox
           \/ inbox # <<>> /\ inbox' = Tail(inbox) /\ Head(inbox).type # "notification"
           \/ \E e \in Event : Report(e) /\ e.type # "notification"
    PROVE  ToldInv'
<1>0. inbox \in Seq(Event)
  BY DEF TypeInv, TypeOK, RadioTypeOK
<1>1. CASE inbox' = inbox
  BY <1>1, NotedSame, ToldKept
<1>2. CASE inbox # <<>> /\ inbox' = Tail(inbox) /\ Head(inbox).type # "notification"
  BY <1>0, <1>2, NotedTaken, ToldKept DEF Says
<1>3. ASSUME NEW e \in Event, Report(e), e.type # "notification" PROVE ToldInv'
  <2>1. <<e>> \in Seq(Event) /\ Len(<<e>>) = 1 /\ <<e>>[1] = e
    OBVIOUS
  <2>2. inbox' = inbox \o <<e>>
    BY <1>0, <1>3 DEF Report
  <2>3. \A k \in 1..Len(<<e>>) : <<e>>[k].type # "notification"
    BY <1>3, <2>1
  <2> QED
    BY <1>0, <2>1, <2>2, <2>3, NotedReported, ToldKept
<1> QED
  BY <1>1, <1>2, <1>3
-----------------------------------------------------------------------------
(* The steps of the two threads, while the camera tells nothing.           *)

LEMMA ToldScan ==
    ASSUME SearchInv, ToldInv, NEW t \in {"app", "ble"}, StartScan(t) PROVE ToldInv'
<1> USE DEF SearchInv, StartScan, data, device, session, search, shown, radio, peer, camera,
        Step, Goto
<1>1. t = "ble" /\ at["ble"] \in {"scan", "scanCommand"} => conn.handle = NoHandle
  BY DEF LinkageInv, SeekInv, Seeking, Unlinked
<1>2. NoConnection.handle = NoHandle
  BY DEF NoConnection
<1>3. t = "app" /\ at["app"] \in {"scan", "scanCommand"} => conn.handle = NoHandle
  BY <1>2 DEF SessionInv, Fresh
<1>4. Untold /\ inbox' = inbox
  <2>1. CASE ScanAccepted(t) \/ ScanRefused(t)
    <3>1. conn.handle = NoHandle /\ conn'.handle = NoHandle
      BY <1>1, <1>2, <1>3, <2>1 DEF ScanAccepted, ScanRefused, ResetConnection
    <3> QED
      BY <2>1, <3>1 DEF Untold, ScanAccepted, ScanRefused, BeginDiscovery
  <2>2. CASE ScanDeclined(t) \/ ScanChecked(t) \/ ScanFlagged(t) \/ ScanShown(t)
    BY <2>2 DEF Untold, Found, ScanDeclined, ScanChecked, ScanFlagged, ScanShown
  <2> QED
    BY <2>1, <2>2
<1> QED
  BY <1>4, ToldAside

LEMMA ToldApp == ASSUME SearchInv, ToldInv, AppThread PROVE ToldInv'
<1> USE DEF SearchInv, data, device, session, search, call, shown, radio, peer, camera, Step,
        Goto
<1>0. conn \in Connection
  BY DEF TypeInv, TypeOK, DeviceTypeOK
<1>1. CASE Start
  <2>1. Fresh /\ UNCHANGED <<conn, link, inbox>>
    BY <1>1 DEF Start, SessionInv
  <2>2. inbox' = <<>> /\ conn'.handle = NoHandle /\ link'.phase = "down"
    BY <2>1 DEF Fresh, NoConnection
  <2> QED
    BY <2>2 DEF ToldInv, NoLateNote, Noted, Positions
<1>2. CASE StopAdvertising \/ StartScan("app")
  BY <1>2, ToldScan, ToldAside DEF StopAdvertising, SetAdvertising, Untold, Found
<1>3. CASE SendCall \/ ReportError \/ \E b \in Buttons : SendButton(b) \/ SendDeclined(b)
  <2> SUFFICES Untold /\ inbox' = inbox
    BY ToldAside
  <2> USE DEF Untold, Found, Connection
  <2>1. CASE Arm \/ Claim \/ WriteRefused
    <3>1. /\ conn'.handle = conn.handle /\ conn'.found = conn.found
          /\ UNCHANGED <<started, link, proc, told, recording, inbox>>
      BY <1>0, <2>1 DEF Arm, Claim, WriteRefused
    <3> QED
      BY <3>1
  <2>2. CASE WriteAccepted
    BY <2>2 DEF WriteAccepted, BeginWrite
  <2>3. CASE Woken \/ SendReturns \/ SendTimeout \/ ReportError
    BY <2>3 DEF Woken, SendReturns, SendTimeout, ReportError
  <2>4. ASSUME NEW b \in Buttons, SendButton(b) \/ SendDeclined(b)
        PROVE  Untold /\ inbox' = inbox
    BY <2>4 DEF SendButton, SendDeclined
  <2> QED
    BY <1>3, <2>1, <2>2, <2>3, <2>4 DEF SendCall
<1>4. CASE Stop \/ StopCall
  <2> USE DEF Untold, Found
  <2>1. CASE Stop \/ StopScanFlag \/ StopNoScan \/ StopLink \/ StopNoLink \/ AwaitDown
    BY <2>1, ToldAside DEF Stop, StopScanFlag, StopNoScan, StopLink, StopNoLink, AwaitDown
  <2>2. CASE StopScan
    BY <2>2, ToldAside DEF StopScan, EndDiscovery
  <2>3. CASE HangUp
    <3>1. link'.phase # link.phase => link.phase = "up" /\ link'.phase = "closing"
      BY <2>3 DEF HangUp, EndConnection, Linked, TypeInv, TypeOK, RadioTypeOK, Link
    <3>2. link'.camera = link.camera /\ link'.handle = link.handle
      BY <2>3 DEF HangUp, EndConnection, TypeInv, TypeOK, RadioTypeOK, Link
    <3>3. Untold /\ inbox' = inbox
      BY <2>3, <3>1, <3>2 DEF HangUp, EndConnection
    <3> QED
      BY <3>3, ToldAside
  <2>4. CASE Unregister \/ Release
    <3>1. ~started'
      BY <2>4 DEF Unregister, Release, SessionInv
    <3> QED
      BY <3>1 DEF ToldInv
  <2> QED
    BY <1>4, <2>1, <2>2, <2>3, <2>4 DEF StopCall
<1>5. CASE Exited
  <2>1. Untold /\ inbox' = inbox
    BY <1>5 DEF Exited, vars, software, Untold, Found
  <2> QED
    BY <2>1, ToldAside
<1> QED
  BY <1>1, <1>2, <1>3, <1>4, <1>5 DEF AppThread, StartCall, Client

LEMMA ToldBleNeutral ==
    ASSUME SearchInv, ToldInv,
           \/ HandleAdvertisingReport \/ TerminateAccepted \/ TerminateRefused
           \/ HandleGapComplete \/ HandleGapFailure \/ HandleConnectionFailure
           \/ PairingRequested \/ PairingRefused \/ HandleNumericComparison
           \/ HandlePairingFailure \/ HandlePairingComplete
           \/ RequestRefused \/ HandleWriteComplete \/ HandleGattFailure
           \/ HandleGattComplete \/ DiscoveredNext \/ DiscoveredNothing
           \/ NotificationsEnabled
    PROVE  ToldInv'
<1> USE DEF SearchInv, Untold, Found, Connection, software, data, device, session, search,
        call, shown, radio, peer, camera, Step, Goto, Take
<1>0. conn \in Connection /\ TypeInv
  BY DEF TypeInv, TypeOK, DeviceTypeOK
<1> SUFFICES /\ Untold
             /\ \/ inbox' = inbox
                \/ inbox # <<>> /\ inbox' = Tail(inbox) /\ Head(inbox).type # "notification"
  BY ToldAside
<1>1. CASE HandleAdvertisingReport
  BY <1>0, <1>1 DEF HandleAdvertisingReport
<1>10. CASE HandleGapFailure
  BY <1>0, <1>10 DEF HandleGapFailure
<1>11. CASE HandleConnectionFailure
  BY <1>11 DEF HandleConnectionFailure
<1>2. CASE TerminateAccepted \/ TerminateRefused
  BY <1>0, <1>2 DEF TerminateAccepted, EndDiscovery, TerminateRefused
<1>3. CASE HandleGapComplete
  BY <1>3 DEF HandleGapComplete, BeginConnection
<1>4. CASE PairingRequested \/ PairingRefused
  BY <1>4 DEF PairingRequested, BeginPairing, PairingRefused
<1>5. CASE HandleNumericComparison \/ HandlePairingFailure
  BY <1>5 DEF HandleNumericComparison, ConfirmPairing, HandlePairingFailure
<1>6. CASE HandlePairingComplete \/ RequestRefused
  BY <1>0, <1>6 DEF HandlePairingComplete, RequestRefused
<1>7. CASE HandleWriteComplete
  BY <1>0, <1>7 DEF HandleWriteComplete
<1>8. CASE HandleGattFailure \/ HandleGattComplete
  BY <1>0, <1>8 DEF HandleGattFailure, HandleGattComplete
<1>9. CASE DiscoveredNext \/ DiscoveredNothing \/ NotificationsEnabled
  BY <1>0, <1>9 DEF DiscoveredNext, DiscoveredNothing, NotificationsEnabled
<1> QED
  BY <1>1, <1>2, <1>3, <1>4, <1>5, <1>6, <1>7, <1>8, <1>9, <1>10, <1>11

\* Notifications are enabled only when the attribute they carry was found.
LEMMA ToldRequested ==
    ASSUME SearchInv, ChainInv, ToldInv, RequestAccepted PROVE ToldInv'
<1>1. /\ UNCHANGED <<started, conn, link, told, recording, inbox>> /\ proc' = current
      /\ at["ble"] = "request"
  BY DEF RequestAccepted, BeginGatt, Step, device, data, session, shown, camera
<1>2. started /\ current = "EnableNotifications" => Found("status")
  BY <1>1 DEF ChainInv, FoundBefore, Found
<1>3. Untold
  BY <1>1, <1>2 DEF Untold, Found
<1> QED
  BY <1>1, <1>3, ToldAside DEF SearchInv

LEMMA ToldResult == ASSUME SearchInv, ToldInv, HandleResult PROVE ToldInv'
<1> USE DEF SearchInv
<1>1. /\ Take("result") /\ inbox # <<>> /\ inbox' = Tail(inbox)
      /\ Head(inbox).type = "result" /\ conn \in Connection /\ inbox \in Seq(Event)
  BY Taken DEF HandleResult
<1>2. UNCHANGED <<started, link, proc, told, recording>>
  BY DEF HandleResult, radio, peer, camera, session, shown
<1>3. Head(inbox).attr \in Attrs
  <2>1. Head(inbox) \in Event
    BY <1>1
  <2> QED
    BY <1>1, <2>1, EventElim
<1>4. Head(inbox).attr # NoAttr
  BY <1>3, RadioAssumption DEF Attrs, NoAttr
<1>5. conn'.handle = conn.handle /\ (Found("status") => Found("status")')
  BY <1>1, <1>4 DEF HandleResult, Connection, Found, Kinds
<1>6. Untold
  BY <1>2, <1>5 DEF Untold
<1> QED
  BY <1>1, <1>6, ToldAside

\* A camera that has just been linked was told nothing yet.
LEMMA ToldConnected ==
    ASSUME SearchInv, ToldInv, HandleConnectedPairing \/ HandleConnected
    PROVE  ToldInv'
<1> USE DEF SearchInv
<1>0. Take("connected") /\ Head(inbox).ok
  BY DEF HandleConnectedPairing, HandleConnected
<1>1. /\ inbox \in Seq(Event) /\ inbox # <<>> /\ inbox' = Tail(inbox) /\ started
      /\ conn \in Connection /\ Head(inbox).type = "connected"
  BY <1>0, Taken
<1>2. conn.handle = NoHandle /\ Unaware
  BY <1>1, FirstEvent DEF LinkageInv
<1>3. /\ UNCHANGED <<started, link, proc, told>> /\ conn'.handle = Head(inbox).handle
  BY <1>1 DEF HandleConnectedPairing, HandleConnected, Connection, radio, peer, camera, session
<1>4. conn'.handle # NoHandle
  BY <1>0, <1>1, <1>3, ConnectionTaken DEF LinkageInv
<1>5. ~Noted' /\ NoLateNote'
  BY <1>1, <1>2, NotedTaken DEF ToldInv
<1>6. proc' = "None" /\ (link'.phase \in {"up", "closing"} => told' = Unsubscribed)
  BY <1>1, <1>2, <1>3 DEF Unaware, Silent, Idle, ToldInv
<1> QED
  BY <1>3, <1>4, <1>5, <1>6 DEF ToldInv, Holds

\* Nothing that the link notified waits behind its end.
LEMMA ToldDisconnected == ASSUME SearchInv, ToldInv, HandleDisconnected PROVE ToldInv'
<1> USE DEF SearchInv
<1>1. /\ Take("disconnected") /\ inbox \in Seq(Event) /\ inbox # <<>> /\ inbox' = Tail(inbox)
      /\ started /\ Head(inbox).type = "disconnected"
  BY Taken DEF HandleDisconnected
<1>2. conn'.handle = NoHandle /\ UNCHANGED <<link, proc, pairing>>
  BY DEF HandleDisconnected, ResetConnection, NoConnection, radio, peer
<1>3. link'.phase = "down"
  BY <1>1, <1>2, DisconnectionTaken DEF LinkageInv, Unlinked
<1>4. ~Noted' /\ NoLateNote'
  BY <1>1, NotedTaken DEF ToldInv
<1> QED
  BY <1>2, <1>3, <1>4 DEF ToldInv

\* A notification is left out only when it is not of this session's link.
LEMMA ToldDrop == ASSUME SearchInv, ToldInv, Drop PROVE ToldInv'
<1> USE DEF SearchInv
<1>1. /\ inbox \in Seq(Event) /\ inbox # <<>> /\ inbox' = Tail(inbox)
      /\ UNCHANGED <<started, conn, link, proc, told, recording>>
  BY DEF Drop, software, data, device, session, shown, radio, peer, camera, TypeInv, TypeOK,
     RadioTypeOK
<1>2. Untold
  BY <1>1 DEF Untold, Found
<1>3. CASE Head(inbox).type # "notification"
  BY <1>1, <1>2, <1>3, ToldAside
<1>4. CASE Head(inbox).type = "notification"
  <2>1. SUFFICES ASSUME started PROVE ToldInv'
    BY <1>1 DEF ToldInv
  <2>2. Head(inbox).handle # conn.handle
    BY <1>4, <2>1 DEF Drop, Relevant
  <2>3. Noted /\ \A h, a : NotesOf(h, a) => Head(inbox).handle = h
    BY <1>1, <1>4, NotedTaken
  <2>4. conn.handle # NoHandle /\ ~Holds(conn.handle)
    BY <2>1, <2>2, <2>3 DEF ToldInv
  <2>5. NoLateNote'
    BY <1>1, <2>1, NotedTaken DEF ToldInv
  <2> QED
    BY <1>1, <2>4, <2>5 DEF ToldInv, Holds
<1> QED
  BY <1>3, <1>4

\* The indicator shows the recording a notification tells of, whenever its
\* attribute is the one found.
LEMMA Shown ==
    ASSUME HandleNotification, Head(inbox).attr = conn.found["status"]
    PROVE  recording' = IF Says(Head(inbox)) THEN Head(inbox).notice[3] = 32 ELSE recording
<1>1. Head(inbox).type = "notification"
  BY DEF HandleNotification, Take
<1>2. CASE IsStatus(Head(inbox).notice)
  <2>1. recording' = IF Status(Head(inbox).notice).type = "Recording"
                     THEN Status(Head(inbox).notice).active ELSE recording
    BY <1>2 DEF HandleNotification, StatusCallback
  <2>2. Status(Head(inbox).notice).active = (Head(inbox).notice[3] = 32)
    BY DEF Status
  <2> QED
    BY <1>1, <1>2, <2>1, <2>2 DEF Says, RecordingNotice
<1>3. CASE ~IsStatus(Head(inbox).notice)
  BY <1>3 DEF HandleNotification, Says, RecordingNotice
<1> QED
  BY <1>2, <1>3

LEMMA ToldNotification ==
    ASSUME SearchInv, FoundInv, ToldInv, HandleNotification PROVE ToldInv'
<1> USE DEF SearchInv
<1>1. /\ Take("notification") /\ inbox \in Seq(Event) /\ inbox # <<>> /\ inbox' = Tail(inbox)
      /\ started /\ Head(inbox).type = "notification" /\ conn.handle # NoHandle
  BY Taken, EventOfLink DEF HandleNotification
<1>2. UNCHANGED <<started, conn, link, proc, told>>
  BY DEF HandleNotification, device, session, radio, peer, camera
<1>3. NoLateNote' /\ Noted
  BY <1>1, NotedTaken DEF ToldInv
<1>4. ASSUME Holds(conn.handle)
      PROVE  /\ told # Unsubscribed /\ Found("status")
             /\ proc = "EnableNotifications" => Found("status")
             /\ NotesOf(conn.handle, <<link.camera, "status">>) /\ Known
  BY <1>1, <1>3, <1>4 DEF ToldInv
<1>5. ASSUME Holds(conn.handle) PROVE NotesOf(conn.handle, <<link.camera, "status">>)'
  <2> PICK h, a : h = conn.handle /\ a = <<link.camera, "status">>
    OBVIOUS
  <2>1. NotesOf(h, a)
    BY <1>4, <1>5
  <2>2. \A i \in Positions' : i + 1 \in Positions /\ inbox'[i] = inbox[i + 1]
    BY <1>1, TakeShifts
  <2>3. \A i \in Positions' : inbox'[i].type = "notification"
           => inbox'[i].handle = h /\ inbox'[i].attr = a
    BY <2>1, <2>2 DEF NotesOf
  <2> QED
    BY <1>2, <2>3 DEF NotesOf
<1>6. ASSUME Holds(conn.handle) PROVE Known'
  <2>1. Head(inbox).attr = conn.found["status"]
    <3>1. Head(inbox).attr = <<link.camera, "status">>
      BY <1>1, <1>4, <1>6, NotedTaken
    <3>2. conn.found["status"] = <<link.camera, "status">>
      BY <1>1, <1>4, <1>6 DEF FoundInv, KeptInv, Kinds
    <3> QED
      BY <3>1, <3>2
  <2>2. recording' = IF Says(Head(inbox)) THEN Head(inbox).notice[3] = 32 ELSE recording
    BY <2>1, Shown
  <2>3. CASE told = NothingYet
    BY <1>2, <2>3 DEF Known
  <2>4. CASE LastSaid(told)
    <3>1. CASE ~Says(Head(inbox)) \/ Saying'
      BY <1>1, <1>2, <2>4, <3>1, NotedTaken DEF Known, LastSaid
    <3>2. CASE Says(Head(inbox)) /\ ~Saying'
      <4>1. Head(inbox).notice = told
        BY <1>1, <2>4, <3>2, NotedTaken
      <4> QED
        BY <1>2, <2>2, <3>2, <4>1 DEF Known
    <3> QED
      BY <3>1, <3>2
  <2>5. CASE ~Saying /\ recording = (told[3] = 32)
    <3>1. ~Says(Head(inbox)) /\ ~Saying'
      BY <1>1, <2>5, NotedTaken, TakeShifts DEF Saying
    <3> QED
      BY <1>2, <2>2, <2>5, <3>1 DEF Known
  <2> QED
    BY <1>4, <1>6, <2>3, <2>4, <2>5 DEF Known
<1> QED
  BY <1>1, <1>2, <1>3, <1>4, <1>5, <1>6 DEF ToldInv, Holds, Found

LEMMA ToldBle == ASSUME SearchInv, ChainInv, FoundInv, ToldInv, BleThread PROVE ToldInv'
  BY ToldScan, ToldBleNeutral, ToldRequested, ToldResult, ToldConnected, ToldDisconnected,
     ToldDrop, ToldNotification DEF BleThread
-----------------------------------------------------------------------------
(* What the radio and the camera tell.                                     *)

LEMMA ToldTraffic ==
    ASSUME SearchInv, ToldInv, UNCHANGED software,
           \/ \E c \in Cameras, p \in BOOLEAN : Advertise(c, p)
           \/ DiscoveryTimeout
           \/ \E ok \in BOOLEAN : DiscoveryEnds(ok) \/ PairFinishes(ok)
           \/ ConnectFails \/ PairAsks \/ LinkDown \/ DiscoveryFindsNothing
           \/ WriteSucceeds \/ GattFails
    PROVE  ToldInv'
<1> USE EventIntro
    DEF SearchInv, Untold, Found, software, data, device, session, shown, peer, air, camera
<1>0. TypeInv /\ (link.phase = "up" => link.handle \in Handles)
  BY DEF TypeInv, LinkInv
<1> SUFFICES Untold /\ \E e \in Event : Report(e) /\ e.type # "notification"
  BY ToldAside
<1>1. ASSUME NEW c \in Cameras, NEW p \in BOOLEAN, Advertise(c, p)
      PROVE  Untold /\ \E e \in Event : Report(e) /\ e.type # "notification"
  BY <1>1 DEF Advertise, Advertisement
<1>2. CASE DiscoveryTimeout
  BY <1>2 DEF DiscoveryTimeout, ProcComplete
<1>3. ASSUME NEW ok \in BOOLEAN, DiscoveryEnds(ok)
      PROVE  Untold /\ \E e \in Event : Report(e) /\ e.type # "notification"
  BY <1>3 DEF DiscoveryEnds, ProcComplete
<1>4. ASSUME NEW ok \in BOOLEAN, PairFinishes(ok)
      PROVE  Untold /\ \E e \in Event : Report(e) /\ e.type # "notification"
  BY <1>0, <1>4 DEF PairFinishes, PairingComplete
<1>5. CASE ConnectFails
  BY <1>5 DEF ConnectFails, Connected, NoLink
<1>6. CASE PairAsks
  BY <1>0, <1>6 DEF PairAsks, NumericComparison
<1>7. CASE LinkDown
  <2>1. link.handle \in Handles
    BY <1>0, <1>7 DEF LinkDown, TypeInv, LinkInv
  <2> QED
    BY <1>7, <2>1 DEF LinkDown, Disconnected, NoLink
<1>8. CASE DiscoveryFindsNothing
  BY <1>0, <1>8 DEF DiscoveryFindsNothing, GattComplete
<1>9. CASE WriteSucceeds
  BY <1>0, <1>9 DEF WriteSucceeds, GattComplete
<1>10. CASE GattFails
  BY <1>0, <1>10 DEF GattFails, GattComplete
<1> QED
  BY <1>1, <1>2, <1>3, <1>4, <1>5, <1>6, <1>7, <1>8, <1>9, <1>10

LEMMA ToldDiscovered ==
    ASSUME SearchInv, ToldInv, UNCHANGED software, DiscoverySucceeds PROVE ToldInv'
<1> DEFINE r == Result(link.handle, <<link.camera, Seeks[proc]>>)
           g == GattComplete(link.handle, TRUE)
           s == <<r, g>>
<1>1. /\ inbox \in Seq(Event) /\ link.handle \in Handles /\ link.camera \in Cameras
      /\ UNCHANGED <<conn, started, recording, link, told>>
      /\ proc \in Discoveries /\ proc' = "None" /\ inbox' = inbox \o s
  BY DEF SearchInv, TypeInv, TypeOK, RadioTypeOK, LinkInv, DiscoverySucceeds, software, data,
     device, session, shown, camera
<1>2. r \in Event /\ g \in Event /\ r.type = "result" /\ g.type = "gattComplete"
  <2>1. <<link.camera, Seeks[proc]>> \in Attrs
    BY <1>1, SeeksKinds DEF Attrs
  <2> QED
    BY <1>1, <2>1, EventIntro DEF Result, GattComplete
<1> HIDE DEF r, g
<1>3. s \in Seq(Event) /\ Len(s) = 2 /\ s[1] = r /\ s[2] = g
  BY <1>2
<1> HIDE DEF s
<1>4. \A k \in 1..Len(s) : s[k].type # "notification"
  BY <1>2, <1>3
<1>5. NothingNoted
  BY <1>1, <1>3, <1>4, NotedReported
<1>6. Untold
  BY <1>1 DEF Untold, Found
<1> QED
  BY <1>5, <1>6, ToldKept

\* A link that comes up has told nothing.
LEMMA ToldLink ==
    ASSUME SearchInv, ToldInv, UNCHANGED software, NEW h \in Handles, LinkUp(h)
    PROVE  ToldInv'
<1> USE DEF SearchInv
<1>1. /\ inbox \in Seq(Event) /\ UNCHANGED <<conn, started>> /\ told' = Unsubscribed
  BY DEF TypeInv, TypeOK, RadioTypeOK, LinkUp, software, data, device, session
<1> PICK e \in Event : inbox' = Append(inbox, e) /\ e.type = "connected"
  BY EventIntro DEF LinkUp, Report, Connected
<1>2. <<e>> \in Seq(Event) /\ Len(<<e>>) = 1 /\ <<e>>[1] = e
  OBVIOUS
<1>3. inbox' = inbox \o <<e>>
  BY <1>1
<1>4. \A k \in 1..Len(<<e>>) : <<e>>[k].type # "notification"
  BY <1>2
<1>5. NothingNoted
  BY <1>1, <1>2, <1>3, <1>4, NotedReported
<1>6. started => conn.handle = NoHandle
  BY <1>1, LinkComes DEF LinkageInv
<1> QED
  BY <1>1, <1>5, <1>6 DEF ToldInv, NothingNoted

\* The camera is subscribed to.
LEMMA ToldEnabled ==
    ASSUME SearchInv, ToldInv, UNCHANGED software, EnablingSucceeds PROVE ToldInv'
<1> USE DEF SearchInv
<1> DEFINE e == GattComplete(link.handle, TRUE)
<1>1. /\ inbox \in Seq(Event) /\ UNCHANGED <<conn, started, link>>
      /\ told' = NothingYet /\ proc = "EnableNotifications" /\ proc' = "None"
      /\ link.phase = "up" /\ Report(e)
  BY DEF TypeInv, TypeOK, RadioTypeOK, EnablingSucceeds, software, data, device, session
<1>2. e \in Event /\ e.type = "gattComplete"
  BY <1>1, EventIntro DEF TypeInv, LinkInv, GattComplete
<1> HIDE DEF e
<1>3. <<e>> \in Seq(Event) /\ Len(<<e>>) = 1 /\ <<e>>[1] = e
  BY <1>2
<1>4. inbox' = inbox \o <<e>>
  BY <1>1 DEF Report
<1>5. \A k \in 1..Len(<<e>>) : <<e>>[k].type # "notification"
  BY <1>2, <1>3
<1>6. NothingNoted
  BY <1>1, <1>3, <1>4, <1>5, NotedReported, <1>2
<1> SUFFICES ASSUME started PROVE ToldInv'
  BY <1>1 DEF ToldInv
<1>7. conn.handle # NoHandle
  BY <1>1 DEF LinkageInv, EpochInv, Unaware, Silent, Idle
<1>8. NoLateNote'
  BY <1>6 DEF ToldInv, NothingNoted
<1>9. ASSUME Holds(conn.handle)
      PROVE  Found("status") /\ NotesOf(conn.handle, <<link.camera, "status">>)'
  <2>1. Found("status") /\ (Noted => NotesOf(conn.handle, <<link.camera, "status">>))
    BY <1>1, <1>7, <1>9 DEF ToldInv
  <2> PICK h, a : h = conn.handle /\ a = <<link.camera, "status">>
    OBVIOUS
  <2>2. \A i \in Positions' : inbox'[i].type = "notification"
           => inbox'[i].handle = h /\ inbox'[i].attr = a
    <3>1. CASE Noted
      BY <2>1, <3>1, <1>6 DEF NothingNoted
    <3>2. CASE ~Noted
      BY <3>2, <1>6 DEF NothingNoted, Noted
    <3> QED
      BY <3>1, <3>2
  <2> QED
    BY <1>1, <2>1, <2>2 DEF NotesOf
<1> QED
  BY <1>1, <1>7, <1>8, <1>9 DEF ToldInv, Holds, Found, Known, Unsubscribed, NothingYet

\* The camera notifies.
LEMMA ToldNotify ==
    ASSUME SearchInv, ToldInv, UNCHANGED software, NEW n \in Notices, Notify(n)
    PROVE  ToldInv'
<1> USE DEF SearchInv
<1> PICK a : a = <<link.camera, "status">>
  OBVIOUS
<1>1. /\ inbox \in Seq(Event) /\ UNCHANGED <<conn, started, link, proc, recording>>
      /\ told # Unsubscribed /\ told' = IF RecordingNotice(n) THEN n ELSE told
      /\ link.phase = "up" /\ Report(Notification(link.handle, a, n))
  BY DEF TypeInv, TypeOK, RadioTypeOK, Notify, software, data, device, session, shown, peer
<1>2. PICK e \in Event :
        /\ e.type = "notification" /\ e.handle = link.handle /\ e.attr = a
        /\ e.notice = n /\ inbox' = Append(inbox, e)
  <2>1. a \in Attrs /\ link.handle \in Handles
    BY <1>1 DEF TypeInv, LinkInv, Attrs, Kinds
  <2> QED
    BY <1>1, <2>1, EventIntro DEF Notification, Report
<1> SUFFICES ASSUME started PROVE ToldInv'
  BY <1>1 DEF ToldInv
<1>4. conn.handle # NoHandle
  BY <1>1 DEF ToldInv
<1>5. NoLinkEvent /\ Holds(conn.handle)
  BY <1>1, <1>4 DEF LinkageInv, EpochInv, Aware, Gone
<1>6. link.handle = conn.handle
  BY <1>5 DEF Holds
<1>7. Found("status") /\ NotesOf(conn.handle, a) /\ Known
  BY <1>1, <1>4, <1>5 DEF ToldInv
<1>8. /\ NoLateNote'
      /\ NotesOf(e.handle, e.attr) => NotesOf(e.handle, e.attr)'
      /\ Says(e) => LastSaid(n)'
      /\ ~Says(e) => /\ Saying' => Saying
                     /\ \A m : LastSaid(m) => LastSaid(m)'
  BY <1>1, <1>2, <1>5, NoteReported
<1>9. NotesOf(conn.handle, <<link.camera, "status">>)'
  <2>1. \A i \in Positions' : inbox'[i].type = "notification"
           => inbox'[i].handle = conn.handle /\ inbox'[i].attr = a
    BY <1>2, <1>6, <1>7, <1>8 DEF NotesOf
  <2> QED
    BY <1>1, <2>1 DEF NotesOf
<1>10. Known'
  <2>1. Says(e) <=> RecordingNotice(n)
    BY <1>2 DEF Says
  <2>2. CASE Says(e)
    BY <1>1, <1>8, <2>1, <2>2 DEF Known, LastSaid
  <2>3. CASE ~Says(e)
    BY <1>1, <1>7, <1>8, <2>1, <2>3 DEF Known
  <2> QED
    BY <2>2, <2>3
<1>11. told' # Unsubscribed
  BY <1>1 DEF Unsubscribed, RecordingNotice, IsStatus
<1> QED
  BY <1>1, <1>4, <1>7, <1>8, <1>9, <1>10, <1>11 DEF ToldInv, Found

LEMMA ToldStep ==
    ASSUME SearchInv, ChainInv, FoundInv, ToldInv, [Next]_vars PROVE ToldInv'
<1>1. CASE Environment
  BY <1>1, ToldTraffic, ToldDiscovered, ToldLink, ToldEnabled, ToldNotify
  DEF Environment, Radio, Camera
<1>2. CASE UNCHANGED vars
  <2>1. Untold /\ inbox' = inbox
    BY <1>2 DEF vars, software, data, device, session, shown, radio, peer, camera, Untold, Found
  <2> QED
    BY <2>1, ToldAside DEF SearchInv
<1> QED
  BY <1>1, <1>2, ToldApp, ToldBle DEF Next

\* What happens between a notification of the camera and the indicator: it waits
\* behind other events, and a link lost meanwhile is followed by others, of
\* other cameras.  Once all is handled, the indicator shows what the camera
\* linked now told last, whatever bytes the cameras notify.
THEOREM ShowsRecording == "discoveryTimeout" \notin Faults => (Spec => []RecordingShown)
<1>1. SearchInv /\ ToldInv => RecordingShown
  <2> SUFFICES ASSUME SearchInv, ToldInv, started, inbox = <<>>, link.phase = "up",
                      told \notin {Unsubscribed, NothingYet}
               PROVE  recording = (told[3] = 32)
    BY DEF RecordingShown
  <2>1. \A i \in Positions : FALSE
    BY DEF Positions
  <2>2. conn.handle # NoHandle
    BY DEF ToldInv
  <2>3. Holds(conn.handle)
    BY <2>1, <2>2 DEF SearchInv, LinkageInv, EpochInv, Aware
  <2>4. Known /\ ~LastSaid(told)
    BY <2>1, <2>2, <2>3 DEF ToldInv, LastSaid
  <2> QED
    BY <2>4 DEF Known
<1>2. Init => ToldInv
  BY DEF Init, ToldInv
<1>3. Init => ChainInv
  BY DEF Init, ChainInv
<1> SUFFICES ASSUME "discoveryTimeout" \notin Faults PROVE Spec => []RecordingShown
  OBVIOUS
<1>4. SearchInv /\ ChainInv /\ FoundInv /\ ToldInv /\ [Next]_vars
      => (SearchInv /\ ChainInv /\ FoundInv /\ ToldInv)'
  <2> SUFFICES ASSUME SearchInv, ChainInv, FoundInv, ToldInv, [Next]_vars
               PROVE  (SearchInv /\ ChainInv /\ FoundInv /\ ToldInv)'
    OBVIOUS
  <2>1. ChainInv'
    BY ChainStep DEF SearchInv
  <2> QED
    BY <2>1, SearchStep, FoundStep, ToldStep
<1> QED
  BY <1>1, <1>2, <1>3, <1>4, InitSearch, InitFound, PTL DEF Spec
=============================================================================
