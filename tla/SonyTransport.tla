---------------------------- MODULE SonyTransport ----------------------------
(***************************************************************************)
(* The Bluetooth central transport of the Sony A7 IV remote                *)
(* (sony_a7_iv_remote/sony_transport_central.c) and the client calling it. *)
(*                                                                         *)
(* Two threads share struct SonyTransport with no lock: "app" runs         *)
(* sony_transport_start, _send_button and _stop, "ble" runs                *)
(* sony_transport_event_callback once for every event of the radio.  Each  *)
(* step below is a stretch of code that ends at a radio command (which     *)
(* blocks the caller), at a wait, or where the other thread can observe    *)
(* the difference.  The client here is the most general one: after start   *)
(* it may send any button, overwrite the reported state, or stop.          *)
(* The mutex of send_button is not modelled: one thread calls it.          *)
(***************************************************************************)
EXTENDS SonyRadio

CONSTANT Buttons    \* the button commands the client sends

ASSUME ButtonsAssumption == Buttons \subseteq Button

VARIABLES
    \* fields of struct SonyTransport
    started, stopping, scanning, peer_address,
    conn,       \* the fields sony_transport_reset_connection clears together
    flags,      \* the FuriEventFlag: "WriteComplete", "Disconnected"
    \* control of the two threads
    at,         \* where each thread is
    event_handle, \* ble: the link of the connection event being handled
    current,    \* ble: the GATT operation completed or being requested
    button,     \* app: the argument of sony_transport_send_button
    result,     \* app: what the last sony_transport_send_button returned
    \* what the two client callbacks were last told
    state, recording

session == <<started, stopping>>
search  == <<scanning, peer_address, event_handle>>
call    == <<button, result>>
shown   == <<state, recording>>
device  == <<session, search, conn, flags>>
data    == <<device, current, call, shown>>
software == <<data, at>>
vars    == <<software, radio, inbox>>
-----------------------------------------------------------------------------
\* Mutant: the last discovery is followed by an operation nothing carries out.
FollowingUnknown == [DiscoverService |-> "DiscoverCommand",
                     DiscoverCommand |-> "DiscoverStatus",
                     DiscoverStatus  |-> "DiscoverCccd",
                     DiscoverCccd    |-> "Subscribe"]

\* The operation that follows a discovery operation that found its attribute.
Following == [DiscoverService |-> "DiscoverCommand",
              DiscoverCommand |-> "DiscoverStatus",
              DiscoverStatus  |-> "DiscoverCccd",
              DiscoverCccd    |-> "EnableNotifications"]

\* The radio reports both characteristics with the same event; only the
\* operation in progress tells the handler which of the two it is.
Response(k) == IF k \in {"command", "status"} THEN "characteristic" ELSE k

\* What sony_transport_reset_connection leaves.
NoConnection ==
    [handle |-> NoHandle, found |-> [k \in Kinds |-> NoAttr],
     operation |-> "None", pending |-> FALSE, pairing |-> FALSE,
     written |-> FALSE]

\* The early returns of the event callback and of its handlers: an event that
\* is not relevant changes nothing.
Relevant(e) ==
    /\ started
    /\ \/ e.type = "advertisement" /\ scanning
       \/ e.type = "procComplete" /\ conn.pending
       \/ e.type = "connected"
       \/ /\ e.type \notin {"advertisement", "procComplete", "connected"}
          /\ e.handle = conn.handle

\* Mutant: the attribute handles survive.
ResetWithoutAttributes == conn' = [NoConnection EXCEPT !.found = conn.found]

ResetConnection == conn' = NoConnection

Home == [app |-> "loop", ble |-> "idle"]
Goto(t, label) == at' = [at EXCEPT ![t] = label]
Step(t, from, to) == at[t] = from /\ Goto(t, to)
Refusable == "refuse" \in Faults

Take(type) ==
    /\ at["ble"] = "idle"
    /\ inbox # <<>>
    /\ Head(inbox).type = type
    /\ Relevant(Head(inbox))
    /\ inbox' = Tail(inbox)

Init ==
    /\ RadioInit
    /\ started = FALSE /\ stopping = FALSE /\ scanning = FALSE
    /\ peer_address = NoCamera /\ event_handle = NoHandle
    /\ conn = NoConnection /\ flags = {}
    /\ at = [app |-> "off", ble |-> "idle"] /\ current = "None"
    /\ button = NoButton /\ result = FALSE
    /\ state = "Scanning" /\ recording = FALSE
-----------------------------------------------------------------------------
(* sony_transport_start_scan, which both threads call.                     *)

ScanDeclined(t) ==
    /\ Step(t, "scan", Home[t]) /\ (~started \/ stopping)
    /\ UNCHANGED <<data, radio, inbox>>

ScanChecked(t) ==
    /\ Step(t, "scan", "scanCommand") /\ started /\ ~stopping
    /\ UNCHANGED <<data, radio, inbox>>

\* sony_transport_reset_connection and the command.
ScanAccepted(t) ==
    /\ Step(t, "scanCommand", "scanAccepted")
    /\ CanDiscover /\ BeginDiscovery
    /\ ResetConnection
    /\ UNCHANGED <<session, search, flags, current, call, shown, inbox>>

ScanRefused(t) ==
    /\ Step(t, "scanCommand", Home[t])
    /\ ~CanDiscover \/ Refusable
    /\ ResetConnection
    /\ state' = "Error"
    /\ UNCHANGED <<session, search, flags, current, call, recording,
                   radio, inbox>>

\* The radio may already report a camera here: the flag is still FALSE.
ScanFlagged(t) ==
    /\ Step(t, "scanAccepted", "scanShow")
    /\ scanning' = TRUE
    /\ UNCHANGED <<session, peer_address, event_handle, conn, flags, current,
                   call, shown, radio, inbox>>

ScanShown(t) ==
    /\ Step(t, "scanShow", Home[t])
    /\ state' = "Scanning"
    /\ UNCHANGED <<device, current, call, recording, radio, inbox>>

StartScan(t) ==
    \/ ScanDeclined(t) \/ ScanChecked(t) \/ ScanAccepted(t)
    \/ ScanRefused(t) \/ ScanFlagged(t) \/ ScanShown(t)
-----------------------------------------------------------------------------
(* sony_transport_event_callback: advertising, connecting, pairing.        *)

Drop ==
    /\ at["ble"] = "idle"
    /\ inbox # <<>>
    /\ ~Relevant(Head(inbox))
    /\ inbox' = Tail(inbox)
    /\ UNCHANGED <<software, radio>>

HandleAdvertisingReport ==
    /\ Take("advertisement")
    /\ conn' = [conn EXCEPT !.pairing = Head(inbox).pairing, !.pending = TRUE]
    /\ peer_address' = Head(inbox).camera
    /\ scanning' = FALSE
    /\ state' = "Connecting"
    /\ Goto("ble", "terminate")
    /\ UNCHANGED <<session, event_handle, flags, current, call, recording, radio>>

TerminateAccepted ==
    /\ Step("ble", "terminate", "idle")
    /\ gap = "discovery" /\ EndDiscovery
    /\ UNCHANGED <<data, inbox>>

TerminateRefused ==
    /\ Step("ble", "terminate", "scan")
    /\ gap # "discovery" \/ Refusable
    /\ conn' = [conn EXCEPT !.pending = FALSE]
    /\ state' = "Error"
    /\ UNCHANGED <<session, search, flags, current, call, recording,
                   radio, inbox>>

\* sony_transport_create_connection succeeds.
HandleGapComplete ==
    /\ Take("procComplete") /\ Head(inbox).ok
    /\ CanConnect /\ BeginConnection(peer_address)
    /\ UNCHANGED software

\* The discovery ended with an error, or the connection command is refused.
HandleGapFailure ==
    /\ Take("procComplete")
    /\ ~Head(inbox).ok \/ ~CanConnect \/ Refusable
    /\ conn' = [conn EXCEPT !.pending = FALSE]
    /\ state' = "Error"
    /\ Goto("ble", "scan")
    /\ UNCHANGED <<session, search, flags, current, call, recording, radio>>

HandleConnectionFailure ==
    /\ Take("connected") /\ ~Head(inbox).ok
    /\ state' = "Error"
    /\ Goto("ble", "scan")
    /\ UNCHANGED <<device, current, call, recording, radio>>

HandleConnectedPairing ==
    /\ Take("connected") /\ Head(inbox).ok /\ conn.pairing
    /\ conn' = [conn EXCEPT !.handle = Head(inbox).handle]
    /\ event_handle' = Head(inbox).handle
    /\ state' = "Pairing"
    /\ Goto("ble", "pair")
    /\ UNCHANGED <<session, scanning, peer_address, flags, current, call,
                   recording, radio>>

HandleConnected ==
    /\ Take("connected") /\ Head(inbox).ok /\ ~conn.pairing
    /\ conn' = [conn EXCEPT !.handle = Head(inbox).handle,
                            !.operation = "DiscoverService"]
    /\ current' = "DiscoverService"
    /\ Goto("ble", "request")
    /\ UNCHANGED <<session, search, flags, call, shown, radio>>

\* Pairing is requested with the handle of the event, which the app thread
\* does not reset.
PairingRequested ==
    /\ Step("ble", "pair", "idle")
    /\ CanPair(event_handle) /\ BeginPairing
    /\ event_handle' = NoHandle
    /\ UNCHANGED <<session, scanning, peer_address, conn, flags, current, call,
                   shown, inbox>>

PairingRefused ==
    /\ Step("ble", "pair", "idle")
    /\ ~CanPair(event_handle) \/ Refusable
    /\ event_handle' = NoHandle
    /\ state' = "Error"
    /\ UNCHANGED <<session, scanning, peer_address, conn, flags, current, call,
                   recording, radio, inbox>>

HandleNumericComparison ==
    /\ Take("numericComparison")
    /\ ConfirmPairing(conn.handle)
    /\ UNCHANGED software

\* Mutant: this error branch scans again, as the others do.
PairingFailureRescans ==
    /\ Take("pairingComplete") /\ ~Head(inbox).ok
    /\ state' = "Error"
    /\ Goto("ble", "scan")
    /\ UNCHANGED <<device, current, call, recording, radio>>

HandlePairingFailure ==
    /\ Take("pairingComplete") /\ ~Head(inbox).ok
    /\ state' = "Error"
    /\ UNCHANGED <<device, at, current, call, recording, radio>>

HandlePairingComplete ==
    /\ Take("pairingComplete") /\ Head(inbox).ok
    /\ conn' = [conn EXCEPT !.operation = "DiscoverService"]
    /\ current' = "DiscoverService"
    /\ Goto("ble", "request")
    /\ UNCHANGED <<session, search, flags, call, shown, radio>>

\* The flags wake a waiting app thread; the state says why it failed.
HandleDisconnected ==
    /\ Take("disconnected")
    /\ ResetConnection
    /\ scanning' = FALSE
    /\ flags' = {"Disconnected", "WriteComplete"}
    /\ IF stopping THEN UNCHANGED <<at, state>>
                   ELSE state' = "Disconnected" /\ Goto("ble", "scan")
    /\ UNCHANGED <<session, peer_address, event_handle, current, call,
                   recording, radio>>
-----------------------------------------------------------------------------
(* sony_transport_event_callback: the GATT client.                         *)

\* The command that carries out the operation just set (begin_service_discovery,
\* discover_characteristic, discover_cccd, enable_notifications).
RequestAccepted ==
    /\ Step("ble", "request", "idle")
    /\ CanGatt(conn.handle) /\ BeginGatt(current)
    /\ state' = IF current = "DiscoverService" THEN "Discovering" ELSE state
    /\ UNCHANGED <<device, current, call, recording, inbox>>

RequestRefused ==
    /\ Step("ble", "request", "idle")
    /\ ~CanGatt(conn.handle) \/ Refusable
    /\ conn' = [conn EXCEPT !.operation = "None"]
    /\ state' = "Error"
    /\ UNCHANGED <<session, search, flags, current, call, recording,
                   radio, inbox>>

\* Mutant: the result of either characteristic overwrites the command handle.
ResultOverwritesCommand ==
    /\ Take("result")
    /\ LET op == conn.operation
           attr == Head(inbox).attr
       IN IF op \in Discoveries /\ Response(Seeks[op]) = Response(attr[2])
          THEN conn' = [conn EXCEPT !.found[Seeks[op]] = attr,
                  !.found["command"] = IF Response(attr[2]) = "characteristic"
                                       THEN attr ELSE @]
          ELSE UNCHANGED conn
    /\ UNCHANGED <<session, search, flags, at, current, call, shown, radio>>

\* The service, characteristic and descriptor handlers: a result is stored
\* under what the operation in progress looks for, if its event is of that kind.
HandleResult ==
    /\ Take("result")
    /\ LET op == conn.operation
           attr == Head(inbox).attr
       IN IF op \in Discoveries /\ Response(Seeks[op]) = Response(attr[2])
          THEN conn' = [conn EXCEPT !.found[Seeks[op]] = attr]
          ELSE UNCHANGED conn
    /\ UNCHANGED <<session, search, flags, at, current, call, shown, radio>>

\* sony_transport_handle_gatt_complete takes the operation and clears it ...
HandleWriteComplete ==
    /\ Take("gattComplete") /\ conn.operation = "WriteButton"
    /\ conn' = [conn EXCEPT !.operation = "None", !.written = Head(inbox).ok]
    /\ flags' = flags \cup {"WriteComplete"}
    /\ UNCHANGED <<session, search, at, current, call, shown, radio>>

\* Mutant: the failure is only logged.
GattFailureUnreported ==
    /\ Take("gattComplete") /\ conn.operation # "WriteButton" /\ ~Head(inbox).ok
    /\ conn' = [conn EXCEPT !.operation = "None"]
    /\ UNCHANGED <<session, search, flags, at, current, call, shown, radio>>

HandleGattFailure ==
    /\ Take("gattComplete") /\ conn.operation # "WriteButton" /\ ~Head(inbox).ok
    /\ conn' = [conn EXCEPT !.operation = "None"]
    /\ state' = "Error"
    /\ UNCHANGED <<session, search, flags, at, current, call, recording, radio>>

HandleGattComplete ==
    /\ Take("gattComplete") /\ conn.operation # "WriteButton" /\ Head(inbox).ok
    /\ current' = conn.operation
    /\ conn' = [conn EXCEPT !.operation = "None"]
    /\ Goto("ble", "completed")
    /\ UNCHANGED <<session, search, flags, call, shown, radio>>

\* Mutant: goes on without testing that the attribute was found.
DiscoveredUntested ==
    /\ Step("ble", "completed", "request") /\ current \in Discoveries
    /\ current' = Following[current]
    /\ conn' = [conn EXCEPT !.operation = Following[current]]
    /\ UNCHANGED <<session, search, flags, call, shown, radio, inbox>>

\* ... and continues with what follows it, while the operation reads None.
DiscoveredNext ==
    /\ Step("ble", "completed", "request") /\ current \in Discoveries
    /\ conn.found[Seeks[current]] # NoAttr
    /\ current' = Following[current]
    /\ conn' = [conn EXCEPT !.operation = Following[current]]
    /\ UNCHANGED <<session, search, flags, call, shown, radio, inbox>>

DiscoveredNothing ==
    /\ Step("ble", "completed", "idle") /\ current \in Discoveries
    /\ conn.found[Seeks[current]] = NoAttr
    /\ state' = "Error"
    /\ UNCHANGED <<device, current, call, recording, radio, inbox>>

NotificationsEnabled ==
    /\ Step("ble", "completed", "idle") /\ current \notin Discoveries
    /\ state' = IF current = "EnableNotifications" THEN "Ready" ELSE state
    /\ UNCHANGED <<device, current, call, recording, radio, inbox>>

\* Mutant: a notification of any type changes the indicator.
CallbackOfAnyType(status) == recording' = status.active

\* sony_a7_iv_remote_status_callback.
StatusCallback(status) ==
    recording' = IF status.type = "Recording" THEN status.active ELSE recording

HandleNotification ==
    /\ Take("notification")
    /\ LET n == Head(inbox)
       IN IF n.attr = conn.found["status"] /\ IsStatus(n.notice)
          THEN StatusCallback(Status(n.notice))
          ELSE UNCHANGED recording
    /\ UNCHANGED <<device, at, current, call, state, radio>>

BleThread ==
    \/ StartScan("ble") \/ Drop
    \/ HandleAdvertisingReport \/ TerminateAccepted \/ TerminateRefused
    \/ HandleGapComplete \/ HandleGapFailure
    \/ HandleConnectionFailure \/ HandleConnectedPairing \/ HandleConnected
    \/ PairingRequested \/ PairingRefused \/ HandleNumericComparison
    \/ HandlePairingFailure \/ HandlePairingComplete \/ HandleDisconnected
    \/ RequestAccepted \/ RequestRefused \/ HandleResult
    \/ HandleWriteComplete \/ HandleGattFailure \/ HandleGattComplete
    \/ DiscoveredNext \/ DiscoveredNothing \/ NotificationsEnabled
    \/ HandleNotification
-----------------------------------------------------------------------------
(* The app thread: sony_transport_start.                                   *)

Start ==
    /\ Step("app", "off", "quiet")
    /\ started' = TRUE /\ stopping' = FALSE
    /\ UNCHANGED <<search, conn, flags, current, call, shown, radio, inbox>>

StopAdvertising ==
    /\ Step("app", "quiet", "scan")
    /\ SetAdvertising(FALSE)
    /\ UNCHANGED <<data, inbox>>

(* sony_transport_send_button.                                             *)

Sendable ==
    /\ started /\ ~stopping
    /\ conn.handle # NoHandle
    /\ conn.found["command"] # NoAttr
    /\ conn.operation = "None"

SendButton(b) ==
    /\ Step("app", "loop", "arm") /\ Sendable
    /\ button' = b
    /\ UNCHANGED <<device, current, result, shown, radio, inbox>>

SendDeclined(b) ==
    /\ at["app"] = "loop" /\ ~Sendable
    /\ button' = b /\ result' = FALSE
    /\ UNCHANGED <<device, at, current, shown, radio, inbox>>

Arm ==
    /\ Step("app", "arm", "claim")
    /\ flags' = flags \ {"WriteComplete"}
    /\ UNCHANGED <<session, search, conn, current, call, shown, radio, inbox>>

\* The operation is taken, whatever the ble thread made it since the test.
Claim ==
    /\ Step("app", "claim", "write")
    /\ conn' = [conn EXCEPT !.written = FALSE, !.operation = "WriteButton"]
    /\ UNCHANGED <<session, search, flags, current, call, shown, radio, inbox>>

WriteAccepted ==
    /\ Step("app", "write", "wait")
    /\ CanGatt(conn.handle) /\ BeginWrite(button, conn.found["command"])
    /\ UNCHANGED <<data, inbox>>

WriteRefused ==
    /\ Step("app", "write", "loop")
    /\ ~CanGatt(conn.handle) \/ Refusable
    /\ conn' = [conn EXCEPT !.operation = "None"]
    /\ result' = FALSE
    /\ UNCHANGED <<session, search, flags, current, button, shown, radio, inbox>>

Woken ==
    /\ Step("app", "wait", "woken") /\ "WriteComplete" \in flags
    /\ flags' = flags \ {"WriteComplete"}
    /\ UNCHANGED <<session, search, conn, current, call, shown, radio, inbox>>

\* Mutant: the answer's error code is not looked at.
SendReturnsUnchecked ==
    /\ Step("app", "woken", "loop")
    /\ result' = (conn.handle # NoHandle)
    /\ UNCHANGED <<device, current, button, shown, radio, inbox>>

SendReturns ==
    /\ Step("app", "woken", "loop")
    /\ result' = (conn.written /\ conn.handle # NoHandle)
    /\ UNCHANGED <<device, current, button, shown, radio, inbox>>

\* The wait gives up; the operation stays WriteButton.
SendTimeout ==
    /\ Step("app", "wait", "loop")
    /\ result' = FALSE
    /\ UNCHANGED <<device, current, button, shown, radio, inbox>>

\* The client calls its own state callback.
ReportError ==
    /\ at["app"] = "loop"
    /\ state' = "Error"
    /\ UNCHANGED <<device, at, current, call, recording, radio, inbox>>

(* sony_transport_stop.                                                    *)

\* Mutant: stopping is never announced to the ble thread.
StopUnannounced ==
    /\ Step("app", "loop", "stopScan")
    /\ UNCHANGED <<data, radio, inbox>>

Stop ==
    /\ Step("app", "loop", "stopScan")
    /\ stopping' = TRUE
    /\ UNCHANGED <<started, search, conn, flags, current, call, shown,
                   radio, inbox>>

StopScan ==
    /\ Step("app", "stopScan", "stopFlag") /\ scanning
    /\ EndDiscovery
    /\ UNCHANGED <<data, inbox>>

StopScanFlag ==
    /\ Step("app", "stopFlag", "stopLink")
    /\ scanning' = FALSE
    /\ UNCHANGED <<session, peer_address, event_handle, conn, flags, current,
                   call, shown, radio, inbox>>

StopNoScan ==
    /\ Step("app", "stopScan", "stopLink") /\ ~scanning
    /\ UNCHANGED <<data, radio, inbox>>

StopLink ==
    /\ Step("app", "stopLink", "hangup") /\ conn.handle # NoHandle
    /\ flags' = flags \ {"Disconnected"}
    /\ UNCHANGED <<session, search, conn, current, call, shown, radio, inbox>>

StopNoLink ==
    /\ Step("app", "stopLink", "unregister") /\ conn.handle = NoHandle
    /\ UNCHANGED <<data, radio, inbox>>

HangUp ==
    /\ Step("app", "hangup", "awaitDown")
    /\ EndConnection(conn.handle)
    /\ UNCHANGED <<data, inbox>>

\* The disconnection was reported, or 750 ms have passed.
AwaitDown ==
    /\ Step("app", "awaitDown", "unregister")
    /\ flags' = flags \ {"Disconnected"}
    /\ UNCHANGED <<session, search, conn, current, call, shown, radio, inbox>>

Unregister ==
    /\ Step("app", "unregister", "release")
    /\ started' = FALSE
    /\ UNCHANGED <<stopping, search, conn, flags, current, call, shown,
                   radio, inbox>>

Release ==
    /\ Step("app", "release", "stopped")
    /\ ResetConnection
    /\ SetAdvertising(TRUE)
    /\ UNCHANGED <<session, search, flags, current, call, shown, inbox>>

\* The process is gone; stuttering here keeps deadlock checking on.
Exited == at["app"] = "stopped" /\ UNCHANGED vars

\* The steps of a call once the client has made it ...
StartCall == Start \/ StopAdvertising \/ StartScan("app")
SendCall ==
    \/ Arm \/ Claim \/ WriteAccepted \/ WriteRefused
    \/ Woken \/ SendReturns \/ SendTimeout
StopCall ==
    \/ StopScan \/ StopScanFlag \/ StopNoScan \/ StopLink \/ StopNoLink
    \/ HangUp \/ AwaitDown \/ Unregister \/ Release

\* ... and what a client may do between calls.
Client ==
    \/ \E b \in Buttons : SendButton(b) \/ SendDeclined(b)
    \/ ReportError \/ Stop

AppThread == StartCall \/ SendCall \/ StopCall \/ Client \/ Exited
-----------------------------------------------------------------------------
Environment == (Radio \/ Camera) /\ UNCHANGED software

Next == AppThread \/ BleThread \/ Environment

Spec == Init /\ [][Next]_vars
-----------------------------------------------------------------------------
\* The states the central transport reports; only the stub reports Unavailable.
States == {"Scanning", "Connecting", "Pairing", "Discovering", "Ready",
           "Disconnected", "Error"}
AppLabels == {"off", "quiet", "scan", "scanCommand", "scanAccepted", "scanShow",
    "loop", "arm", "claim", "write", "wait", "woken", "stopScan", "stopFlag",
    "stopLink", "hangup", "awaitDown", "unregister", "release", "stopped"}
BleLabels == {"idle", "scan", "scanCommand", "scanAccepted", "scanShow",
    "terminate", "pair", "request", "completed"}

Connection ==
    [handle : Handles \cup {NoHandle}, found : [Kinds -> Attrs \cup {NoAttr}],
     operation : Operations, pending : BOOLEAN, pairing : BOOLEAN,
     written : BOOLEAN]

DeviceTypeOK ==
    /\ started \in BOOLEAN /\ stopping \in BOOLEAN /\ scanning \in BOOLEAN
    /\ peer_address \in Cameras \cup {NoCamera}
    /\ event_handle \in Handles \cup {NoHandle}
    /\ conn \in Connection
    /\ flags \subseteq {"WriteComplete", "Disconnected"}

\* A thread only moves between its own labels.
AtOK ==
    /\ at \in [{"app", "ble"} -> AppLabels \cup BleLabels]
    /\ at["app"] \in AppLabels /\ at["ble"] \in BleLabels

ControlTypeOK ==
    /\ AtOK
    /\ current \in Operations
    /\ button \in Button /\ result \in BOOLEAN
    /\ state \in States /\ recording \in BOOLEAN

\* Every variable stays in its range: in particular no event is delivered and
\* no attribute stored that does not belong to a camera in range, and no
\* operation is requested that no event handler carries on.
TypeOK == RadioTypeOK /\ DeviceTypeOK /\ ControlTypeOK
-----------------------------------------------------------------------------
(* Safety.                                                                 *)

\* The attribute handles that send_button and the discovery chain use were
\* discovered on the camera that is linked now, each under its own name: no
\* late result of another camera, link or operation is ever kept.  Holds
\* unless the radio ends a discovery by itself (README, "Stale completions").
AttributesOfLinkedCamera ==
    \A k \in Kinds :
        /\ conn.found[k] # NoAttr
        /\ link.phase \in {"up", "closing"} /\ link.handle = conn.handle
        => conn.found[k] = <<link.camera, k>>

\* start_scan, which forgets the connection, never runs to its end while a
\* camera is linked or being linked: no path of the two threads through the
\* error branches starts a scan over a live connection.
ScanOnlyUnlinked ==
    scanning => link.phase = "down" /\ conn.handle = NoHandle

\* The client is told Ready only when the connection still stands and all four
\* attributes were found on it, however the app thread interferes with the
\* chain of operations.  (A handler may outlive sony_transport_stop.)
ReadyMeansUsable ==
    [][ state # "Ready" /\ state' = "Ready" /\ started
        => conn.handle # NoHandle /\ \A k \in Kinds : conn.found[k] # NoAttr ]_vars

\* When sony_transport_stop waits for the disconnection, the link it was
\* using is going down or gone, whatever the ble thread did since the handle
\* was tested.
StopHangsUp == at["app"] = "awaitDown" => link.phase \in {"closing", "down"}

\* No notification is lost: once every event is handled, the indicator shows
\* what the camera linked now last notified of its recording, from the moment
\* it was subscribed to, and whatever else it, an earlier camera or an earlier
\* link notified.
RecordingShown ==
    /\ started /\ at["ble"] = "idle" /\ inbox = <<>>
    /\ link.phase = "up" /\ told \notin {Unsubscribed, NothingYet}
    => recording = (told[3] = 32)
=============================================================================
