------------------------------ MODULE SonyRadio ------------------------------
(***************************************************************************)
(* What lies outside the repository and the Sony transport depends on: the *)
(* Bluetooth controller and GATT stack of the Flipper, and the camera.     *)
(* Everything here is modelled from how                                    *)
(* sony_a7_iv_remote/sony_transport_central.c uses it: the commands it     *)
(* issues, the results it tests and the events it handles.                 *)
(***************************************************************************)
EXTENDS SonyProtocol

CONSTANTS
    Cameras,    \* the Sony cameras in radio range
    NoCamera,   \* no camera seen yet
    Handles,    \* the connection handles, which the controller reuses
    NoHandle,   \* SONY_INVALID_HANDLE
    Notices,    \* what a camera may notify of its status, in bytes
    Faults,     \* what may go wrong (see FaultKinds)
    MaxEvents   \* bound on radio events waiting to be handled

FaultKinds ==
    { "refuse",            \* a command is refused although it could run
      "discoveryTimeout",  \* the discovery procedure ends by itself
      "terminationError",  \* a terminated discovery completes with an error
      "connectFails", "pairingFails", "notFound", "gattError", "linkLoss" }

ASSUME RadioAssumption ==
    /\ NoCamera \notin Cameras
    /\ NoHandle \notin Handles
    /\ Notices \subseteq Seq(Byte)
    /\ Faults \subseteq FaultKinds
    /\ MaxEvents \in Nat

VARIABLES
    gap, reported,  \* the GAP procedure, and the cameras it has reported
    advertising,    \* the Flipper's own advertising
    link,           \* the central link
    pairing, proc,  \* the pairing and the GATT procedure running on it
    inbox,          \* events not yet handled
    held,           \* camera: the buttons it holds pressed on this link
    sent,           \* camera: the last write, its button and attribute
    ack,            \* camera: its answer to that write
    told            \* camera: what it last notified of its recording, once
                    \* subscribed to

air    == <<gap, reported>>
peer   == <<link, pairing, proc>>
camera == <<held, sent, ack, told>>
radio  == <<air, advertising, peer, camera>>
-----------------------------------------------------------------------------
(* Attributes: <<c, k>> is the handle of attribute k in camera c.          *)

Kinds == {"service", "command", "status", "cccd"}
Attrs == Cameras \X Kinds
NoAttr == <<NoCamera, "none">>

\* The attribute each discovery operation looks for.
Seeks == [DiscoverService |-> "service", DiscoverCommand |-> "command",
          DiscoverStatus  |-> "status",  DiscoverCccd    |-> "cccd"]
Discoveries == DOMAIN Seeks
Operations == Discoveries \cup {"None", "EnableNotifications", "WriteButton"}

(* Events of the radio. *)
Advertisement(c, p)  == [type |-> "advertisement", camera |-> c, pairing |-> p]
ProcComplete(ok)     == [type |-> "procComplete", ok |-> ok]
Connected(ok, h)     == [type |-> "connected", ok |-> ok, handle |-> h]
Disconnected(h)      == [type |-> "disconnected", handle |-> h]
NumericComparison(h) == [type |-> "numericComparison", handle |-> h]
PairingComplete(h, ok) == [type |-> "pairingComplete", handle |-> h, ok |-> ok]
Result(h, a)         == [type |-> "result", handle |-> h, attr |-> a]
GattComplete(h, ok)  == [type |-> "gattComplete", handle |-> h, ok |-> ok]
Notification(h, a, n) ==
    [type |-> "notification", handle |-> h, attr |-> a, notice |-> n]

(* The radio appends events; the ble thread takes them in order. *)
Room(n) == Len(inbox) + n <= MaxEvents
Report(e) == Room(1) /\ inbox' = Append(inbox, e)

NoButton == [control |-> "ShutterHalf", down |-> FALSE]
NoLink == [phase |-> "down", camera |-> NoCamera, handle |-> NoHandle]

\* What a camera has told of its recording before it notifies it.
Unsubscribed == <<>>
NothingYet   == <<0>>
RecordingNotice(n) == IsStatus(n) /\ Status(n).type = "Recording"

RadioInit ==
    /\ gap = "idle" /\ reported = {} /\ advertising = TRUE
    /\ link = NoLink /\ pairing = "none" /\ proc = "None" /\ inbox = <<>>
    /\ held = {} /\ ack = "none" /\ told = Unsubscribed
    /\ sent = [button |-> NoButton, attr |-> NoAttr]
-----------------------------------------------------------------------------
(* Commands: when the controller can accept them, and what they start.     *)
(* It runs one GAP procedure at a time (establishing a link is one), has   *)
(* one central link, and runs one GATT procedure on it.                    *)

CanDiscover == gap = "idle" /\ link.phase # "connecting"
CanConnect  == gap = "idle" /\ link.phase = "down"
Linked(h)   == link.phase = "up" /\ link.handle = h
CanPair(h)  == Linked(h) /\ pairing = "none"
CanGatt(h)  == Linked(h) /\ proc = "None"

\* A new discovery forgets which cameras the duplicate filter let through.
BeginDiscovery ==
    /\ gap' = "discovery" /\ reported' = {}
    /\ UNCHANGED <<advertising, peer, camera>>

EndDiscovery ==
    /\ gap' = IF gap = "discovery" THEN "ending" ELSE gap
    /\ UNCHANGED <<reported, advertising, peer, camera>>

BeginConnection(c) ==
    /\ link' = [phase |-> "connecting", camera |-> c, handle |-> NoHandle]
    /\ UNCHANGED <<air, advertising, pairing, proc, camera>>

EndConnection(h) ==
    /\ link' = IF Linked(h) THEN [link EXCEPT !.phase = "closing"] ELSE link
    /\ UNCHANGED <<air, advertising, pairing, proc, camera>>

BeginPairing ==
    /\ pairing' = "running"
    /\ UNCHANGED <<air, advertising, link, proc, camera>>

ConfirmPairing(h) ==
    /\ pairing' = IF pairing = "asked" /\ Linked(h) THEN "confirmed" ELSE pairing
    /\ UNCHANGED <<air, advertising, link, proc, camera>>

BeginGatt(op) ==
    /\ proc' = op
    /\ UNCHANGED <<air, advertising, link, pairing, camera>>

BeginWrite(b, attr) ==
    /\ proc' = "WriteButton"
    /\ sent' = [button |-> b, attr |-> attr]
    /\ ack' = "pending"
    /\ UNCHANGED <<air, advertising, link, pairing, held, told>>

SetAdvertising(on) ==
    /\ advertising' = on
    /\ UNCHANGED <<air, peer, camera>>
-----------------------------------------------------------------------------
(* What the radio and the camera do.                                       *)

\* The duplicate filter reports each camera once in a discovery.
Advertise(c, p) ==
    /\ gap = "discovery" /\ c \notin reported
    /\ Report(Advertisement(c, p))
    /\ reported' = reported \cup {c}
    /\ UNCHANGED <<gap, advertising, peer, camera>>

DiscoveryTimeout ==
    /\ "discoveryTimeout" \in Faults
    /\ gap = "discovery"
    /\ gap' = "idle"
    /\ Report(ProcComplete(TRUE))
    /\ UNCHANGED <<reported, advertising, peer, camera>>

DiscoveryEnds(ok) ==
    /\ ok \/ "terminationError" \in Faults
    /\ gap = "ending"
    /\ gap' = "idle"
    /\ Report(ProcComplete(ok))
    /\ UNCHANGED <<reported, advertising, peer, camera>>

LinkUp(h) ==
    /\ link.phase = "connecting"
    /\ link' = [link EXCEPT !.phase = "up", !.handle = h]
    /\ Report(Connected(TRUE, h))
    /\ held' = {} /\ told' = Unsubscribed
    /\ UNCHANGED <<air, advertising, pairing, proc, sent, ack>>

ConnectFails ==
    /\ "connectFails" \in Faults
    /\ link.phase = "connecting"
    /\ link' = NoLink
    /\ Report(Connected(FALSE, NoHandle))
    /\ UNCHANGED <<air, advertising, pairing, proc, camera>>

PairAsks ==
    /\ link.phase = "up" /\ pairing = "running"
    /\ pairing' = "asked"
    /\ Report(NumericComparison(link.handle))
    /\ UNCHANGED <<air, advertising, link, proc, camera>>

PairFinishes(ok) ==
    /\ link.phase = "up"
    /\ \/ ok /\ pairing = "confirmed"
       \/ ~ok /\ pairing # "none" /\ "pairingFails" \in Faults
    /\ pairing' = "none"
    /\ Report(PairingComplete(link.handle, ok))
    /\ UNCHANGED <<air, advertising, link, proc, camera>>

\* A discovery procedure reports what it found, then completes.
DiscoverySucceeds ==
    /\ link.phase = "up" /\ proc \in Discoveries
    /\ Room(2)
    /\ inbox' = inbox \o <<Result(link.handle, <<link.camera, Seeks[proc]>>),
                          GattComplete(link.handle, TRUE)>>
    /\ proc' = "None"
    /\ UNCHANGED <<air, advertising, link, pairing, camera>>

DiscoveryFindsNothing ==
    /\ "notFound" \in Faults
    /\ link.phase = "up" /\ proc \in Discoveries
    /\ proc' = "None"
    /\ Report(GattComplete(link.handle, TRUE))
    /\ UNCHANGED <<air, advertising, link, pairing, camera>>

EnablingSucceeds ==
    /\ link.phase = "up" /\ proc = "EnableNotifications"
    /\ proc' = "None"
    /\ told' = NothingYet
    /\ Report(GattComplete(link.handle, TRUE))
    /\ UNCHANGED <<air, advertising, link, pairing, held, sent, ack>>

\* The camera presses or releases the button, and answers.
WriteSucceeds ==
    /\ link.phase = "up" /\ proc = "WriteButton"
    /\ sent.attr = <<link.camera, "command">>
    /\ held' = IF sent.button.down THEN held \cup {sent.button.control}
                                   ELSE held \ {sent.button.control}
    /\ ack' = "ok"
    /\ proc' = "None"
    /\ Report(GattComplete(link.handle, TRUE))
    /\ UNCHANGED <<air, advertising, link, pairing, sent, told>>

GattFails ==
    /\ \/ "gattError" \in Faults
       \/ proc = "WriteButton" /\ sent.attr # <<link.camera, "command">>
    /\ link.phase = "up" /\ proc # "None"
    /\ ack' = IF proc = "WriteButton" THEN "error" ELSE ack
    /\ proc' = "None"
    /\ Report(GattComplete(link.handle, FALSE))
    /\ UNCHANGED <<air, advertising, link, pairing, held, sent, told>>

Notify(n) ==
    /\ link.phase = "up" /\ told # Unsubscribed
    /\ told' = IF RecordingNotice(n) THEN n ELSE told
    /\ Report(Notification(link.handle, <<link.camera, "status">>, n))
    /\ UNCHANGED <<air, advertising, peer, held, sent, ack>>

LinkDown ==
    /\ link.phase = "closing" \/ (link.phase = "up" /\ "linkLoss" \in Faults)
    /\ link' = NoLink /\ pairing' = "none" /\ proc' = "None"
    /\ Report(Disconnected(link.handle))
    /\ UNCHANGED <<air, advertising, camera>>

Radio ==
    \/ \E c \in Cameras, p \in BOOLEAN : Advertise(c, p)
    \/ DiscoveryTimeout
    \/ \E ok \in BOOLEAN : DiscoveryEnds(ok) \/ PairFinishes(ok)
    \/ \E h \in Handles : LinkUp(h)
    \/ ConnectFails \/ PairAsks \/ LinkDown

Camera ==
    \/ DiscoverySucceeds \/ DiscoveryFindsNothing \/ EnablingSucceeds
    \/ WriteSucceeds \/ GattFails
    \/ \E n \in Notices : Notify(n)

-----------------------------------------------------------------------------
Link ==
    [phase : {"down", "connecting", "up", "closing"},
     camera : Cameras \cup {NoCamera}, handle : Handles \cup {NoHandle}]
Event ==
    [type : {"advertisement"}, camera : Cameras, pairing : BOOLEAN]
    \cup [type : {"procComplete"}, ok : BOOLEAN]
    \cup [type : {"connected"}, ok : {TRUE}, handle : Handles]
    \cup [type : {"connected"}, ok : {FALSE}, handle : {NoHandle}]
    \cup [type : {"disconnected", "numericComparison"}, handle : Handles]
    \cup [type : {"pairingComplete", "gattComplete"}, handle : Handles, ok : BOOLEAN]
    \cup [type : {"result"}, handle : Handles, attr : Attrs]
    \cup [type : {"notification"}, handle : Handles, attr : Attrs,
          notice : Notices]

RadioTypeOK ==
    /\ gap \in {"idle", "discovery", "ending"} /\ reported \subseteq Cameras
    /\ advertising \in BOOLEAN
    /\ link \in Link /\ pairing \in {"none", "running", "asked", "confirmed"}
    /\ proc \in Operations
    /\ inbox \in Seq(Event)
    /\ held \subseteq Controls
    /\ sent \in [button : Button, attr : Attrs \cup {NoAttr}]
    /\ ack \in {"none", "pending", "ok", "error"}
    /\ told \in {Unsubscribed, NothingYet} \cup Notices
=============================================================================
