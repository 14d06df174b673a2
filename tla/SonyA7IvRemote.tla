--------------------------- MODULE SonyA7IvRemote ---------------------------
(***************************************************************************)
(* The Sony A7 IV remote (sony_a7_iv_remote/sony_a7_iv_remote.c): the app  *)
(* thread takes keys from its input queue and turns each into the button   *)
(* commands of one press, sent one after the other with SonyTransport.     *)
(* Keys that change nothing (other keys, other event types, any key while  *)
(* the camera is not ready) are stuttering steps.                          *)
(***************************************************************************)
EXTENDS SonyTransport

Cmd(c, d) == [control |-> c, down |-> d]

\* Mutant: the half-press is never released.
ShutterWithoutHalfUp ==
    << Cmd("ShutterHalf", TRUE),  Cmd("ShutterFull", TRUE),
       Cmd("ShutterFull", FALSE), Cmd("ShutterFull", FALSE) >>

Shutter == << Cmd("ShutterHalf", TRUE),  Cmd("ShutterFull", TRUE),
              Cmd("ShutterHalf", FALSE), Cmd("ShutterFull", FALSE) >>
Record == << Cmd("Record", TRUE), Cmd("Record", FALSE) >>

CONSTANT Presses    \* the presses the user makes: {Shutter, Record}, or fewer

ASSUME PressesAssumption ==
    /\ Presses \subseteq {Shutter, Record}
    /\ \A s \in Presses : \A i \in 1..Len(s) : s[i] \in Buttons

VARIABLES
    task,       \* handle_input: "idle", about to "send", or back from a send
    todo,       \* the commands of the press not known to be delivered
    relinked    \* history: this link came up in the middle of a press

app == <<task, todo, relinked>>
appVars == <<vars, app>>

AppInit == Init /\ task = "idle" /\ todo = <<>> /\ relinked = FALSE
-----------------------------------------------------------------------------
\* The state is read once; it is not looked at again during the press.
Press(sequence) ==
    /\ at["app"] = "loop" /\ task = "idle"
    /\ state = "Ready"
    /\ task' = "send" /\ todo' = sequence
    /\ UNCHANGED <<vars, relinked>>

SendNext ==
    /\ task = "send"
    /\ SendButton(Head(todo)) \/ SendDeclined(Head(todo))
    /\ task' = "sent"
    /\ UNCHANGED <<todo, relinked>>

\* Mutant: the loop runs once too often.
SentOnceMore ==
    /\ at["app"] = "loop" /\ task = "sent" /\ result
    /\ todo' = Tail(todo)
    /\ task' = "send"
    /\ UNCHANGED <<vars, relinked>>

\* Delivered: on with the rest after 12 ms, or done.
Sent ==
    /\ at["app"] = "loop" /\ task = "sent" /\ result
    /\ todo' = Tail(todo)
    /\ task' = IF Tail(todo) = <<>> THEN "idle" ELSE "send"
    /\ UNCHANGED <<vars, relinked>>

\* Mutant: the press goes on after a command that was not delivered.
NotSentGoesOn ==
    /\ task = "sent" /\ ~result
    /\ ReportError
    /\ todo' = Tail(todo)
    /\ task' = IF Tail(todo) = <<>> THEN "idle" ELSE "send"
    /\ UNCHANGED relinked

\* The rest of the press is dropped.
NotSent ==
    /\ task = "sent" /\ ~result
    /\ ReportError
    /\ task' = "idle" /\ todo' = <<>>
    /\ UNCHANGED relinked

BackHeld == task = "idle" /\ Stop /\ UNCHANGED app

Calls == (StartCall \/ SendCall \/ StopCall) /\ UNCHANGED app

HandleInput == (\E s \in Presses : Press(s)) \/ SendNext \/ Sent \/ NotSent

\* What is left of a press once send_button has returned and its result is
\* known, and before handle_input has acted on it.
Remaining ==
    IF at["app"] = "loop" /\ task = "sent"
    THEN IF result THEN Tail(todo) ELSE <<>>
    ELSE todo

Outside ==
    /\ Environment
    /\ relinked' = IF link.phase # "up" /\ link'.phase = "up"
                   THEN Remaining # <<>> ELSE relinked
    /\ UNCHANGED <<task, todo>>

AppNext ==
    \/ HandleInput \/ BackHeld \/ Calls
    \/ (BleThread \/ Exited) /\ UNCHANGED app
    \/ Outside

AppSpec == AppInit /\ [][AppNext]_appVars

(* Fairness: both threads keep running and every wait of the app thread ends *)
(* (with a timeout if nothing else); the user owes nothing.  The controller  *)
(* ends a discovery it is told to end and a link it is told to close, and a  *)
(* camera that is linked answers, or reports that it failed.  A connection   *)
(* that was requested need not come up: aci_gap_create_connection has no     *)
(* timeout, nothing cancels it, and the camera may have gone.                *)
Does(action) == Outside /\ action
Fairness ==
    /\ WF_appVars(BleThread /\ UNCHANGED app)
    /\ WF_appVars(Calls)
    /\ WF_appVars(SendNext \/ Sent \/ NotSent)
    /\ WF_appVars(Does(DiscoveryEnds(TRUE)))
    /\ WF_appVars(Does(PairAsks))
    /\ WF_appVars(Does(\E ok \in BOOLEAN : PairFinishes(ok)))
    /\ WF_appVars(Does(DiscoverySucceeds \/ EnablingSucceeds \/ WriteSucceeds))
    /\ WF_appVars(Does(link.phase = "closing" /\ LinkDown))

\* The cameras stay in range: they advertise, and a link to one comes up.
InRange ==
    /\ WF_appVars(Does(\E c \in Cameras, p \in BOOLEAN : Advertise(c, p)))
    /\ WF_appVars(Does(\E h \in Handles : LinkUp(h)))

FairAppSpec == AppSpec /\ Fairness
InRangeSpec == FairAppSpec /\ InRange
-----------------------------------------------------------------------------
(* Properties.                                                             *)

AppTypeOK ==
    /\ TypeOK
    /\ task \in {"idle", "send", "sent"}
    /\ todo \in Seq(Buttons)
    /\ (task = "idle") = (todo = <<>>)
    /\ relinked \in BOOLEAN

\* A button write in flight addresses the command attribute of the camera that
\* is linked: the handle tested before the write is not stale when it is used,
\* unless the link was replaced in the middle of the press.
WriteReachesCamera ==
    proc = "WriteButton" /\ ~relinked => sent.attr = <<link.camera, "command">>

\* A press whose last command was delivered leaves no button held.
PressLeavesNothingHeld ==
    task = "idle" /\ result /\ ~relinked => held = {}

\* The app keeps the promise of ButtonDelivery: commands reach the camera in
\* order and at most once, and send_button returns true only for one that did:
\* neither the late completion of a write given up earlier, nor a disconnection,
\* nor the flag left by either is taken for its success.  One given up may
\* arrive late, but never after a command of a later press.
Waiting == at["app"] \in {"wait", "woken"}
Delivery == INSTANCE ButtonDelivery WITH
    todo <- Remaining,
    got <- Waiting /\ ack = "ok",
    late <- IF proc = "WriteButton" /\ ~Waiting THEN {sent.button} ELSE {}
DeliversButtons == Delivery!Spec

\* The shutter is released only while the camera is focusing, whatever is
\* dropped, late or given up.  (ButtonDeliveryProofs: it follows from the promise.)
FocusBeforeShutter == Delivery!FocusBeforeShutter

\* The chain advertisement, connection, pairing, discovery never gets stuck on
\* the way: the state shown leaves Connecting, Pairing and Discovering, whatever
\* step of it fails and whenever the link breaks.  Two things are excepted, both
\* of which the code has no answer to: a connection that was requested and never
\* comes up, and a link that came up in the middle of a press (relinked), whose
\* next command may take the operation from the chain.
Attempting == state \in {"Connecting", "Pairing", "Discovering"}
Requested == link.phase = "connecting"
AttemptSettles ==
    Attempting ~> (~Attempting \/ stopping \/ relinked \/ []Requested)

(* What the repository says and the code does not do.                      *)

\* "Scanning for camera" (sony_a7_iv_remote_state_text) is shown, once both
\* threads are at rest, only while a discovery runs.
ScanningMeansDiscovering ==
    /\ state = "Scanning"
    /\ at = [app |-> "loop", ble |-> "idle"] /\ inbox = <<>>
    => gap = "discovery"

\* "the app scans for a Sony camera, pairs if the camera is in pairing mode,
\* discovers the remote service" (README): with a camera in range and nothing
\* failing, the app gets ready unless the user leaves first.
CameraEventuallyServed == <>(state = "Ready" \/ stopping)
=============================================================================
