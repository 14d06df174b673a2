------------------------ MODULE SonyA7IvRemoteProofs ------------------------
(* Proofs about SonyA7IvRemote: it keeps the promise of ButtonDelivery, for *)
(* every value of its constants, if the radio does not end a discovery by   *)
(* itself.                                                                  *)
EXTENDS SonyA7IvRemote, SonyTransportProofs

Promise == INSTANCE ButtonDeliveryProofs WITH
    todo <- Remaining,
    got <- Waiting /\ ack = "ok",
    late <- IF proc = "WriteButton" /\ ~Waiting THEN {sent.button} ELSE {}

\* The presses of the app are such as ButtonDelivery assumes.
LEMMA PressesFocus ==
    /\ Presses \subseteq Seq(Promise!Button)
    /\ \A s \in Presses : Promise!FocusFirst(s)
<1> USE DEF Cmd, Promise!FullDown, Promise!HalfDown
<1>1. Shutter \in Seq(Promise!Button) /\ Len(Shutter) = 4
  BY DEF Shutter, Promise!Button, Promise!Controls
<1>2. Record \in Seq(Promise!Button) /\ Len(Record) = 2
  BY DEF Record, Promise!Button, Promise!Controls
<1>3. \A i \in 1..4 : Shutter[i] = Promise!FullDown => i = 2
  BY DEF Shutter
<1>4. Shutter[1] = Promise!HalfDown
  BY DEF Shutter
<1>5. \A i \in 1..2 : Record[i] # Promise!FullDown
  BY DEF Record
<1>6. Promise!FocusFirst(Shutter) /\ Promise!FocusFirst(Record)
  BY <1>1, <1>2, <1>3, <1>4, <1>5 DEF Promise!FocusFirst
<1> QED
  BY <1>1, <1>2, <1>6, PressesAssumption

\* The app never releases the shutter without focusing, if it keeps its promise:
\* what ButtonDeliveryProofs shows of any presses that focus first, for its own.
LEMMA Focuses == DeliversButtons => FocusBeforeShutter
<1>1. Promise!Spec => Promise!FocusBeforeShutter
  BY PressesFocus, Promise!FocusesFirst
<1>2. Delivery!Init <=> Promise!Init
  BY DEF Delivery!Init, Promise!Init
<1>3. Delivery!Next <=> Promise!Next
  BY DEF Delivery!Next, Promise!Next, Delivery!Press, Promise!Press, Delivery!Arrive, Promise!Arrive, Delivery!Confirm, Promise!Confirm, Delivery!GiveUp, Promise!GiveUp, Delivery!ArriveLate, Promise!ArriveLate, Delivery!LoseLate, Promise!LoseLate, Delivery!Reconnect, Promise!Reconnect, Delivery!After, Promise!After, Delivery!Leave, Promise!Leave
<1>4. (UNCHANGED Delivery!vars) <=> UNCHANGED Promise!vars
  BY DEF Delivery!vars, Promise!vars
<1> QED
  BY <1>1, <1>2, <1>3, <1>4, PTL DEF DeliversButtons, FocusBeforeShutter, Promise!Spec, Delivery!Spec, Promise!FocusBeforeShutter, Delivery!FocusBeforeShutter
-----------------------------------------------------------------------------
(* The invariant.                                                          *)

\* Where handle_input is in its press, and where the app thread is.
Sending == at["app"] \in {"arm", "claim", "write", "wait", "woken"}
TaskInv ==
    /\ task \in {"idle", "send", "sent"} /\ todo \in Seq(Buttons) /\ relinked \in BOOLEAN
    /\ task = "idle" <=> todo = <<>>
    /\ task = "send" => at["app"] = "loop"
    /\ task = "sent" => Sending \/ at["app"] = "loop"
    /\ Sending => task = "sent" /\ button = Head(todo)
    /\ task # "idle" => started /\ ~stopping

\* A write in flight is unanswered; the one awaited is of the command to deliver.
WriteInv ==
    /\ proc = "WriteButton" => ack = "pending"
    /\ Waiting => sent.button = Head(todo)
    /\ at["ble"] = "request" => current \notin {"None", "WriteButton"}

\* What completions wait in the inbox.
GattDone == \E i \in Positions : inbox[i].type = "gattComplete"
GattDoneWell == \E i \in Positions : inbox[i].type = "gattComplete" /\ inbox[i].ok
DoneOnce == \A i, j \in Positions : Completion(inbox[i]) /\ Completion(inbox[j]) => i = j
Reconnected == \E i \in Positions : inbox[i].type = "connected" /\ inbox[i].ok

\* One procedure at a time is under way or completed and not yet handled.
OneAtATime ==
    /\ DoneOnce
    /\ ~Idle \/ at["ble"] \in {"pair", "request", "completed"} => ~GattDone /\ ~PairDone
    /\ at["ble"] \in {"pair", "request", "completed"} => Idle
    /\ proc = "None" \/ pairing = "none"

\* The camera is being set up, and no press is under way ...
Setup ==
    /\ state # "Ready" /\ Remaining = <<>>
    /\ at["ble"] = "completed" => conn.operation = "None"
    /\ at["ble"] = "request" => conn.operation = current

\* ... or it is served, and all that completes are writes.
Calm ==
    /\ pairing = "none" /\ proc \in {"None", "WriteButton"} /\ ~PairDone
    /\ at["ble"] = "idle"
    /\ proc # "None" \/ GattDone =>
          conn.operation = "WriteButton" /\ at["app"] \notin {"arm", "claim", "write"}
    /\ at["app"] = "write" => conn.operation = "WriteButton" /\ ~conn.written
    /\ Waiting => /\ GattDoneWell => ack = "ok"
                  /\ conn.written => ack = "ok" /\ proc = "None"

PressInv ==
    /\ at["app"] = "off" => state # "Ready"
    /\ started /\ ~stopping =>
          /\ state = "Ready" => conn.handle # NoHandle
          /\ ~relinked /\ conn.handle # NoHandle => OneAtATime /\ (Setup \/ Calm)
          /\ ~relinked /\ Reconnected => Remaining = <<>>

AppInv == SearchInv /\ ChainInv /\ TaskInv /\ WriteInv /\ PressInv
-----------------------------------------------------------------------------
(* Completions in the inbox.                                               *)

LEMMA DoneSame ==
    ASSUME inbox' = inbox
    PROVE  /\ GattDone' <=> GattDone
           /\ GattDoneWell' <=> GattDoneWell
           /\ PairDone' <=> PairDone
           /\ DoneOnce' <=> DoneOnce
           /\ Reconnected' <=> Reconnected
  BY DEF GattDone, GattDoneWell, PairDone, DoneOnce, Reconnected, Completion, Positions

LEMMA DoneTaken ==
    ASSUME inbox \in Seq(Event), inbox # <<>>, inbox' = Tail(inbox)
    PROVE  /\ GattDone' => GattDone
           /\ GattDoneWell' => GattDoneWell
           /\ PairDone' => PairDone
           /\ Reconnected' => Reconnected
           /\ DoneOnce => DoneOnce'
           /\ Completion(Head(inbox)) /\ DoneOnce => ~GattDone' /\ ~PairDone'
           /\ Head(inbox).type = "gattComplete" =>
                 GattDone /\ (Head(inbox).ok => GattDoneWell)
           /\ Head(inbox).type = "pairingComplete" => PairDone
           /\ Head(inbox).type = "connected" /\ Head(inbox).ok => Reconnected
<1> USE TakeShifts
<1>1. \A i \in Positions' : \E j \in Positions : inbox'[i] = inbox[j]
  OBVIOUS
<1>2. GattDone' => GattDone
  BY <1>1 DEF GattDone
<1>3. GattDoneWell' => GattDoneWell
  BY <1>1 DEF GattDoneWell
<1>4. PairDone' => PairDone
  BY <1>1 DEF PairDone
<1>5. Reconnected' => Reconnected
  BY <1>1 DEF Reconnected
<1>6. DoneOnce => DoneOnce'
  BY DEF DoneOnce, Completion, Positions
<1>7. Completion(Head(inbox)) /\ DoneOnce => ~GattDone' /\ ~PairDone'
  BY DEF DoneOnce, Completion, GattDone, PairDone, Positions
<1>8. /\ Head(inbox).type = "gattComplete" =>
            GattDone /\ (Head(inbox).ok => GattDoneWell)
      /\ Head(inbox).type = "pairingComplete" => PairDone
      /\ Head(inbox).type = "connected" /\ Head(inbox).ok => Reconnected
  BY DEF GattDone, GattDoneWell, PairDone, Reconnected
<1> QED
  BY <1>6, <1>7, <1>8, <1>2, <1>3, <1>4, <1>5

LEMMA DoneAdded ==
    ASSUME inbox \in Seq(Event), NEW e \in Event, inbox' = Append(inbox, e)
    PROVE  /\ GattDone' <=> GattDone \/ e.type = "gattComplete"
           /\ GattDoneWell' <=> GattDoneWell \/ (e.type = "gattComplete" /\ e.ok)
           /\ PairDone' <=> PairDone \/ e.type = "pairingComplete"
           /\ Reconnected' <=> Reconnected \/ (e.type = "connected" /\ e.ok)
           /\ DoneOnce /\ (Completion(e) => ~GattDone /\ ~PairDone) => DoneOnce'
<1>1. /\ Len(inbox) \in Nat /\ Len(inbox') = Len(inbox) + 1
      /\ \A i \in 1..Len(inbox) : inbox'[i] = inbox[i]
      /\ inbox'[Len(inbox) + 1] = e
  OBVIOUS
<1>2. GattDone' <=> GattDone \/ e.type = "gattComplete"
  BY <1>1 DEF GattDone, Positions
<1>3. GattDoneWell' <=> GattDoneWell \/ (e.type = "gattComplete" /\ e.ok)
  BY <1>1 DEF GattDoneWell, Positions
<1>4. PairDone' <=> PairDone \/ e.type = "pairingComplete"
  BY <1>1 DEF PairDone, Positions
<1>5. Reconnected' <=> Reconnected \/ (e.type = "connected" /\ e.ok)
  BY <1>1 DEF Reconnected, Positions
<1>6. DoneOnce /\ (Completion(e) => ~GattDone /\ ~PairDone) => DoneOnce'
  BY <1>1 DEF DoneOnce, GattDone, PairDone, Completion, Positions
<1> QED
  BY <1>2, <1>3, <1>4, <1>5, <1>6

\* What a discovery that succeeds reports.
LEMMA FoundAdded ==
    ASSUME inbox \in Seq(Event), NEW r \in Event, NEW g \in Event,
           r.type = "result", g.type = "gattComplete", inbox' = inbox \o <<r, g>>
    PROVE  /\ PairDone' <=> PairDone
           /\ Reconnected' <=> Reconnected
           /\ DoneOnce /\ ~GattDone /\ ~PairDone => DoneOnce'
<1>1. /\ Len(inbox) \in Nat /\ Len(inbox') = Len(inbox) + 2
      /\ \A i \in 1..Len(inbox) : inbox'[i] = inbox[i]
      /\ inbox'[Len(inbox) + 1] = r /\ inbox'[Len(inbox) + 2] = g
  <2>1. <<r, g>> \in Seq(Event) /\ Len(<<r, g>>) = 2 /\ <<r, g>>[1] = r /\ <<r, g>>[2] = g
    OBVIOUS
  <2> QED
    BY <2>1
<1>2. \A i \in Positions' : i \in Positions \/ i = Len(inbox) + 1 \/ i = Len(inbox) + 2
  BY <1>1 DEF Positions
<1>3. \A i \in Positions : i \in Positions' /\ inbox'[i] = inbox[i]
  BY <1>1 DEF Positions
<1>4. PairDone' <=> PairDone
  BY <1>1, <1>2, <1>3 DEF PairDone
<1>5. Reconnected' <=> Reconnected
  BY <1>1, <1>2, <1>3 DEF Reconnected
<1>6. ASSUME ~GattDone, ~PairDone PROVE DoneOnce'
  <2>1. \A i \in Positions' : Completion(inbox'[i]) => i = Len(inbox) + 2
    BY <1>1, <1>2, <1>3, <1>6 DEF GattDone, PairDone, Completion
  <2> QED
    BY <2>1 DEF DoneOnce, Completion
<1> QED
  BY <1>4, <1>5, <1>6

\* With a handle there is no connection to learn of; without, nothing completes.
LEMMA AwareOf ==
    ASSUME TypeInv, EpochInv, started
    PROVE  /\ conn.handle # NoHandle => ~Reconnected
           /\ conn.handle = NoHandle => Idle /\ ~GattDone /\ ~PairDone
<1>1. ASSUME Aware PROVE ~Reconnected
  BY <1>1 DEF Aware, Gone, Reconnected, NoLinkEvent, Only, LinkEvent
<1>2. ASSUME Unaware PROVE Idle /\ ~GattDone /\ ~PairDone
  BY <1>2 DEF Unaware, Silent, Completion, GattDone, PairDone
<1> QED
  BY <1>1, <1>2 DEF EpochInv
-----------------------------------------------------------------------------
(* Every step of the app is one of the transport.                          *)

LEMMA AppStepIsStep ==
    ASSUME todo \in Seq(Buttons), task = "send" => todo # <<>>, [AppNext]_appVars
    PROVE  [Next]_vars
<1>1. task = "send" => Head(todo) \in Buttons
  OBVIOUS
<1>2. SendNext => Next
  BY <1>1 DEF SendNext, Next, AppThread, Client
<1>3. NotSent \/ BackHeld \/ Calls => Next
  BY DEF NotSent, BackHeld, Calls, Next, AppThread, Client
<1>4. (BleThread \/ Exited) \/ Outside => Next
  BY DEF Outside, Next, AppThread
<1>5. (\E s \in Presses : Press(s)) \/ Sent => UNCHANGED vars
  BY DEF Press, Sent
<1>6. UNCHANGED appVars => UNCHANGED vars
  BY DEF appVars
<1> QED
  BY <1>2, <1>3, <1>4, <1>5, <1>6 DEF AppNext, HandleInput

\* What the ble thread never touches.
LEMMA BleFrame ==
    ASSUME TypeInv, BleThread
    PROVE  at'["app"] = at["app"] /\ UNCHANGED <<started, stopping, call, camera>>
<1> USE DEF Home, software, Goto, Step, session, search, device, data, call, radio, air, peer,
        camera, TypeInv, TypeOK, ControlTypeOK, AtOK
<1>1. CASE StartScan("ble")
  BY <1>1 DEF StartScan, ScanDeclined, ScanChecked, ScanAccepted, ScanRefused, ScanFlagged,
     ScanShown, BeginDiscovery
<1>2. CASE \/ Drop \/ HandleAdvertisingReport \/ TerminateAccepted \/ TerminateRefused
           \/ HandleGapComplete \/ HandleGapFailure \/ HandleConnectionFailure
           \/ HandleConnectedPairing \/ HandleConnected \/ HandleDisconnected
  BY <1>2 DEF Drop, HandleAdvertisingReport, TerminateAccepted, TerminateRefused,
     HandleGapComplete, HandleGapFailure, HandleConnectionFailure, HandleConnectedPairing,
     HandleConnected, HandleDisconnected, EndDiscovery, BeginConnection
<1>3. CASE \/ PairingRequested \/ PairingRefused \/ HandleNumericComparison
           \/ HandlePairingFailure \/ HandlePairingComplete
           \/ RequestAccepted \/ RequestRefused
  BY <1>3 DEF PairingRequested, PairingRefused, HandleNumericComparison,
     HandlePairingFailure, HandlePairingComplete, RequestAccepted, RequestRefused,
     BeginPairing, ConfirmPairing, BeginGatt
<1>4. CASE \/ HandleResult \/ HandleWriteComplete \/ HandleGattFailure
           \/ HandleGattComplete \/ DiscoveredNext \/ DiscoveredNothing
           \/ NotificationsEnabled \/ HandleNotification
  BY <1>4 DEF HandleResult, HandleWriteComplete, HandleGattFailure, HandleGattComplete,
     DiscoveredNext, DiscoveredNothing, NotificationsEnabled, HandleNotification
<1> QED
  BY <1>1, <1>2, <1>3, <1>4 DEF BleThread

LEMMA ElementsIn ==
    ASSUME NEW S, NEW T, NEW s \in Seq(S), \A i \in 1..Len(s) : s[i] \in T
    PROVE  s \in Seq(T)
  OBVIOUS

LEMMA PressesAreCommands == \A s \in Presses : s \in Seq(Buttons) /\ s # <<>>
<1> SUFFICES ASSUME NEW s \in Presses PROVE s \in Seq(Buttons) /\ s # <<>>
  OBVIOUS
<1>1. s \in Seq(Promise!Button)
  BY PressesFocus
<1>2. \A i \in 1..Len(s) : s[i] \in Buttons
  BY PressesAssumption
<1>3. Len(Shutter) = 4 /\ Len(Record) = 2
  BY DEF Shutter, Record
<1>4. Len(s) # 0
  BY <1>3, PressesAssumption
<1> QED
  BY <1>1, <1>2, <1>4, ElementsIn

LEMMA TaskStep == ASSUME SearchInv, TaskInv, [AppNext]_appVars PROVE TaskInv'
<1> USE DEF TaskInv, Sending, app
<1>0. at \in [{"app", "ble"} -> AppLabels \cup BleLabels]
  BY DEF SearchInv, TypeInv, TypeOK, ControlTypeOK, AtOK
<1>1. ASSUME NEW s \in Presses, Press(s) PROVE TaskInv'
  <2>1. s \in Seq(Buttons) /\ s # <<>>
    BY PressesAreCommands
  <2>2. started /\ ~stopping
    BY <1>1 DEF Press, SearchInv, LinkageInv, HangInv, GapInv, Leaving
  <2> QED
    BY <1>0, <1>1, <2>1, <2>2 DEF Press, vars, software, data, device, session, call
<1>2. CASE SendNext
  <2>1. UNCHANGED <<started, stopping, todo, relinked>> /\ task = "send" /\ task' = "sent"
    BY <1>2 DEF SendNext, SendButton, SendDeclined, device, session
  <2>2. button' = Head(todo) /\ at'["app"] \in {"loop", "arm"}
    BY <1>0, <1>2 DEF SendNext, SendButton, SendDeclined, Step, Goto
  <2> QED
    BY <2>1, <2>2
<1>3. CASE Sent
  <2>1. Tail(todo) \in Seq(Buttons)
    BY <1>3 DEF Sent
  <2> QED
    BY <1>0, <1>3, <2>1 DEF Sent, vars, software, data, device, session, call
<1>4. CASE NotSent
  <2>1. <<>> \in Seq(Buttons)
    OBVIOUS
  <2> QED
    BY <1>0, <1>4, <2>1 DEF NotSent, ReportError, device, session
<1>5. CASE BackHeld
  BY <1>0, <1>5 DEF BackHeld, Stop, Step, Goto, session, search, call
<1>6. CASE Calls
  <2>1. CASE StartCall
    BY <1>0, <1>6, <2>1 DEF Calls, StartCall, Start, StopAdvertising, StartScan, ScanDeclined,
       ScanChecked, ScanAccepted, ScanRefused, ScanFlagged, ScanShown, Home, Step, Goto, data,
       device, session, call
  <2>2. CASE SendCall
    BY <1>0, <1>6, <2>2 DEF Calls, SendCall, Arm, Claim, WriteAccepted, WriteRefused, Woken,
       SendReturns, SendTimeout, Step, Goto, data, device, session, call
  <2>3. CASE StopCall
    BY <1>0, <1>6, <2>3 DEF Calls, StopCall, StopScan, StopScanFlag, StopNoScan, StopLink,
       StopNoLink, HangUp, AwaitDown, Unregister, Release, Step, Goto, data, device, session,
       call
  <2> QED
    BY <1>6, <2>1, <2>2, <2>3 DEF Calls
<1>7. CASE BleThread /\ UNCHANGED app
  BY <1>7, BleFrame DEF call, SearchInv
<1>8. CASE Exited /\ UNCHANGED app
  BY <1>8 DEF Exited, vars, software, data, device, session, call
<1>9. CASE Outside
  <2>1. UNCHANGED <<at, started, stopping, button, task, todo>>
    BY <1>9 DEF Outside, Environment, software, data, device, session, call
  <2>2. relinked' \in BOOLEAN
    BY <1>9 DEF Outside
  <2> QED
    BY <2>1, <2>2
<1>10. CASE UNCHANGED appVars
  BY <1>10 DEF appVars, vars, software, data, device, session, call
<1> QED
  BY <1>1, <1>2, <1>3, <1>4, <1>5, <1>6, <1>7, <1>8, <1>9, <1>10 DEF AppNext, HandleInput

-----------------------------------------------------------------------------
(* Writes.                                                                 *)

LEMMA WriteStep == ASSUME SearchInv, TaskInv, WriteInv, [AppNext]_appVars PROVE WriteInv'
<1> USE DEF WriteInv, Waiting, TaskInv, Sending, app, radio, peer, camera
<1>0. at \in [{"app", "ble"} -> AppLabels \cup BleLabels]
  BY DEF SearchInv, TypeInv, TypeOK, ControlTypeOK, AtOK
<1>1. CASE (\E s \in Presses : Press(s)) \/ Sent
  BY <1>0, <1>1 DEF Press, Sent, vars, software, data
<1>2. CASE SendNext \/ NotSent \/ BackHeld
  BY <1>0, <1>2 DEF SendNext, SendButton, SendDeclined, NotSent, ReportError, BackHeld, Stop,
     Step, Goto
<1>3. CASE Calls
  <2>1. CASE StartCall
    BY <1>0, <1>3, <2>1 DEF Calls, StartCall, Start, StopAdvertising, SetAdvertising, StartScan,
       ScanDeclined, ScanChecked, ScanAccepted, BeginDiscovery, ScanRefused, ScanFlagged,
       ScanShown, Home, Step, Goto, data
  <2>2. CASE WriteAccepted
    BY <1>0, <1>3, <2>2 DEF Calls, WriteAccepted, BeginWrite, Step, Goto, data
  <2>3. CASE Arm \/ Claim \/ WriteRefused \/ Woken \/ SendReturns \/ SendTimeout
    BY <1>0, <1>3, <2>3 DEF Calls, Arm, Claim, WriteRefused, Woken, SendReturns, SendTimeout, Step,
       Goto, data
  <2>4. CASE StopCall
    BY <1>0, <1>3, <2>4 DEF Calls, StopCall, StopScan, StopScanFlag, StopNoScan, StopLink,
       StopNoLink, HangUp, AwaitDown, Unregister, Release, SetAdvertising, EndDiscovery,
       EndConnection, Step, Goto, data
  <2> QED
    BY <1>3, <2>1, <2>2, <2>3, <2>4 DEF Calls, SendCall
<1>4. CASE BleThread /\ UNCHANGED app
  <2>1. at'["app"] = at["app"] /\ UNCHANGED <<camera, todo>>
    BY <1>4, BleFrame DEF SearchInv
  <2>2. CASE RequestAccepted
    BY <1>0, <2>1, <2>2 DEF RequestAccepted, BeginGatt, Step, Goto
  <2>3. CASE HandleConnected \/ HandlePairingComplete \/ DiscoveredNext
    BY <1>0, <2>1, <2>3 DEF HandleConnected, HandlePairingComplete, DiscoveredNext, Following,
       Discoveries, Seeks, Step, Goto
  <2>4. CASE \/ StartScan("ble") \/ Drop \/ HandleAdvertisingReport
             \/ TerminateAccepted \/ TerminateRefused \/ HandleGapComplete
             \/ HandleGapFailure \/ HandleConnectionFailure \/ HandleConnectedPairing
    BY <1>0, <2>1, <2>4 DEF StartScan, ScanDeclined, ScanChecked, ScanAccepted, BeginDiscovery,
       ScanRefused, ScanFlagged, ScanShown, Home, Drop, HandleAdvertisingReport,
       TerminateAccepted, TerminateRefused, EndDiscovery, HandleGapComplete, BeginConnection,
       HandleGapFailure, HandleConnectionFailure, HandleConnectedPairing, Step, Goto, software,
       data
  <2>5. CASE \/ PairingRequested \/ PairingRefused \/ HandleNumericComparison
             \/ HandlePairingFailure \/ HandleDisconnected \/ RequestRefused
             \/ HandleResult \/ HandleWriteComplete \/ HandleGattFailure
             \/ HandleGattComplete \/ DiscoveredNothing \/ NotificationsEnabled
             \/ HandleNotification
    BY <1>0, <2>1, <2>5 DEF PairingRequested, BeginPairing, PairingRefused,
       HandleNumericComparison, ConfirmPairing, HandlePairingFailure, HandleDisconnected,
       RequestRefused, HandleResult, HandleWriteComplete, HandleGattFailure,
       HandleGattComplete, DiscoveredNothing, NotificationsEnabled, HandleNotification, Step,
       Goto, software, data
  <2> QED
    BY <1>4, <2>2, <2>3, <2>4, <2>5 DEF BleThread
<1>5. CASE Outside
  <2>1. UNCHANGED <<at, current, todo>>
    BY <1>5 DEF Outside, Environment, software, data
  <2>2. CASE Radio
    BY <2>1, <2>2 DEF Radio, Advertise, DiscoveryTimeout, DiscoveryEnds, PairFinishes, LinkUp,
       ConnectFails, PairAsks, LinkDown
  <2>3. CASE Camera
    BY <2>1, <2>3 DEF Camera, DiscoverySucceeds, DiscoveryFindsNothing, EnablingSucceeds,
       WriteSucceeds, GattFails, Notify
  <2> QED
    BY <1>5, <2>2, <2>3 DEF Outside, Environment
<1>6. CASE (Exited /\ UNCHANGED app) \/ UNCHANGED appVars
  BY <1>6 DEF Exited, appVars, vars, software, data
<1> QED
  BY <1>1, <1>2, <1>3, <1>4, <1>5, <1>6 DEF AppNext, HandleInput
-----------------------------------------------------------------------------
(* Presses.                                                                *)

\* No more completions wait than before.
NoMoreDone ==
    /\ GattDone' => GattDone
    /\ GattDoneWell' => GattDoneWell
    /\ PairDone' => PairDone
    /\ Reconnected' => Reconnected
    /\ DoneOnce => DoneOnce'

LEMMA NothingCompletes ==
    /\ inbox' = inbox => NoMoreDone
    /\ inbox \in Seq(Event) /\ inbox # <<>> /\ inbox' = Tail(inbox) => NoMoreDone
    /\ \A e \in Event :
          /\ inbox \in Seq(Event) /\ inbox' = Append(inbox, e)
          /\ ~Completion(e) /\ ~(e.type = "connected" /\ e.ok)
          => NoMoreDone
<1>1. inbox' = inbox => NoMoreDone
  BY DoneSame DEF NoMoreDone
<1>2. inbox \in Seq(Event) /\ inbox # <<>> /\ inbox' = Tail(inbox) => NoMoreDone
  BY DoneTaken DEF NoMoreDone
<1>3. ASSUME NEW e \in Event, inbox \in Seq(Event), inbox' = Append(inbox, e),
             ~Completion(e), ~(e.type = "connected" /\ e.ok)
      PROVE  NoMoreDone
  BY <1>3, DoneAdded DEF NoMoreDone, Completion
<1> QED
  BY <1>1, <1>2, <1>3

LEMMA DoneWell == GattDoneWell => GattDone
  BY DEF GattDoneWell, GattDone

\* A step that has nothing to do with the press or with what it waits for.
LEMMA PressAside ==
    ASSUME PressInv, NoMoreDone,
           UNCHANGED <<started, stopping, relinked, proc, pairing, ack, Remaining>>,
           at'["app"] = at["app"],
           at'["ble"] = at["ble"] \/ (at["ble"] = "scanShow" /\ at'["ble"] = "idle"),
           conn'.handle = conn.handle, conn'.operation = conn.operation,
           conn'.written = conn.written, current' = current,
           state' = state \/ state' # "Ready"
    PROVE  PressInv'
<1> USE DEF NoMoreDone, PressInv
<1>1. OneAtATime => OneAtATime'
  BY DEF OneAtATime, Idle
<1>2. Setup => Setup'
  BY DEF Setup
<1>3. Calm => Calm'
  BY DEF Calm, Waiting
<1> QED
  BY <1>1, <1>2, <1>3

\* A step that finds no connection, or forgets it.
LEMMA PressWithout ==
    ASSUME PressInv, NoMoreDone, UNCHANGED <<started, stopping, relinked, Remaining>>,
           at'["app"] = "off" => at["app"] = "off",
           conn'.handle = NoHandle,
           state' # "Ready" \/ (conn.handle = NoHandle /\ state' = state)
    PROVE  PressInv'
  BY DEF NoMoreDone, PressInv

\* In the middle of a press, that served a camera and still does.
LEMMA PressServed ==
    ASSUME PressInv, started, ~stopping, ~relinked, conn.handle # NoHandle,
           Remaining # <<>> \/ state = "Ready"
    PROVE  Calm /\ OneAtATime
  BY DEF PressInv, Setup

\* While nothing is left of a press, send_button is not in the middle of it.
LEMMA NothingSent == ASSUME TaskInv, Remaining = <<>> PROVE ~Sending
  BY DEF TaskInv, Sending, Remaining

\* The ble thread seeks a camera, or handles what changes nothing of a press.
LEMMA BleFrameOfPress ==
    ASSUME AppInv, BleThread, UNCHANGED app
    PROVE  /\ UNCHANGED <<started, stopping, relinked, todo, task, ack, Remaining>>
           /\ at'["app"] = at["app"] /\ (Waiting' <=> Waiting)
           /\ at \in [{"app", "ble"} -> AppLabels \cup BleLabels] /\ conn \in Connection
           /\ inbox \in Seq(Event)
           /\ TypeInv /\ EpochInv
  BY BleFrame DEF AppInv, SearchInv, LinkageInv, app, call, camera, Remaining, Waiting, TypeInv,
     TypeOK, ControlTypeOK, AtOK, DeviceTypeOK, RadioTypeOK

LEMMA SeekerUnlinked ==
    ASSUME SearchInv, \/ HandleAdvertisingReport \/ HandleGapComplete \/ HandleGapFailure
                      \/ HandleConnectionFailure
    PROVE  /\ conn.handle = NoHandle /\ conn'.handle = NoHandle
           /\ inbox # <<>> /\ inbox' = Tail(inbox)
<1>0. inbox \in Seq(Event) /\ TypeInv /\ EpochInv /\ conn \in Connection
  BY DEF SearchInv, LinkageInv, TypeInv, TypeOK, RadioTypeOK, DeviceTypeOK
<1>1. inbox # <<>> /\ inbox' = Tail(inbox)
  BY DEF HandleAdvertisingReport, HandleGapComplete, HandleGapFailure,
     HandleConnectionFailure, Take
<1>2. conn.handle = NoHandle
  <2>1. CASE HandleAdvertisingReport
    BY <2>1, Taken DEF HandleAdvertisingReport, SearchInv, LinkageInv, SeekInv, Seeking,
       Unlinked
  <2>2. CASE HandleGapComplete \/ HandleGapFailure
    <3>1. Reported
      BY <1>0, <1>1, <2>2, TakeLeaves DEF HandleGapComplete, HandleGapFailure, Take
    <3> QED
      BY <3>1 DEF SearchInv, LinkageInv, SeekInv, Seeking, Unlinked
  <2>3. CASE HandleConnectionFailure
    BY <1>0, <1>1, <2>3, Taken, FirstEvent DEF HandleConnectionFailure, Take
  <2> QED
    BY <2>1, <2>2, <2>3
<1>3. conn'.handle = conn.handle
  BY <1>0 DEF HandleAdvertisingReport, HandleGapComplete, HandleGapFailure,
     HandleConnectionFailure, Connection, software, data, device
<1> QED
  BY <1>1, <1>2, <1>3

LEMMA PressSeeks ==
    ASSUME AppInv, UNCHANGED app,
           \/ StartScan("ble") \/ HandleAdvertisingReport
           \/ TerminateAccepted \/ TerminateRefused \/ HandleGapComplete
           \/ HandleGapFailure \/ HandleConnectionFailure \/ HandleDisconnected
    PROVE  PressInv'
<1> USE BleFrameOfPress DEF radio, air, peer, data, device, session, search, shown, software,
        Goto, Step, Home
<1>0. BleThread /\ PressInv /\ SearchInv
  BY DEF BleThread, AppInv
<1>1. CASE ScanShown("ble")
  <2>1. NoMoreDone
    BY <1>1, NothingCompletes DEF ScanShown
  <2> QED
    BY <1>0, <1>1, <2>1, PressAside DEF ScanShown
<1>2. CASE HandleDisconnected
  <2>1. NoMoreDone
    BY <1>0, <1>2, NothingCompletes DEF HandleDisconnected, Take
  <2>2. conn'.handle = NoHandle
    BY <1>2 DEF HandleDisconnected, ResetConnection, NoConnection
  <2>3. ~stopping => state' # "Ready"
    BY <1>2 DEF HandleDisconnected
  <2>4. CASE stopping
    BY <1>0, <1>2, <2>4 DEF HandleDisconnected, PressInv
  <2> QED
    BY <1>0, <2>1, <2>2, <2>3, <2>4, PressWithout
<1>3. CASE \/ ScanDeclined("ble") \/ ScanChecked("ble") \/ ScanAccepted("ble")
           \/ ScanRefused("ble") \/ ScanFlagged("ble")
           \/ TerminateAccepted \/ TerminateRefused
  <2>1. NoMoreDone
    BY <1>3, NothingCompletes DEF ScanDeclined, ScanChecked, ScanAccepted, ScanRefused, ScanFlagged,
       TerminateAccepted, TerminateRefused
  <2>2. conn.handle = NoHandle
    BY <1>0, <1>3 DEF ScanDeclined, ScanChecked, ScanAccepted, ScanRefused, ScanFlagged,
       TerminateAccepted, TerminateRefused, SearchInv, LinkageInv, SeekInv, Seeking, Unlinked
  <2>3. conn'.handle = NoHandle /\ (state' = state \/ state' # "Ready")
    BY <1>0, <1>3, <2>2 DEF ScanDeclined, ScanChecked, ScanAccepted, ScanRefused, ScanFlagged,
       TerminateAccepted, TerminateRefused, ResetConnection, NoConnection, Connection
  <2> QED
    BY <1>0, <2>1, <2>2, <2>3, PressWithout
<1>4. CASE \/ HandleAdvertisingReport \/ HandleGapComplete \/ HandleGapFailure
           \/ HandleConnectionFailure
  <2>1. NoMoreDone
    BY <1>0, <1>4, SeekerUnlinked, NothingCompletes
  <2>2. state' = state \/ state' # "Ready"
    BY <1>4 DEF HandleAdvertisingReport, HandleGapComplete, HandleGapFailure,
       HandleConnectionFailure
  <2> QED
    BY <1>0, <1>4, <2>1, <2>2, SeekerUnlinked, PressWithout
<1> QED
  BY <1>1, <1>2, <1>3, <1>4 DEF StartScan

\* It sets up the camera, which begins with a connection found ...
LEMMA PressConnects ==
    ASSUME AppInv, UNCHANGED app, HandleConnectedPairing \/ HandleConnected
    PROVE  PressInv'
<1> USE BleFrameOfPress DEF data, device, session, shown, Goto
<1>0. BleThread /\ PressInv /\ SearchInv
  BY DEF BleThread, AppInv
<1>1. /\ started /\ inbox # <<>> /\ inbox' = Tail(inbox)
      /\ Head(inbox).type = "connected" /\ Head(inbox).ok
      /\ UNCHANGED <<proc, pairing>>
  BY <1>0, Taken DEF HandleConnectedPairing, HandleConnected, Take, radio, peer
<1>2. conn.handle = NoHandle /\ Unaware /\ Reconnected
  BY <1>0, <1>1, FirstEvent, DoneTaken
<1>3. Idle /\ ~GattDone /\ ~PairDone /\ DoneOnce
  BY <1>2 DEF Unaware, Silent, GattDone, PairDone, DoneOnce, Completion
<1>4. Idle' /\ ~GattDone' /\ ~PairDone' /\ DoneOnce'
  BY <1>0, <1>1, <1>3, DoneTaken DEF Idle
<1>5. /\ conn'.operation = conn.operation \/ conn'.operation = current'
      /\ at'["ble"] \in {"pair", "request"}
      /\ at'["ble"] = "request" => conn'.operation = current'
      /\ state' = state \/ state' = "Pairing"
  BY <1>0 DEF HandleConnectedPairing, HandleConnected, Connection
<1>6. ASSUME ~stopping, ~relinked PROVE Setup'
  BY <1>0, <1>1, <1>2, <1>5, <1>6 DEF Setup, PressInv
<1>7. OneAtATime'
  BY <1>4 DEF OneAtATime, Idle
<1>8. conn'.handle # NoHandle
  <2>1. Head(inbox) \in Event
    BY <1>0, <1>1
  <2>2. Head(inbox).handle \in Handles
    BY <1>1, <2>1, EventElim
  <2>3. conn'.handle = Head(inbox).handle
    BY <1>0 DEF HandleConnectedPairing, HandleConnected, Connection
  <2> QED
    BY <2>2, <2>3, RadioAssumption
<1> QED
  BY <1>0, <1>1, <1>2, <1>5, <1>6, <1>7, <1>8 DEF PressInv

\* ... is paired with ...
LEMMA PressPairs ==
    ASSUME AppInv, UNCHANGED app,
           \/ PairingRequested \/ PairingRefused \/ HandleNumericComparison
           \/ HandlePairingFailure \/ HandlePairingComplete
    PROVE  PressInv'
<1> USE BleFrameOfPress DEF data, device, session, shown, radio, peer, software, Step, Goto
<1>0. BleThread /\ PressInv /\ SearchInv
  BY DEF BleThread, AppInv
<1>1. CASE PairingRequested \/ PairingRefused
  <2>1. /\ inbox' = inbox /\ UNCHANGED <<conn, proc, current>> /\ at["ble"] = "pair"
        /\ at'["ble"] = "idle" /\ (state' = state \/ state' = "Error")
    BY <1>0, <1>1 DEF PairingRequested, PairingRefused, BeginPairing
  <2>2. NoMoreDone
    BY <2>1, NothingCompletes
  <2>3. OneAtATime => OneAtATime'
    BY <2>1, <2>2 DEF OneAtATime, NoMoreDone, Idle
  <2>4. Setup => Setup'
    BY <1>0, <2>1 DEF Setup
  <2>5. ~Calm
    BY <2>1 DEF Calm
  <2> QED
    BY <1>0, <2>1, <2>2, <2>3, <2>4, <2>5 DEF PressInv, NoMoreDone
<1>2. CASE HandleNumericComparison
  <2>1. /\ inbox # <<>> /\ inbox' = Tail(inbox)
        /\ UNCHANGED <<conn, proc, current, at, state>>
        /\ pairing = "none" <=> pairing' = "none"
    BY <1>0, <1>2 DEF HandleNumericComparison, Take, ConfirmPairing
  <2>2. NoMoreDone
    BY <1>0, <2>1, NothingCompletes
  <2>3. OneAtATime => OneAtATime'
    BY <2>1, <2>2 DEF OneAtATime, NoMoreDone, Idle
  <2>4. Setup => Setup'
    BY <1>0, <2>1 DEF Setup
  <2>5. Calm => Calm'
    BY <1>0, <2>1, <2>2 DEF Calm, NoMoreDone
  <2> QED
    BY <1>0, <2>1, <2>2, <2>3, <2>4, <2>5 DEF PressInv, NoMoreDone
<1>3. CASE HandlePairingFailure \/ HandlePairingComplete
  <2>1. /\ inbox # <<>> /\ inbox' = Tail(inbox) /\ Head(inbox).type = "pairingComplete"
        /\ UNCHANGED <<proc, pairing>> /\ at["ble"] = "idle"
        /\ conn'.handle = conn.handle
        /\ at'["ble"] \in {"idle", "request"}
        /\ at'["ble"] = "request" => conn'.operation = current'
        /\ state' = state \/ state' = "Error"
    BY <1>0, <1>3 DEF HandlePairingFailure, HandlePairingComplete, Take, Connection
  <2>2. NoMoreDone /\ PairDone
    BY <1>0, <2>1, NothingCompletes, DoneTaken
  <2>3. OneAtATime => OneAtATime'
    BY <1>0, <2>1, <2>2, DoneTaken DEF OneAtATime, NoMoreDone, Idle, Completion
  <2>4. Setup => Setup'
    BY <1>0, <2>1 DEF Setup
  <2>5. ~Calm
    BY <2>2 DEF Calm
  <2> QED
    BY <1>0, <2>1, <2>2, <2>3, <2>4, <2>5 DEF PressInv, NoMoreDone
<1> QED
  BY <1>1, <1>2, <1>3

\* ... and discovered, until its notifications are enabled; then it is served.
LEMMA PressDiscovers ==
    ASSUME AppInv, UNCHANGED app,
           \/ RequestAccepted \/ RequestRefused \/ HandleGattFailure \/ HandleGattComplete
           \/ DiscoveredNext \/ DiscoveredNothing \/ NotificationsEnabled
    PROVE  PressInv'
<1> USE BleFrameOfPress DEF data, device, session, shown, radio, peer, Step, Goto
<1>0. BleThread /\ PressInv /\ SearchInv /\ ChainInv /\ TaskInv /\ WriteInv
  BY DEF BleThread, AppInv
<1>1. CASE \/ RequestAccepted \/ RequestRefused \/ DiscoveredNext \/ DiscoveredNothing
           \/ NotificationsEnabled
  <2>1. /\ inbox' = inbox /\ UNCHANGED pairing /\ conn'.handle = conn.handle
        /\ at["ble"] \in {"request", "completed"}
        /\ at'["ble"] \in {"idle", "request"}
        /\ at'["ble"] = "request" => conn'.operation = current'
        /\ at'["ble"] = "idle" \/ proc' = proc
    BY <1>0, <1>1 DEF RequestAccepted, RequestRefused, DiscoveredNext, DiscoveredNothing,
       NotificationsEnabled, BeginGatt, Connection
  <2>2. NoMoreDone
    BY <2>1, NothingCompletes
  <2>3. OneAtATime => OneAtATime'
    BY <2>1, <2>2 DEF OneAtATime, NoMoreDone, Idle
  <2>4. ~Calm
    BY <2>1 DEF Calm
  <2>5. CASE ~NotificationsEnabled
    <3>1. state' = state \/ state' # "Ready"
      BY <1>1, <2>5 DEF RequestAccepted, RequestRefused, DiscoveredNext, DiscoveredNothing
    <3>2. Setup => Setup'
      BY <1>0, <2>1, <3>1 DEF Setup
    <3> QED
      BY <1>0, <2>1, <2>2, <2>3, <2>4, <3>1, <3>2 DEF PressInv, NoMoreDone
  <2>6. CASE NotificationsEnabled
    <3>1. /\ UNCHANGED <<conn, proc>> /\ at["ble"] = "completed" /\ at'["ble"] = "idle"
      BY <1>0, <2>6 DEF NotificationsEnabled
    <3>2. started => conn.handle # NoHandle
      BY <1>0, <3>1 DEF ChainInv
    <3>3. OneAtATime /\ Setup => Calm'
      <4>1. SUFFICES ASSUME OneAtATime, Setup PROVE Calm'
        OBVIOUS
      <4>2. ~Sending /\ ~Waiting
        BY <1>0, <4>1, NothingSent DEF Setup, Sending, Waiting
      <4> QED
        BY <1>0, <2>1, <2>2, <3>1, <4>1, <4>2 DEF OneAtATime, Calm, NoMoreDone, Idle, Sending
    <3>4. at'["app"] = "off" => state' # "Ready"
      BY <1>0, <3>1 DEF SearchInv, SessionInv, Fresh
    <3> QED
      BY <1>0, <2>1, <2>2, <2>3, <2>4, <3>1, <3>2, <3>3, <3>4 DEF PressInv, NoMoreDone
  <2> QED
    BY <2>5, <2>6
<1>2. CASE HandleGattFailure \/ HandleGattComplete
  <2>1. /\ inbox # <<>> /\ inbox' = Tail(inbox) /\ Head(inbox).type = "gattComplete"
        /\ UNCHANGED <<proc, pairing>> /\ at["ble"] = "idle"
        /\ conn.operation # "WriteButton"
        /\ conn'.handle = conn.handle /\ conn'.operation = "None"
        /\ at'["ble"] \in {"idle", "completed"}
        /\ state' = state \/ state' = "Error"
    BY <1>0, <1>2 DEF HandleGattFailure, HandleGattComplete, Take, Connection
  <2>2. NoMoreDone /\ GattDone
    BY <1>0, <2>1, NothingCompletes, DoneTaken
  <2>3. OneAtATime => OneAtATime'
    BY <1>0, <2>1, <2>2, DoneTaken DEF OneAtATime, NoMoreDone, Idle, Completion
  <2>4. Setup => Setup'
    BY <1>0, <2>1 DEF Setup
  <2>5. ~Calm
    BY <2>1, <2>2 DEF Calm
  <2> QED
    BY <1>0, <2>1, <2>2, <2>3, <2>4, <2>5 DEF PressInv, NoMoreDone
<1> QED
  BY <1>1, <1>2

\* The rest of what the ble thread handles.
LEMMA PressHandles ==
    ASSUME AppInv, UNCHANGED app,
           Drop \/ HandleResult \/ HandleNotification \/ HandleWriteComplete
    PROVE  PressInv'
<1> USE BleFrameOfPress DEF data, device, session, shown, radio, peer, software
<1>0. BleThread /\ PressInv /\ SearchInv
  BY DEF BleThread, AppInv
<1>1. inbox # <<>> /\ inbox' = Tail(inbox) /\ UNCHANGED <<at, proc, pairing, current, state>>
  BY DEF Drop, HandleResult, HandleNotification, HandleWriteComplete, Take
<1>2. NoMoreDone
  BY <1>0, <1>1, NothingCompletes
<1>3. CASE Drop \/ HandleResult \/ HandleNotification
  <2>1. /\ conn'.handle = conn.handle /\ conn'.operation = conn.operation
        /\ conn'.written = conn.written
    BY <1>0, <1>3 DEF Drop, HandleResult, HandleNotification, Connection
  <2>2. UNCHANGED <<started, stopping, relinked, proc, pairing, ack, Remaining>>
    BY <1>0, <1>1
  <2> QED
    BY <1>0, <1>1, <1>2, <2>1, <2>2, PressAside
<1>4. CASE HandleWriteComplete
  <2>1. /\ Head(inbox).type = "gattComplete"
        /\ conn'.handle = conn.handle /\ conn'.operation = "None"
        /\ conn'.written = Head(inbox).ok
    BY <1>0, <1>4 DEF HandleWriteComplete, Take, Connection
  <2>2. GattDone /\ (Head(inbox).ok => GattDoneWell)
    BY <1>0, <1>1, <2>1, DoneTaken
  <2>3. OneAtATime => OneAtATime' /\ ~GattDone' /\ Idle
    BY <1>0, <1>1, <1>2, <2>1, <2>2, DoneTaken DEF OneAtATime, NoMoreDone, Idle, Completion
  <2>4. Setup /\ at["ble"] = "idle" => Setup'
    BY <1>0, <1>1 DEF Setup
  <2>5. at["ble"] = "idle"
    BY <1>4 DEF HandleWriteComplete, Take
  <2>6. OneAtATime /\ Calm => Calm'
    BY <1>0, <1>1, <1>2, <2>1, <2>2, <2>3 DEF Calm, NoMoreDone, Idle
  <2> QED
    BY <1>0, <1>1, <1>2, <2>1, <2>3, <2>4, <2>5, <2>6 DEF PressInv, NoMoreDone
<1> QED
  BY <1>3, <1>4

\* The app thread presses, sends, starts and stops.
LEMMA PressSends ==
    ASSUME AppInv, HandleInput \/ BackHeld \/ Calls
    PROVE  PressInv'
<1> USE DEF Step, Goto, session, device, data, call, shown, radio, peer
<1>0. PressInv /\ SearchInv /\ TaskInv
  BY DEF AppInv
<1>1. /\ at \in [{"app", "ble"} -> AppLabels \cup BleLabels] /\ conn \in Connection
      /\ TypeInv /\ EpochInv /\ GapInv
  BY <1>0 DEF SearchInv, LinkageInv, TypeInv, TypeOK, ControlTypeOK, AtOK, DeviceTypeOK
<1>2. Sending => Remaining = todo /\ todo # <<>> /\ started /\ ~stopping
  BY <1>0 DEF TaskInv, Sending, Remaining
<1>3. ASSUME NEW s \in Presses, Press(s) PROVE PressInv'
  <2>1. /\ UNCHANGED <<started, stopping, state, conn, at, proc, pairing, ack, current, inbox>>
        /\ UNCHANGED relinked /\ state = "Ready" /\ at["app"] = "loop"
    BY <1>3 DEF Press, vars, software, camera
  <2>2. NoMoreDone
    BY <2>1, NothingCompletes
  <2>3. ASSUME started, ~stopping PROVE conn.handle # NoHandle /\ ~Reconnected
    BY <1>0, <1>1, <2>1, <2>3, AwareOf DEF PressInv
  <2>4. ASSUME started, ~stopping, ~relinked PROVE Calm /\ OneAtATime
    BY <1>0, <2>1, <2>3, <2>4, PressServed
  <2>5. Calm => Calm'
    BY <2>1, <2>2 DEF Calm, NoMoreDone, Waiting
  <2>6. OneAtATime => OneAtATime'
    BY <2>1, <2>2 DEF OneAtATime, NoMoreDone, Idle
  <2> QED
    BY <1>0, <2>1, <2>2, <2>3, <2>4, <2>5, <2>6 DEF PressInv, NoMoreDone
<1>4. CASE SendNext \/ Sent \/ NotSent
  <2>1. /\ UNCHANGED <<started, stopping, conn, proc, pairing, ack, current, inbox>>
        /\ UNCHANGED relinked /\ at["app"] = "loop" /\ at'["ble"] = at["ble"]
        /\ at'["app"] \in {"loop", "arm"} /\ (at'["app"] = "arm" => Sendable)
        /\ state' = state \/ state' # "Ready"
        /\ Remaining' = Remaining \/ Remaining' = <<>>
    <3>1. CASE SendNext
      BY <1>1, <3>1 DEF SendNext, SendButton, SendDeclined, camera, Remaining
    <3>2. CASE Sent
      BY <3>2 DEF Sent, vars, software, camera, Remaining
    <3>3. CASE NotSent
      BY <3>3 DEF NotSent, ReportError, camera, Remaining
    <3> QED
      BY <1>4, <3>1, <3>2, <3>3
  <2>2. NoMoreDone
    BY <2>1, NothingCompletes
  <2>3. OneAtATime => OneAtATime'
    BY <2>1, <2>2 DEF OneAtATime, NoMoreDone, Idle
  <2>4. Setup => Setup'
    BY <2>1 DEF Setup
  <2>5. Calm => Calm'
    BY <2>1, <2>2 DEF Calm, NoMoreDone, Waiting, Sendable
  <2> QED
    BY <1>0, <2>1, <2>2, <2>3, <2>4, <2>5 DEF PressInv, NoMoreDone
<1>5. CASE BackHeld
  BY <1>1, <1>5 DEF BackHeld, Stop, PressInv
<1>6. CASE SendCall /\ UNCHANGED app
  <2>1. /\ UNCHANGED <<started, stopping, pairing, current, inbox, state>>
        /\ UNCHANGED relinked /\ Sending /\ at'["ble"] = at["ble"]
        /\ conn'.handle = conn.handle /\ at'["app"] # "off"
    BY <1>1, <1>6 DEF SendCall, Arm, Claim, WriteAccepted, BeginWrite, WriteRefused, Woken, SendReturns,
       SendTimeout, Connection, Sending, app
  <2>2. Remaining # <<>> /\ started /\ ~stopping
    BY <1>2, <2>1
  <2>3. NoMoreDone
    BY <2>1, NothingCompletes
  <2>4. ASSUME ~relinked, conn.handle # NoHandle PROVE OneAtATime /\ Calm
    BY <1>0, <2>2, <2>4, PressServed
  <2>5. OneAtATime /\ Calm => OneAtATime' /\ Calm'
    <3>1. SUFFICES ASSUME OneAtATime, Calm PROVE OneAtATime' /\ Calm'
      OBVIOUS
    <3>2. CASE Arm \/ Claim
      BY <1>1, <2>1, <2>3, <3>1, <3>2 DEF Arm, Claim, Connection, OneAtATime, Calm, Idle, NoMoreDone,
         Waiting
    <3>3. CASE WriteAccepted
      BY <1>1, <2>1, <2>3, <3>1, <3>3, DoneWell DEF WriteAccepted, BeginWrite, OneAtATime, Calm,
         Idle, NoMoreDone, Waiting
    <3>4. CASE WriteRefused
      BY <1>1, <2>1, <2>3, <3>1, <3>4 DEF WriteRefused, Connection, OneAtATime, Calm, Idle,
         NoMoreDone, Waiting
    <3>5. CASE Woken \/ SendReturns \/ SendTimeout
      BY <1>1, <2>1, <2>3, <3>1, <3>5 DEF Woken, SendReturns, SendTimeout, camera, OneAtATime,
         Calm, Idle, NoMoreDone, Waiting
    <3> QED
      BY <1>6, <3>2, <3>3, <3>4, <3>5 DEF SendCall
  <2>6. ~relinked => ~Reconnected'
    BY <1>0, <2>2, <2>3 DEF PressInv, NoMoreDone
  <2> QED
    BY <1>0, <2>1, <2>2, <2>4, <2>5, <2>6 DEF PressInv
<1>7. CASE StartCall /\ UNCHANGED app
  <2>1. /\ UNCHANGED <<stopping, proc, pairing, ack, current, inbox>>
        /\ UNCHANGED relinked /\ at'["ble"] = at["ble"]
        /\ at["app"] \in {"off", "quiet", "scan", "scanCommand", "scanAccepted", "scanShow"}
        /\ at'["app"] # "off" /\ (state' = state \/ state' # "Ready")
    <3>1. CASE Start
      <4>1. ~stopping /\ stopping \in BOOLEAN
        BY <1>1, <3>1 DEF Start, GapInv, Leaving, TypeInv, TypeOK, DeviceTypeOK
      <4> QED
        BY <1>1, <1>7, <3>1, <4>1 DEF Start, camera, app
    <3>2. CASE StopAdvertising
      BY <1>1, <1>7, <3>2 DEF StopAdvertising, SetAdvertising, camera, app
    <3>3. CASE ScanDeclined("app") \/ ScanChecked("app") \/ ScanFlagged("app") \/ ScanShown("app")
      BY <1>1, <1>7, <3>3 DEF ScanDeclined, ScanChecked, ScanFlagged, ScanShown, Home, camera, app
    <3>4. CASE ScanAccepted("app") \/ ScanRefused("app")
      BY <1>1, <1>7, <3>4 DEF ScanAccepted, BeginDiscovery, ScanRefused, Home, camera, app
    <3> QED
      BY <1>7, <3>1, <3>2, <3>3, <3>4 DEF StartCall, StartScan
  <2>2. NoMoreDone
    BY <2>1, NothingCompletes
  <2>3. task = "idle" /\ Remaining = todo /\ Remaining' = todo
    BY <1>0, <1>7, <2>1 DEF TaskInv, Sending, Remaining, app
  <2>4. CASE at["app"] = "scanShow"
    <3>1. started' = started /\ conn' = conn /\ at'["app"] = "loop" /\ state' = "Scanning"
      BY <1>1, <1>7, <2>4 DEF StartCall, Start, StopAdvertising, StartScan, ScanDeclined,
         ScanChecked, ScanAccepted, ScanRefused, ScanFlagged, ScanShown, Home
    <3>2. OneAtATime => OneAtATime'
      BY <2>1, <2>2 DEF OneAtATime, NoMoreDone, Idle
    <3>3. Setup => Setup'
      BY <2>1, <2>3, <3>1 DEF Setup
    <3>4. Calm => Calm'
      BY <2>1, <2>2, <3>1 DEF Calm, NoMoreDone, Waiting
    <3> QED
      BY <1>0, <2>1, <2>2, <2>3, <3>1, <3>2, <3>3, <3>4 DEF PressInv, NoMoreDone
  <2>5. CASE at["app"] # "scanShow"
    <3>1. conn.handle = NoHandle
      BY <1>0, <2>1, <2>5 DEF SearchInv, LinkageInv, SeekInv, Seeking, Unlinked
    <3>2. conn'.handle = NoHandle
      <4>1. CASE ScanAccepted("app") \/ ScanRefused("app")
        BY <4>1 DEF ScanAccepted, ScanRefused, ResetConnection, NoConnection
      <4>2. CASE \/ Start \/ StopAdvertising \/ ScanDeclined("app") \/ ScanChecked("app")
                 \/ ScanFlagged("app")
        BY <3>1, <4>2 DEF Start, StopAdvertising, ScanDeclined, ScanChecked, ScanFlagged
      <4> QED
        BY <1>7, <2>5, <4>1, <4>2 DEF StartCall, StartScan, ScanShown
    <3>3. CASE Start
      <4>1. at["app"] = "off" /\ UNCHANGED <<conn, state>>
        BY <3>3 DEF Start
      <4>2. ~Reconnected
        BY <1>0, <4>1 DEF SearchInv, SessionInv, Fresh, Reconnected, Positions
      <4> QED
        BY <1>0, <2>1, <2>2, <3>2, <4>1, <4>2 DEF PressInv, NoMoreDone
    <3>4. CASE ~Start
      <4>1. started' = started
        BY <1>7, <3>4 DEF StartCall, StopAdvertising, StartScan, ScanDeclined, ScanChecked,
           ScanAccepted, ScanRefused, ScanFlagged, ScanShown
      <4> QED
        BY <1>0, <2>1, <2>2, <2>3, <3>1, <3>2, <4>1, PressWithout
    <3> QED
      BY <3>3, <3>4
  <2> QED
    BY <2>4, <2>5
<1>8. CASE StopCall /\ UNCHANGED app
  <2>1. stopping /\ stopping' = stopping /\ at'["app"] # "off"
    BY <1>1, <1>8 DEF StopCall, StopScan, StopScanFlag, StopNoScan, StopLink, StopNoLink, HangUp,
       AwaitDown, Unregister, Release, GapInv, Leaving
  <2> QED
    BY <2>1 DEF PressInv
<1> QED
  BY <1>3, <1>4, <1>5, <1>6, <1>7, <1>8 DEF HandleInput, Calls

\* What the radio and the camera report besides: it completes nothing.
Quiet ==
    \/ \E c \in Cameras, p \in BOOLEAN : Advertise(c, p)
    \/ \E ok \in BOOLEAN : DiscoveryEnds(ok)
    \/ ConnectFails \/ PairAsks \/ \E n \in Notices : Notify(n)

LEMMA QuietReports ==
    ASSUME inbox \in Seq(Event), Quiet,
           link.phase \in {"up", "closing"} =>
              link.handle \in Handles /\ link.camera \in Cameras
    PROVE  /\ NoMoreDone /\ UNCHANGED <<proc, held, ack>>
           /\ pairing = "none" <=> pairing' = "none"
           /\ link' = link \/ link'.phase = "down"
<1> USE DEF air, peer, camera
<1>1. PICK e \in Event :
         /\ inbox' = Append(inbox, e) /\ ~Completion(e) /\ ~(e.type = "connected" /\ e.ok)
  <2>1. CASE \E c \in Cameras, p \in BOOLEAN : Advertise(c, p)
    BY <2>1, EventIntro DEF Advertise, Report, Advertisement, Completion
  <2>2. CASE \E ok \in BOOLEAN : DiscoveryEnds(ok)
    BY <2>2, EventIntro DEF DiscoveryEnds, Report, ProcComplete, Completion
  <2>3. CASE ConnectFails
    BY <2>3, EventIntro DEF ConnectFails, Report, Connected, Completion
  <2>4. CASE PairAsks
    BY <2>4, EventIntro DEF PairAsks, Report, NumericComparison, Completion
  <2>5. CASE \E n \in Notices : Notify(n)
    BY <2>5, EventIntro DEF Notify, Report, Notification, Completion, Attrs, Kinds
  <2> QED
    BY <2>1, <2>2, <2>3, <2>4, <2>5 DEF Quiet
<1>2. /\ UNCHANGED <<proc, held, ack>> /\ (pairing = "none" <=> pairing' = "none")
      /\ link' = link \/ link'.phase = "down"
  <2>1. CASE ConnectFails
    BY <2>1 DEF ConnectFails, NoLink
  <2>2. CASE PairAsks
    BY <2>2 DEF PairAsks
  <2> QED
    BY <2>1, <2>2 DEF Quiet, Advertise, DiscoveryEnds, Notify
<1> QED
  BY <1>1, <1>2, NothingCompletes

\* The radio and the camera.
LEMMA PressOutside ==
    ASSUME "discoveryTimeout" \notin Faults, AppInv, Outside
    PROVE  PressInv'
<1> USE DEF radio, air, peer, camera
<1>0. PressInv /\ SearchInv /\ TaskInv
  BY DEF AppInv
<1>1. /\ UNCHANGED <<at, conn, state, current, started, stopping>>
      /\ Remaining' = Remaining /\ (Waiting' <=> Waiting)
  BY DEF Outside, Environment, software, data, device, session, call, shown, Remaining, Waiting
<1>2. /\ TypeInv /\ EpochInv /\ inbox \in Seq(Event)
      /\ link.phase \in {"up", "closing"} => link.handle \in Handles /\ link.camera \in Cameras
  BY <1>0 DEF SearchInv, LinkageInv, TypeInv, TypeOK, RadioTypeOK, LinkInv
<1>3. ASSUME link'.phase = "up" => link.phase = "up" PROVE relinked' = relinked
  BY <1>3 DEF Outside
<1>4. Setup => Setup'
  BY <1>1 DEF Setup
<1>5. ASSUME NEW h \in Handles, LinkUp(h) PROVE PressInv'
  <2>1. started => conn.handle = NoHandle
    BY <1>1, <1>2, <1>5, LinkComes
  <2>2. relinked' = (Remaining # <<>>)
    BY <1>2, <1>5 DEF Outside, LinkUp, TypeInv, TypeOK, RadioTypeOK, Link
  <2> QED
    BY <1>0, <1>1, <2>1, <2>2 DEF PressInv
<1>7. CASE Quiet
  <2>1. /\ NoMoreDone /\ UNCHANGED <<proc, ack>> /\ (pairing = "none" <=> pairing' = "none")
        /\ relinked' = relinked
    BY <1>2, <1>3, <1>7, QuietReports
  <2>2. OneAtATime => OneAtATime'
    BY <1>1, <2>1 DEF OneAtATime, NoMoreDone, Idle
  <2>3. Calm => Calm'
    BY <1>1, <1>2, <2>1 DEF Calm, NoMoreDone, TypeInv, TypeOK, RadioTypeOK
  <2> QED
    BY <1>0, <1>1, <1>4, <2>1, <2>2, <2>3 DEF PressInv, NoMoreDone
<1>8. CASE LinkDown
  <2>1. /\ inbox' = Append(inbox, Disconnected(link.handle))
        /\ Disconnected(link.handle) \in Event /\ UNCHANGED ack
        /\ Idle' /\ relinked' = relinked
    BY <1>2, <1>3, <1>8, EventIntro DEF LinkDown, Report, NoLink, Idle
  <2>2. NoMoreDone
    BY <1>2, <2>1, NothingCompletes DEF Disconnected, Completion
  <2>3. OneAtATime => OneAtATime'
    BY <1>1, <2>1, <2>2 DEF OneAtATime, NoMoreDone, Idle
  <2>4. Calm => Calm'
    BY <1>1, <2>1, <2>2 DEF Calm, NoMoreDone, Idle
  <2> QED
    BY <1>0, <1>1, <1>4, <2>1, <2>2, <2>3, <2>4 DEF PressInv, NoMoreDone
<1>9. ASSUME NEW ok \in BOOLEAN, PairFinishes(ok) PROVE PressInv'
  <2>1. /\ inbox' = Append(inbox, PairingComplete(link.handle, ok))
        /\ PairingComplete(link.handle, ok) \in Event
        /\ pairing # "none" /\ pairing' = "none" /\ proc' = proc /\ relinked' = relinked
    BY <1>2, <1>3, <1>9, EventIntro DEF PairFinishes, Report
  <2>2. /\ Reconnected' <=> Reconnected
        /\ DoneOnce /\ ~GattDone /\ ~PairDone => DoneOnce'
    BY <1>2, <2>1, DoneAdded DEF PairingComplete
  <2>3. ~Calm
    BY <2>1 DEF Calm
  <2>4. ~Idle /\ (OneAtATime => Idle')
    BY <2>1 DEF OneAtATime, Idle
  <2>5. OneAtATime => OneAtATime'
    BY <1>1, <2>2, <2>4 DEF OneAtATime, Idle
  <2> QED
    BY <1>0, <1>1, <1>4, <2>1, <2>2, <2>3, <2>5 DEF PressInv
<1>10. ASSUME proc # "None", proc' = "None", UNCHANGED <<pairing, link>>,
              NEW ok \in BOOLEAN, inbox' = Append(inbox, GattComplete(link.handle, ok)),
              link.phase = "up",
              proc = "WriteButton" => ack' = IF ok THEN "ok" ELSE "error"
       PROVE  PressInv'
  <2>1. GattComplete(link.handle, ok) \in Event /\ relinked' = relinked
    BY <1>2, <1>3, <1>10, EventIntro
  <2>2. /\ Reconnected' <=> Reconnected
        /\ PairDone' <=> PairDone
        /\ GattDoneWell' <=> GattDoneWell \/ ok
        /\ DoneOnce /\ ~GattDone /\ ~PairDone => DoneOnce'
    BY <1>2, <1>10, <2>1, DoneAdded DEF GattComplete
  <2>3. OneAtATime => pairing = "none" /\ ~GattDone /\ ~PairDone
    BY <1>10 DEF OneAtATime, Idle
  <2>4. Calm /\ OneAtATime => Calm'
    BY <1>1, <1>10, <2>2, <2>3, DoneWell DEF Calm
  <2>5. OneAtATime => OneAtATime'
    BY <1>1, <1>10, <2>2, <2>3 DEF OneAtATime, Idle
  <2> QED
    BY <1>0, <1>1, <1>4, <2>1, <2>2, <2>4, <2>5 DEF PressInv
<1>11. CASE DiscoveryFindsNothing \/ EnablingSucceeds \/ WriteSucceeds \/ GattFails
  BY <1>10, <1>11 DEF DiscoveryFindsNothing, EnablingSucceeds, WriteSucceeds, GattFails, Report,
     Discoveries, Seeks
<1>12. CASE DiscoverySucceeds
  <2> DEFINE r == Result(link.handle, <<link.camera, Seeks[proc]>>)
             g == GattComplete(link.handle, TRUE)
  <2>1. r \in Event /\ g \in Event /\ r.type = "result" /\ g.type = "gattComplete"
    <3>1. <<link.camera, Seeks[proc]>> \in Attrs
      BY <1>2, <1>12 DEF DiscoverySucceeds, Attrs, Kinds, Seeks, Discoveries
    <3>2. r \in Event /\ g \in Event
      BY <1>2, <1>12, <3>1, EventIntro DEF DiscoverySucceeds
    <3> QED
      BY <3>2 DEF Result, GattComplete
  <2>2. /\ inbox' = inbox \o <<r, g>> /\ proc \notin {"None", "WriteButton"}
        /\ proc' = "None" /\ UNCHANGED pairing /\ relinked' = relinked
    BY <1>3, <1>12 DEF DiscoverySucceeds, Discoveries, Seeks
  <2>3. /\ Reconnected' <=> Reconnected
        /\ DoneOnce /\ ~GattDone /\ ~PairDone => DoneOnce'
    <3> HIDE DEF r, g
    <3> QED
      BY <1>2, <2>1, <2>2, FoundAdded
  <2>4. ~Calm
    BY <2>2 DEF Calm
  <2>5. OneAtATime => OneAtATime'
    BY <1>1, <2>2, <2>3 DEF OneAtATime, Idle
  <2> QED
    BY <1>0, <1>1, <1>4, <2>2, <2>3, <2>4, <2>5 DEF PressInv
<1> QED
  BY <1>5, <1>7, <1>8, <1>9, <1>11, <1>12 DEF Outside, Environment, Radio, Camera, Quiet,
     DiscoveryTimeout

LEMMA PressStep ==
    ASSUME "discoveryTimeout" \notin Faults, AppInv, [AppNext]_appVars
    PROVE  PressInv'
<1>1. CASE BleThread /\ UNCHANGED app
  BY <1>1, PressSeeks, PressConnects, PressPairs, PressDiscovers, PressHandles DEF BleThread
<1>2. CASE (Exited /\ UNCHANGED app) \/ UNCHANGED appVars
  <2>1. /\ UNCHANGED <<started, stopping, relinked, proc, pairing, ack, conn, at, current>>
        /\ state' = state /\ inbox' = inbox /\ Remaining' = Remaining
    BY <1>2 DEF Exited, app, appVars, vars, software, data, device, session, call, shown, radio,
       peer, camera, Remaining
  <2>2. NoMoreDone
    BY <2>1, NothingCompletes
  <2> QED
    BY <2>1, <2>2, PressAside DEF AppInv
<1> QED
  BY <1>1, <1>2, PressSends, PressOutside DEF AppNext

LEMMA AppInvStep ==
    "discoveryTimeout" \notin Faults /\ AppInv /\ [AppNext]_appVars => AppInv'
<1> SUFFICES ASSUME "discoveryTimeout" \notin Faults, AppInv, [AppNext]_appVars
             PROVE  AppInv'
  OBVIOUS
<1> USE DEF AppInv
<1>1. [Next]_vars
  BY AppStepIsStep DEF TaskInv
<1>2. SearchInv'
  BY <1>1, SearchStep
<1>3. ChainInv'
  BY <1>1, ChainStep DEF SearchInv
<1> QED
  BY <1>2, <1>3, TaskStep, WriteStep, PressStep

LEMMA AppInvInit == AppInit => AppInv
<1> SUFFICES ASSUME AppInit PROVE AppInv
  OBVIOUS
<1> USE DEF AppInit, Init, RadioInit, NoConnection
<1>1. SearchInv
  BY InitSearch
<1>2. ChainInv /\ WriteInv /\ PressInv
  BY DEF ChainInv, WriteInv, Waiting, PressInv
<1>3. <<>> \in Seq(Buttons)
  OBVIOUS
<1>4. TaskInv
  BY <1>3 DEF TaskInv, Sending
<1> QED
  BY <1>1, <1>2, <1>4 DEF AppInv
-----------------------------------------------------------------------------
(* Every step of the app is one of ButtonDelivery, or changes nothing there. *)

\* The command given up that may still arrive.
Late == IF proc = "WriteButton" /\ ~Waiting THEN {sent.button} ELSE {}
Got == Waiting /\ ack = "ok"

LEMMA Stutters ==
    ASSUME Remaining' = Remaining, held' = held, Got' <=> Got, Late' = Late,
           relinked' = relinked
    PROVE  UNCHANGED Delivery!vars
  BY DEF Delivery!vars, Got, Late

\* What a step of the ble thread makes of the inbox and of the GATT procedure.
LEMMA BleChanges ==
    ASSUME AppInv, BleThread
    PROVE  /\ inbox' = inbox \/ (inbox # <<>> /\ inbox' = Tail(inbox))
           /\ proc' = proc \/ (proc = "None" /\ proc' # "WriteButton")
           /\ state' = state \/ state' # "Ready" \/ NotificationsEnabled
<1>1. CASE RequestAccepted
  BY <1>1 DEF RequestAccepted, BeginGatt, CanGatt, Step, AppInv, WriteInv
<1>2. ASSUME ~RequestAccepted
      PROVE  /\ inbox' = inbox \/ (inbox # <<>> /\ inbox' = Tail(inbox))
             /\ proc' = proc
             /\ state' = state \/ state' # "Ready" \/ NotificationsEnabled
  <2> USE DEF software, data, shown, radio, peer, Take
  <2>1. CASE StartScan("ble")
    BY <2>1 DEF StartScan, ScanDeclined, ScanChecked, ScanAccepted, BeginDiscovery,
       ScanRefused, ScanFlagged, ScanShown
  <2>2. CASE \/ Drop \/ HandleAdvertisingReport \/ TerminateAccepted \/ TerminateRefused
             \/ HandleGapComplete \/ HandleGapFailure \/ HandleConnectionFailure
             \/ HandleConnectedPairing \/ HandleConnected \/ HandleDisconnected
    BY <2>2 DEF Drop, HandleAdvertisingReport, TerminateAccepted, TerminateRefused,
       HandleGapComplete, HandleGapFailure, HandleConnectionFailure, HandleConnectedPairing,
       HandleConnected, HandleDisconnected, EndDiscovery, BeginConnection
  <2>3. CASE \/ PairingRequested \/ PairingRefused \/ HandleNumericComparison
             \/ HandlePairingFailure \/ HandlePairingComplete \/ RequestRefused
             \/ HandleResult \/ HandleWriteComplete \/ HandleGattFailure
             \/ HandleGattComplete \/ DiscoveredNext \/ DiscoveredNothing
             \/ NotificationsEnabled \/ HandleNotification
    BY <2>3 DEF PairingRequested, BeginPairing, PairingRefused, HandleNumericComparison,
       ConfirmPairing, HandlePairingFailure, HandlePairingComplete, RequestRefused,
       HandleResult, HandleWriteComplete, HandleGattFailure, HandleGattComplete,
       DiscoveredNext, DiscoveredNothing, NotificationsEnabled, HandleNotification
  <2> QED
    BY <1>2, <2>1, <2>2, <2>3 DEF BleThread
<1> QED
  BY <1>1, <1>2

LEMMA BleStutters ==
    ASSUME AppInv, BleThread, UNCHANGED app
    PROVE  UNCHANGED Delivery!vars
<1>1. /\ Remaining' = Remaining /\ UNCHANGED <<held, ack, sent, relinked>>
      /\ (Waiting' <=> Waiting)
  BY BleFrame, BleFrameOfPress DEF AppInv, SearchInv, camera
<1>2. proc' = proc \/ (proc = "None" /\ proc' # "WriteButton")
  BY BleChanges
<1>3. (Got' <=> Got) /\ Late' = Late
  BY <1>1, <1>2 DEF Got, Late
<1> QED
  BY <1>1, <1>3, Stutters

\* The keys, and what becomes of the commands they send.
LEMMA InputDelivers ==
    ASSUME AppInv, HandleInput \/ BackHeld
    PROVE  [Delivery!Next]_(Delivery!vars)
<1> USE DEF Step, Goto, radio, peer, camera, Late, Got, Waiting
<1>0. TaskInv /\ WriteInv /\ at \in [{"app", "ble"} -> AppLabels \cup BleLabels]
  BY DEF AppInv, SearchInv, TypeInv, TypeOK, ControlTypeOK, AtOK
<1>1. ASSUME NEW s \in Presses, Press(s) PROVE Delivery!Press(s)
  <2>1. Remaining = todo /\ todo = <<>> /\ Remaining' = s
    BY <1>0, <1>1 DEF Press, TaskInv, Remaining
  <2> QED
    BY <1>1, <2>1 DEF Press, Delivery!Press, vars, software
<1>2. CASE SendNext
  <2>1. Remaining = todo /\ todo # <<>>
    BY <1>0, <1>2 DEF SendNext, TaskInv, Remaining
  <2>2. CASE SendButton(Head(todo))
    <3>1. Remaining' = todo
      BY <1>0, <1>2, <2>2 DEF SendNext, SendButton, Remaining
    <3> QED
      BY <1>0, <1>2, <2>1, <2>2, <3>1, Stutters DEF SendNext, SendButton
  <2>3. CASE SendDeclined(Head(todo))
    <3>1. Remaining' = <<>> /\ ~Waiting /\ ~Waiting'
      BY <1>0, <1>2, <2>3 DEF SendNext, SendDeclined, Remaining
    <3>2. Delivery!GiveUp
      BY <1>0, <1>2, <2>1, <2>3, <3>1 DEF SendNext, SendDeclined, Delivery!GiveUp,
         Delivery!Leave
    <3> QED
      BY <3>2 DEF Delivery!Next
  <2> QED
    BY <1>2, <2>2, <2>3 DEF SendNext
<1>3. CASE Sent \/ NotSent \/ BackHeld
  <2>1. Remaining' = Remaining
    BY <1>0, <1>3 DEF Sent, NotSent, ReportError, BackHeld, Stop, app, vars, software, data,
       call, Remaining
  <2> QED
    BY <1>0, <1>3, <2>1, Stutters DEF Sent, NotSent, ReportError, BackHeld, Stop, app, vars,
       software
<1> QED
  BY <1>1, <1>2, <1>3 DEF HandleInput, Delivery!Next

\* Sending a command: it is known to have arrived, or given up.
LEMMA CallsDeliver ==
    ASSUME AppInv, Calls
    PROVE  [Delivery!Next]_(Delivery!vars)
<1> USE DEF Step, Goto, radio, peer, camera, Late, Got, Waiting, app, Calls
<1>0. /\ TaskInv /\ WriteInv /\ PressInv
      /\ at \in [{"app", "ble"} -> AppLabels \cup BleLabels] /\ conn \in Connection
  BY DEF AppInv, SearchInv, TypeInv, TypeOK, ControlTypeOK, AtOK, DeviceTypeOK
<1>1. Sending => Remaining = todo /\ todo # <<>> /\ task = "sent" /\ started /\ ~stopping
  BY <1>0 DEF TaskInv, Sending, Remaining
<1>2. CASE StartCall \/ StopCall
  <2>1. /\ ~Waiting /\ ~Waiting' /\ ~Sending /\ at["app"] # "loop"
        /\ UNCHANGED <<proc, held, sent, relinked, task, todo>>
    <3>1. CASE StartCall
      BY <1>0, <1>2, <3>1 DEF StartCall, Start, StopAdvertising, SetAdvertising, StartScan,
         ScanDeclined, ScanChecked, ScanAccepted, BeginDiscovery, ScanRefused, ScanFlagged,
         ScanShown, Home, Sending
    <3>2. CASE StopCall
      BY <1>0, <1>2, <3>2 DEF StopCall, StopScan, StopScanFlag, StopNoScan, StopLink,
         StopNoLink, HangUp, AwaitDown, Unregister, Release, SetAdvertising, EndDiscovery,
         EndConnection, Sending
    <3> QED
      BY <1>2, <3>1, <3>2
  <2>2. Remaining' = Remaining
    BY <1>0, <2>1 DEF TaskInv, Remaining
  <2> QED
    BY <2>1, <2>2, Stutters
<1>3. CASE Arm \/ Claim \/ Woken \/ WriteAccepted
  <2>1. Sending /\ at'["app"] # "loop" /\ UNCHANGED <<held, relinked, task, todo>>
    BY <1>0, <1>3 DEF Arm, Claim, Woken, WriteAccepted, BeginWrite, Sending
  <2>2. Remaining' = Remaining
    BY <1>1, <2>1 DEF Remaining
  <2>3. (Got' <=> Got) /\ Late' = Late
    BY <1>0, <1>3 DEF Arm, Claim, Woken, WriteAccepted, BeginWrite, CanGatt
  <2> QED
    BY <2>1, <2>2, <2>3, Stutters
<1>4. CASE (WriteRefused \/ SendTimeout \/ SendReturns) /\ UNCHANGED app
  <2>1. /\ Sending /\ at'["app"] = "loop" /\ ~Waiting'
        /\ UNCHANGED <<held, relinked, task, todo, proc, sent, ack>>
        /\ Waiting \/ at["app"] = "write"
    BY <1>0, <1>4 DEF WriteRefused, SendTimeout, SendReturns, Sending
  <2>2. Remaining = todo /\ todo # <<>> /\ Remaining' = IF result' THEN Tail(todo) ELSE <<>>
    BY <1>1, <2>1 DEF Remaining
  <2>3. ~Got' /\ Late' \in IF Got THEN {Late} ELSE {Late, {Head(todo)}}
    BY <1>0, <2>1 DEF WriteInv
  <2>4. ASSUME result' PROVE Got \/ relinked
    <3>1. SendReturns /\ conn.written /\ conn.handle # NoHandle /\ Waiting
      BY <1>4, <2>4 DEF SendReturns, WriteRefused, SendTimeout
    <3>2. ASSUME ~relinked PROVE Calm
      BY <1>0, <1>1, <2>1, <2>2, <3>1, <3>2, PressServed
    <3> QED
      BY <3>1, <3>2 DEF Calm
  <2>5. CASE result'
    <3>1. Delivery!Confirm
      BY <2>1, <2>2, <2>3, <2>4, <2>5 DEF Delivery!Confirm, Delivery!Leave
    <3> QED
      BY <3>1 DEF Delivery!Next
  <2>6. CASE ~result'
    <3>1. Delivery!GiveUp
      BY <2>1, <2>2, <2>3, <2>6 DEF Delivery!GiveUp, Delivery!Leave
    <3> QED
      BY <3>1 DEF Delivery!Next
  <2> QED
    BY <2>5, <2>6
<1> QED
  BY <1>2, <1>3, <1>4 DEF SendCall

\* The camera executes a command, is lost, or connects again.
LEMMA OutsideDelivers ==
    ASSUME AppInv, Outside
    PROVE  [Delivery!Next]_(Delivery!vars)
<1> USE DEF radio, air, peer, camera, Late, Got
<1>0. /\ TaskInv /\ WriteInv /\ TypeInv /\ EpochInv
      /\ link \in Link /\ (link.phase \notin {"up", "closing"} => proc = "None")
  BY DEF AppInv, SearchInv, LinkageInv, TypeInv, TypeOK, RadioTypeOK, EpochInv, Idle
<1>1. Remaining' = Remaining /\ (Waiting' <=> Waiting)
  BY DEF Outside, Environment, software, data, call, Remaining, Waiting
<1>2. ASSUME link'.phase = "up" => link.phase = "up" PROVE relinked' = relinked
  BY <1>2 DEF Outside
<1>3. CASE WriteSucceeds
  <2>1. link' = link /\ proc = "WriteButton" /\ proc' = "None" /\ ack = "pending" /\ ack' = "ok"
        /\ sent' = sent /\ held' = Delivery!After(sent.button) /\ relinked' = relinked
    BY <1>0, <1>2, <1>3 DEF WriteSucceeds, WriteInv, Delivery!After
  <2>2. CASE Waiting
    <3>1. Remaining = todo /\ todo # <<>> /\ sent.button = Head(todo)
      BY <1>0, <2>2 DEF TaskInv, WriteInv, Sending, Waiting, Remaining
    <3>2. Delivery!Arrive
      BY <1>1, <2>1, <2>2, <3>1 DEF Delivery!Arrive
    <3> QED
      BY <3>2 DEF Delivery!Next
  <2>3. CASE ~Waiting
    <3>1. Delivery!ArriveLate
      BY <1>1, <2>1, <2>3 DEF Delivery!ArriveLate
    <3> QED
      BY <3>1 DEF Delivery!Next
  <2> QED
    BY <2>2, <2>3
<1>4. ASSUME NEW h \in Handles, LinkUp(h) PROVE Delivery!Reconnect
  <2>1. /\ proc = "None" /\ UNCHANGED <<proc, sent, ack>> /\ held' = {}
        /\ relinked' = (Remaining # <<>>)
    BY <1>0, <1>4 DEF LinkUp, Outside, Link
  <2> QED
    BY <1>1, <2>1 DEF Delivery!Reconnect
<1>5. CASE GattFails \/ LinkDown
  <2>1. /\ UNCHANGED <<sent, held>> /\ proc' = "None" /\ relinked' = relinked
        /\ proc = "WriteButton" => ack = "pending"
        /\ ack' = ack \/ (proc = "WriteButton" /\ ack' = "error")
    <3>1. CASE GattFails
      BY <1>0, <1>2, <3>1 DEF GattFails, WriteInv
    <3>2. CASE LinkDown
      BY <1>0, <1>2, <3>2 DEF LinkDown, NoLink, WriteInv
    <3> QED
      BY <1>5, <3>1, <3>2
  <2>2. ~Got' <=> ~Got
    BY <1>1, <2>1
  <2>3. CASE Late = {}
    <3>1. Late' = Late
      BY <2>1, <2>3
    <3> QED
      BY <1>1, <2>1, <2>2, <3>1, Stutters
  <2>4. CASE Late # {}
    <3>1. Delivery!LoseLate
      BY <1>1, <2>1, <2>2, <2>4 DEF Delivery!LoseLate
    <3> QED
      BY <3>1 DEF Delivery!Next
  <2> QED
    BY <2>3, <2>4
<1>6. CASE \/ \E c \in Cameras, p \in BOOLEAN : Advertise(c, p)
           \/ DiscoveryTimeout
           \/ \E ok \in BOOLEAN : DiscoveryEnds(ok) \/ PairFinishes(ok)
           \/ ConnectFails \/ PairAsks
           \/ DiscoverySucceeds \/ DiscoveryFindsNothing \/ EnablingSucceeds
           \/ \E n \in Notices : Notify(n)
  <2>1. /\ UNCHANGED <<held, sent, ack>> /\ (link' = link \/ link'.phase = "down")
        /\ proc' = proc \/ (proc # "WriteButton" /\ proc' = "None")
    <3>1. CASE ConnectFails
      BY <3>1 DEF ConnectFails, NoLink
    <3>2. CASE DiscoverySucceeds \/ DiscoveryFindsNothing \/ EnablingSucceeds
      BY <3>2 DEF DiscoverySucceeds, DiscoveryFindsNothing, EnablingSucceeds, Discoveries, Seeks
    <3>3. CASE \/ \E c \in Cameras, p \in BOOLEAN : Advertise(c, p)
               \/ \E ok \in BOOLEAN : DiscoveryEnds(ok) \/ PairFinishes(ok)
               \/ DiscoveryTimeout \/ PairAsks \/ \E n \in Notices : Notify(n)
      BY <3>3 DEF Advertise, DiscoveryTimeout, DiscoveryEnds, PairFinishes, PairAsks, Notify
    <3> QED
      BY <1>6, <3>1, <3>2, <3>3
  <2>2. relinked' = relinked
    BY <1>2, <2>1
  <2>3. (Got' <=> Got) /\ Late' = Late
    BY <1>1, <2>1
  <2> QED
    BY <1>1, <2>1, <2>2, <2>3, Stutters
<1> QED
  BY <1>3, <1>4, <1>5, <1>6 DEF Outside, Environment, Radio, Camera, Delivery!Next

LEMMA StepDelivers ==
    AppInv /\ [AppNext]_appVars => [Delivery!Next]_(Delivery!vars)
<1> SUFFICES ASSUME AppInv, [AppNext]_appVars PROVE [Delivery!Next]_(Delivery!vars)
  OBVIOUS
<1>1. CASE (Exited /\ UNCHANGED app) \/ UNCHANGED appVars
  <2>1. /\ UNCHANGED <<held, relinked, proc, sent, ack>> /\ Remaining' = Remaining
        /\ (Waiting' <=> Waiting)
    BY <1>1 DEF Exited, app, appVars, vars, software, data, call, radio, peer, camera,
       Remaining, Waiting
  <2> QED
    BY <2>1, Stutters DEF Got, Late
<1> QED
  BY <1>1, InputDelivers, CallsDeliver, BleStutters, OutsideDelivers DEF AppNext

\* The app keeps the promise of ButtonDelivery, whatever its two threads, the
\* radio and the camera do: send_button never takes the flag of an earlier
\* write, or of a disconnection, for the success of this one.
THEOREM Delivers == "discoveryTimeout" \notin Faults => (AppSpec => DeliversButtons)
<1> SUFFICES ASSUME "discoveryTimeout" \notin Faults PROVE AppSpec => DeliversButtons
  OBVIOUS
<1>1. AppInv /\ [AppNext]_appVars => AppInv'
  BY AppInvStep
<1>2. AppInit => Delivery!Init
  BY DEF AppInit, Init, RadioInit, Delivery!Init, Remaining, Waiting
<1> QED
  BY <1>1, <1>2, AppInvInit, StepDelivers, PTL DEF AppSpec, DeliversButtons, Delivery!Spec

\* The shutter is released only while the camera is focusing.
THEOREM NeverUnfocused == "discoveryTimeout" \notin Faults => (AppSpec => FocusBeforeShutter)
  BY Delivers, Focuses

\* The variables of the app stay in their ranges: in particular the commands left
\* of a press are button commands, and there are some unless it is over.
THEOREM AppTypeCorrect == AppSpec => []AppTypeOK
<1>1. AppInit => TypeInv /\ AppTypeOK
  <2>1. <<>> \in Seq(Buttons)
    OBVIOUS
  <2> QED
    BY <2>1, InitTypeInv DEF AppInit, TypeInv, AppTypeOK
<1>2. TypeInv /\ AppTypeOK /\ [AppNext]_appVars => (TypeInv /\ AppTypeOK)'
  <2> SUFFICES ASSUME TypeInv, AppTypeOK, [AppNext]_appVars PROVE (TypeInv /\ AppTypeOK)'
    OBVIOUS
  <2> USE DEF AppTypeOK
  <2>1. TypeInv'
    BY AppStepIsStep, TypeInvStep
  <2>2. CASE \E s \in Presses : Press(s)
    BY <2>1, <2>2, PressesAreCommands DEF Press, TypeInv
  <2>3. CASE SendNext
    BY <2>1, <2>3 DEF SendNext, TypeInv
  <2>4. CASE Sent
    <3>1. Tail(todo) \in Seq(Buttons)
      BY <2>4 DEF Sent
    <3> QED
      BY <2>1, <2>4, <3>1 DEF Sent, TypeInv
  <2>5. CASE NotSent
    <3>1. <<>> \in Seq(Buttons)
      OBVIOUS
    <3> QED
      BY <2>1, <2>5, <3>1 DEF NotSent, TypeInv
  <2>6. CASE Outside
    BY <2>1, <2>6 DEF Outside, TypeInv
  <2>7. CASE UNCHANGED app
    BY <2>1, <2>7 DEF app, TypeInv
  <2> QED
    BY <2>1, <2>2, <2>3, <2>4, <2>5, <2>6, <2>7
    DEF AppNext, HandleInput, BackHeld, Calls, appVars
<1> QED
  BY <1>1, <1>2, PTL DEF AppSpec
-----------------------------------------------------------------------------
(* PressLeavesNothingHeld.  Buttons are held as the press prescribes while   *)
(* it is under way, and a camera is served once per link, when it holds none. *)

\* What is left of a press, and the buttons held by then.
OnCourse(left, buttons) ==
    \/ left \in {<<>>, Shutter, Record} /\ buttons = {}
    \/ left = Tail(Shutter) /\ buttons = {"ShutterHalf"}
    \/ left = Tail(Tail(Shutter)) /\ buttons = {"ShutterHalf", "ShutterFull"}
    \/ left = Tail(Tail(Tail(Shutter))) /\ buttons = {"ShutterFull"}
    \/ left = Tail(Record) /\ buttons = {"Record"}

Released == held = {} /\ proc # "WriteButton"

\* No press has been begun on this link, or none will be set up for any more.
New == Released /\ Remaining = <<>> /\ state # "Ready"
Served ==
    /\ pairing = "none" /\ proc \in {"None", "WriteButton"} /\ ~PairDone
    /\ at["ble"] = "idle"
    /\ proc # "None" \/ GattDone => conn.operation = "WriteButton"

HeldInv == ~relinked =>
    /\ Remaining = <<>> /\ result => Released
    /\ Remaining # <<>> => /\ proc = "WriteButton" => Waiting
                           /\ OnCourse(IF Got THEN Tail(Remaining) ELSE Remaining, held)
    /\ started /\ ~stopping =>
          /\ state = "Ready" /\ task = "idle" => Released
          /\ conn.handle # NoHandle => New \/ Served
          /\ Reconnected => held = {}

\* A command takes a press one step on.
LEMMA Onward ==
    ASSUME NEW left, OnCourse(left, held), left # <<>>
    PROVE  OnCourse(Tail(left), Delivery!After(Head(left)))
<1>1. /\ Head(Shutter) = Cmd("ShutterHalf", TRUE)
      /\ Head(Tail(Shutter)) = Cmd("ShutterFull", TRUE)
      /\ Head(Tail(Tail(Shutter))) = Cmd("ShutterHalf", FALSE)
      /\ Head(Tail(Tail(Tail(Shutter)))) = Cmd("ShutterFull", FALSE)
      /\ Tail(Tail(Tail(Tail(Shutter)))) = <<>>
  BY DEF Shutter
<1>2. /\ Head(Record) = Cmd("Record", TRUE) /\ Head(Tail(Record)) = Cmd("Record", FALSE)
      /\ Tail(Tail(Record)) = <<>>
  BY DEF Record
<1>3. CASE left = Shutter /\ held = {}
  <2>1. Delivery!After(Head(left)) = {"ShutterHalf"}
    BY <1>1, <1>3 DEF Cmd, Delivery!After
  <2> QED
    BY <1>1, <1>3, <2>1 DEF OnCourse
<1>4. CASE left = Tail(Shutter) /\ held = {"ShutterHalf"}
  <2>1. Delivery!After(Head(left)) = {"ShutterHalf", "ShutterFull"}
    BY <1>1, <1>4 DEF Cmd, Delivery!After
  <2> QED
    BY <1>1, <1>4, <2>1 DEF OnCourse
<1>5. CASE left = Tail(Tail(Shutter)) /\ held = {"ShutterHalf", "ShutterFull"}
  <2>1. Delivery!After(Head(left)) = {"ShutterFull"}
    BY <1>1, <1>5 DEF Cmd, Delivery!After
  <2> QED
    BY <1>1, <1>5, <2>1 DEF OnCourse
<1>6. CASE left = Tail(Tail(Tail(Shutter))) /\ held = {"ShutterFull"}
  <2>1. Head(left) = Cmd("ShutterFull", FALSE)
    BY <1>1, <1>6
  <2>2. Head(left).control = "ShutterFull" /\ ~Head(left).down
    BY ONLY <2>1 DEF Cmd
  <2>3. Delivery!After(Head(left)) = {}
    BY <1>6, <2>2 DEF Delivery!After
  <2> QED
    BY <1>1, <1>6, <2>3 DEF OnCourse
<1>7. CASE left = Record /\ held = {}
  <2>1. Delivery!After(Head(left)) = {"Record"}
    BY <1>2, <1>7 DEF Cmd, Delivery!After
  <2> QED
    BY <1>2, <1>7, <2>1 DEF OnCourse
<1>8. CASE left = Tail(Record) /\ held = {"Record"}
  <2>1. Delivery!After(Head(left)) = {}
    BY <1>2, <1>8 DEF Cmd, Delivery!After
  <2> QED
    BY <1>2, <1>8, <2>1 DEF OnCourse
<1> QED
  BY <1>3, <1>4, <1>5, <1>6, <1>7, <1>8 DEF OnCourse

\* Used of steps that neither write nor connect.
InUse == started /\ ~stopping /\ ~relinked /\ conn.handle # NoHandle

LEMMA HeldAside ==
    ASSUME HeldInv, Reconnected' => Reconnected,
           UNCHANGED <<held, relinked, started, stopping, result, Remaining, task>>,
           Got' <=> Got, Waiting' <=> Waiting,
           proc' = proc \/ proc' # "WriteButton", state' = state \/ state' # "Ready",
           \/ conn'.handle = NoHandle
           \/ conn'.handle = conn.handle /\ (InUse /\ Served => Served')
    PROVE  HeldInv'
<1>1. Released => Released'
  BY DEF Released
<1>2. New => New'
  BY <1>1 DEF New
<1> QED
  BY <1>1, <1>2 DEF HeldInv, InUse
\* The ble thread goes on serving a camera, or on setting one up.
LEMMA HeldBle ==
    ASSUME AppInv, HeldInv, BleThread, UNCHANGED app
    PROVE  HeldInv'
<1> USE BleFrameOfPress DEF data, device, session, shown, radio, peer, software, Step, Goto
<1>0. PressInv /\ SearchInv /\ ChainInv
  BY DEF AppInv
<1>1. /\ UNCHANGED <<held, relinked, started, stopping, result, Remaining, task>>
      /\ (Waiting' <=> Waiting) /\ (Got' <=> Got)
      /\ proc' = proc \/ (proc = "None" /\ proc' # "WriteButton")
      /\ state' = state \/ state' # "Ready" \/ NotificationsEnabled
  BY <1>0, BleFrame, BleChanges DEF SearchInv, camera, call, app, Got
<1>2. NoMoreDone
  BY BleChanges, NothingCompletes
<1>3. ASSUME ~NotificationsEnabled,
             \/ conn'.handle = NoHandle
             \/ conn'.handle = conn.handle /\ (InUse /\ Served => Served')
      PROVE  HeldInv'
  BY <1>1, <1>2, <1>3, HeldAside DEF NoMoreDone
<1>4. CASE HandleConnectedPairing \/ HandleConnected
  <2>1. /\ started /\ inbox # <<>> /\ inbox' = Tail(inbox) /\ proc' = proc
        /\ Head(inbox).type = "connected" /\ Head(inbox).ok
        /\ state' = state \/ state' = "Pairing"
    BY <1>0, <1>4, Taken DEF HandleConnectedPairing, HandleConnected, Take
  <2>2. conn.handle = NoHandle /\ Unaware /\ Reconnected
    BY <2>1, FirstEvent, DoneTaken
  <2>3. proc = "None" /\ (~stopping => state # "Ready")
    BY <1>0, <2>1, <2>2 DEF Unaware, Silent, Idle, PressInv
  <2>4. ASSUME ~stopping, ~relinked PROVE held = {} /\ Remaining = <<>>
    BY <1>0, <2>1, <2>2, <2>4 DEF HeldInv, PressInv
  <2> QED
    BY <1>1, <1>2, <2>1, <2>3, <2>4 DEF HeldInv, New, Released, NoMoreDone
<1>5. CASE NotificationsEnabled
  <2>1. /\ UNCHANGED <<conn, proc, pairing, inbox>>
        /\ at["ble"] = "completed" /\ at'["ble"] = "idle"
    BY <1>5 DEF NotificationsEnabled
  <2>2. started => conn.handle # NoHandle
    BY <1>0, <2>1 DEF ChainInv
  <2>3. ~Served
    BY <2>1 DEF Served
  <2>4. ASSUME started, ~stopping, ~relinked PROVE New /\ OneAtATime
    BY <1>0, <2>2, <2>3, <2>4 DEF HeldInv, PressInv
  <2>5. New /\ OneAtATime => Released' /\ Served'
    BY <1>1, <1>2, <2>1 DEF New, Released, OneAtATime, Idle, Served, NoMoreDone
  <2> QED
    BY <1>1, <1>2, <2>1, <2>4, <2>5 DEF HeldInv, Released, NoMoreDone
<1>6. CASE \/ ScanDeclined("ble") \/ ScanChecked("ble") \/ ScanAccepted("ble")
           \/ ScanRefused("ble") \/ ScanFlagged("ble") \/ ScanShown("ble")
           \/ TerminateAccepted \/ TerminateRefused
           \/ PairingRequested \/ PairingRefused \/ RequestAccepted \/ RequestRefused
           \/ DiscoveredNext \/ DiscoveredNothing
  <2>1. (~Served /\ ~NotificationsEnabled) \/ at["ble"] = "completed"
    BY <1>6 DEF ScanDeclined, ScanChecked, ScanAccepted, ScanRefused, ScanFlagged, ScanShown,
       TerminateAccepted, TerminateRefused, PairingRequested, PairingRefused,
       RequestAccepted, RequestRefused, DiscoveredNext, DiscoveredNothing,
       NotificationsEnabled, Served
  <2>2. conn'.handle = NoHandle \/ conn'.handle = conn.handle
    BY <1>6 DEF ScanDeclined, ScanChecked, ScanAccepted, ScanRefused, ScanFlagged, ScanShown,
       TerminateAccepted, TerminateRefused, PairingRequested, PairingRefused,
       RequestAccepted, RequestRefused, DiscoveredNext, DiscoveredNothing,
       ResetConnection, NoConnection, Connection
  <2> QED
    BY <1>3, <1>5, <2>1, <2>2 DEF Served
<1>7. CASE \/ HandleAdvertisingReport \/ HandleGapComplete \/ HandleGapFailure
           \/ HandleConnectionFailure \/ HandleDisconnected
  <2>1. conn'.handle = NoHandle
    BY <1>0, <1>7, SeekerUnlinked DEF HandleDisconnected, ResetConnection, NoConnection
  <2> QED
    BY <1>3, <1>5, <2>1
<1>8. CASE \/ Drop \/ HandleResult \/ HandleNotification \/ HandleNumericComparison
  <2>1. /\ conn'.handle = conn.handle /\ conn'.operation = conn.operation
        /\ UNCHANGED <<at, proc>> /\ (pairing' = "none" <=> pairing = "none")
    BY <1>8 DEF Drop, HandleResult, HandleNotification, HandleNumericComparison,
       ConfirmPairing, Connection
  <2>2. Served => Served'
    BY <1>2, <2>1 DEF Served, NoMoreDone
  <2> QED
    BY <1>3, <1>5, <2>1, <2>2
<1>9. CASE HandlePairingFailure \/ HandlePairingComplete
  <2>1. PairDone /\ conn'.handle = conn.handle
    BY <1>9, DoneTaken DEF HandlePairingFailure, HandlePairingComplete, Take, Connection
  <2> QED
    BY <1>3, <1>5, <2>1 DEF Served
<1>10. CASE HandleGattFailure \/ HandleGattComplete
  <2>1. GattDone /\ conn.operation # "WriteButton" /\ conn'.handle = conn.handle
    BY <1>10, DoneTaken DEF HandleGattFailure, HandleGattComplete, Take, Connection
  <2> QED
    BY <1>3, <1>5, <2>1 DEF Served
<1>11. CASE HandleWriteComplete
  <2>1. /\ inbox # <<>> /\ inbox' = Tail(inbox) /\ Head(inbox).type = "gattComplete"
        /\ conn'.handle = conn.handle /\ UNCHANGED <<at, proc, pairing>>
    BY <1>11 DEF HandleWriteComplete, Take, Connection
  <2>2. GattDone
    BY <2>1, DoneTaken
  <2>3. InUse => OneAtATime
    BY <1>0 DEF InUse, PressInv
  <2>4. OneAtATime => proc = "None" /\ ~GattDone'
    BY <2>1, <2>2, DoneTaken DEF OneAtATime, Idle, Completion
  <2>5. InUse /\ Served => Served'
    BY <1>2, <2>1, <2>3, <2>4 DEF Served, NoMoreDone
  <2> QED
    BY <1>3, <1>5, <2>1, <2>5
<1> QED
  BY <1>4, <1>5, <1>6, <1>7, <1>8, <1>9, <1>10, <1>11 DEF BleThread, StartScan

\* The keys begin a press when no button is held, and end it when it is done.
LEMMA HeldInput ==
    ASSUME AppInv, HeldInv, HandleInput \/ BackHeld
    PROVE  HeldInv'
<1> USE DEF Step, Goto, session, device, data, shown, radio, peer, camera, call
<1>0. /\ PressInv /\ SearchInv /\ TaskInv /\ GapInv
      /\ at \in [{"app", "ble"} -> AppLabels \cup BleLabels]
  BY DEF AppInv, SearchInv, LinkageInv, TypeInv, TypeOK, ControlTypeOK, AtOK
<1>1. /\ UNCHANGED <<held, relinked, started, conn, proc, pairing, ack, inbox>>
      /\ at["app"] = "loop" /\ at'["ble"] = at["ble"]
      /\ state' = state \/ state' # "Ready"
  BY <1>0 DEF HandleInput, Press, SendNext, SendButton, SendDeclined, Sent, NotSent, ReportError,
     BackHeld, Stop, app, vars, software
<1>2. /\ (Reconnected' <=> Reconnected) /\ (GattDone' <=> GattDone) /\ (PairDone' <=> PairDone)
      /\ (Served => Served') /\ (Released => Released')
  BY <1>1, DoneSame DEF Served, Released
<1>3. ASSUME NEW s \in Presses, Press(s) PROVE HeldInv'
  <2>1. /\ UNCHANGED <<started, stopping, result, at, state>> /\ task = "idle" /\ task' = "send"
        /\ state = "Ready" /\ todo' = s
    BY <1>3 DEF Press, vars, software
  <2>2. started /\ ~stopping
    BY <1>0, <1>3 DEF Press, SearchInv, LinkageInv, HangInv, GapInv, Leaving
  <2>3. ~relinked => Released /\ ~New
    BY <2>1, <2>2 DEF HeldInv, New
  <2>4. Remaining' = s /\ s # <<>> /\ s \in {Shutter, Record}
    BY <2>1, PressesAreCommands, PressesAssumption DEF Remaining
  <2>5. ~Waiting /\ ~Waiting'
    BY <1>1, <2>1 DEF Waiting
  <2> QED
    BY <1>1, <1>2, <2>1, <2>2, <2>3, <2>4, <2>5 DEF HeldInv, Released, Got, OnCourse
<1>4. CASE SendNext
  <2>1. /\ UNCHANGED <<started, stopping, todo, state>> /\ task = "send" /\ task' = "sent"
        /\ Remaining = todo /\ todo # <<>> /\ ~Waiting /\ ~Waiting'
    BY <1>0, <1>1, <1>4 DEF SendNext, SendButton, SendDeclined, TaskInv, Waiting, Remaining
  <2>2. \/ UNCHANGED result /\ Remaining' = Remaining
        \/ ~result' /\ Remaining' = <<>>
    BY <1>0, <1>4, <2>1 DEF SendNext, SendButton, SendDeclined, Remaining
  <2>3. New => New'
    BY <1>2, <2>1, <2>2 DEF New
  <2> QED
    BY <1>1, <1>2, <2>1, <2>2, <2>3 DEF HeldInv, Released, Got
<1>5. CASE Sent
  <2>1. /\ UNCHANGED <<started, stopping, result, at, state>> /\ task = "sent" /\ result
        /\ Remaining = Tail(todo) /\ Remaining' = Tail(todo)
        /\ task' = "idle" => Tail(todo) = <<>>
        /\ ~Waiting /\ ~Waiting'
    BY <1>1, <1>5 DEF Sent, vars, software, Remaining, Waiting
  <2>2. New => New'
    BY <1>2, <2>1 DEF New
  <2> QED
    BY <1>1, <1>2, <2>1, <2>2 DEF HeldInv, Released, Got
<1>6. CASE NotSent \/ BackHeld
  <2>1. /\ UNCHANGED <<started, result>> /\ Remaining' = Remaining
        /\ ~Waiting /\ ~Waiting' /\ (stopping' \/ (stopping' = stopping /\ state' # "Ready"))
    <3>1. CASE NotSent
      BY <1>1, <3>1 DEF NotSent, ReportError, Remaining, Waiting
    <3>2. CASE BackHeld
      <4>1. /\ UNCHANGED <<started, result, task, todo>> /\ task = "idle" /\ stopping'
            /\ at'["app"] = "stopScan"
        BY <1>0, <3>2 DEF BackHeld, Stop, app
      <4>2. Remaining = todo /\ Remaining' = todo
        BY <4>1 DEF Remaining
      <4> QED
        BY <1>1, <4>1, <4>2 DEF Waiting
    <3> QED
      BY <1>6, <3>1, <3>2
  <2>2. state' # "Ready" /\ New => New'
    BY <1>2, <2>1 DEF New
  <2> QED
    BY <1>1, <1>2, <2>1, <2>2 DEF HeldInv, Released, Got
<1> QED
  BY <1>3, <1>4, <1>5, <1>6 DEF HandleInput

\* A press that is not over has commands left.
LEMMA NotOverYet ==
    /\ Tail(Shutter) # <<>> /\ Tail(Tail(Shutter)) # <<>>
    /\ Tail(Tail(Tail(Shutter))) # <<>> /\ Tail(Record) # <<>>
<1>1. \A s : Len(s) # Len(<<>>) => s # <<>>
  BY Zenon
<1>2. /\ Len(Tail(Shutter)) # Len(<<>>) /\ Len(Tail(Tail(Shutter))) # Len(<<>>)
      /\ Len(Tail(Tail(Tail(Shutter)))) # Len(<<>>) /\ Len(Tail(Record)) # Len(<<>>)
  BY DEF Shutter, Record
<1> QED
  BY <1>1, <1>2, Zenon

\* What send_button returns ends a command, and the end of a press is that of its course.
LEMMA HeldSends ==
    ASSUME AppInv, HeldInv, SendCall, UNCHANGED app
    PROVE  HeldInv'
<1> USE DEF Step, Goto, session, device, data, shown, radio, peer, camera, call, app, Sending,
        Waiting, Got
<1>0. /\ PressInv /\ TaskInv /\ WriteInv /\ conn \in Connection
      /\ at \in [{"app", "ble"} -> AppLabels \cup BleLabels]
  BY DEF AppInv, SearchInv, TypeInv, TypeOK, ControlTypeOK, AtOK, DeviceTypeOK
<1>1. /\ UNCHANGED <<held, relinked, started, stopping, pairing, inbox, state, task, todo>>
      /\ Sending /\ at'["ble"] = at["ble"] /\ conn'.handle = conn.handle
  BY <1>0 DEF SendCall, Arm, Claim, WriteAccepted, BeginWrite, WriteRefused, Woken, SendReturns,
     SendTimeout, Connection
<1>2. /\ Remaining = todo /\ todo # <<>> /\ task = "sent" /\ started /\ ~stopping
  BY <1>0, <1>1 DEF TaskInv, Remaining
<1>3. (Reconnected' <=> Reconnected) /\ (GattDone' <=> GattDone) /\ (PairDone' <=> PairDone)
  BY <1>1, DoneSame
<1>4. ASSUME ~relinked, conn.handle # NoHandle PROVE Calm /\ Served
  BY <1>0, <1>2, <1>4, PressServed DEF HeldInv, New
<1>5. CASE Arm \/ Claim \/ Woken
  <2>1. /\ UNCHANGED <<result, proc, ack>> /\ at'["app"] # "loop" /\ (Waiting' <=> Waiting)
        /\ conn'.operation \in {conn.operation, "WriteButton"}
    BY <1>0, <1>5 DEF Arm, Claim, Woken, Connection
  <2>2. Remaining' = Remaining
    BY <1>1, <1>2, <2>1 DEF Remaining
  <2>3. Served => Served'
    BY <1>1, <1>3, <2>1 DEF Served
  <2> QED
    BY <1>1, <1>3, <2>1, <2>2, <2>3, HeldAside
<1>6. CASE WriteAccepted
  <2>1. /\ UNCHANGED <<result, conn>> /\ at["app"] = "write" /\ at'["app"] = "wait"
        /\ proc' = "WriteButton" /\ ack' = "pending" /\ ~Waiting
    BY <1>0, <1>6 DEF WriteAccepted, BeginWrite
  <2>2. Remaining' = todo
    BY <1>1, <1>2, <2>1 DEF Remaining
  <2>3. Served /\ Calm => Served'
    BY <1>1, <1>3, <2>1 DEF Served, Calm
  <2> QED
    BY <1>1, <1>2, <1>3, <1>4, <2>1, <2>2, <2>3 DEF HeldInv
<1>7. CASE WriteRefused \/ SendTimeout \/ SendReturns
  <2>1. /\ at'["app"] = "loop" /\ proc' = proc
        /\ conn' = conn \/ (at["app"] = "write" /\ conn'.operation = "None")
        /\ result' => Waiting /\ conn.written /\ conn.handle # NoHandle
    BY <1>0, <1>7 DEF WriteRefused, SendTimeout, SendReturns, Connection
  <2>2. Remaining' = IF result' THEN Tail(todo) ELSE <<>>
    BY <1>1, <1>2, <2>1 DEF Remaining
  <2>3. ASSUME ~relinked, result' PROVE Got /\ proc = "None" /\ OnCourse(Tail(todo), held)
    <3>1. Got /\ proc = "None"
      BY <1>4, <2>1, <2>3 DEF Calm
    <3> QED
      BY <1>2, <2>3, <3>1 DEF HeldInv
  <2>4. OnCourse(<<>>, held) => held = {}
    BY NotOverYet DEF OnCourse
  <2>5. Served /\ Calm => Served'
    BY <1>1, <1>3, <2>1 DEF Served, Calm
  <2>6. ~Waiting' /\ ~Got'
    BY <2>1
  <2>7. Remaining' = <<>> /\ result' /\ ~relinked => Released'
    BY <1>1, <2>1, <2>2, <2>3, <2>4 DEF Released
  <2>8. Remaining' # <<>> /\ ~relinked => proc' # "WriteButton" /\ OnCourse(Remaining', held')
    BY <1>1, <2>1, <2>2, <2>3
  <2> QED
    BY <1>1, <1>2, <1>3, <1>4, <2>5, <2>6, <2>7, <2>8 DEF HeldInv
<1> QED
  BY <1>5, <1>6, <1>7 DEF SendCall

\* No press is under way while the app starts or stops.
LEMMA HeldSession ==
    ASSUME AppInv, HeldInv, StartCall \/ StopCall, UNCHANGED app
    PROVE  HeldInv'
<1> USE DEF Step, Goto, session, device, data, shown, radio, air, peer, camera, call, app,
        Waiting, Got
<1>0. /\ PressInv /\ TaskInv /\ SearchInv /\ GapInv
      /\ at \in [{"app", "ble"} -> AppLabels \cup BleLabels]
  BY DEF AppInv, SearchInv, LinkageInv, TypeInv, TypeOK, ControlTypeOK, AtOK
<1>1. /\ ~Sending /\ at["app"] # "loop" /\ ~Waiting /\ ~Waiting' /\ at'["ble"] = at["ble"]
      /\ UNCHANGED <<held, relinked, result, proc, pairing, inbox>>
  <2>1. CASE StartCall
    BY <1>0, <2>1 DEF StartCall, Start, StopAdvertising, SetAdvertising, StartScan,
       ScanDeclined, ScanChecked, ScanAccepted, BeginDiscovery, ScanRefused, ScanFlagged,
       ScanShown, Home, Sending
  <2>2. CASE StopCall
    BY <1>0, <2>2 DEF StopCall, StopScan, StopScanFlag, StopNoScan, StopLink, StopNoLink,
       HangUp, AwaitDown, Unregister, Release, SetAdvertising, EndDiscovery, EndConnection,
       Sending
  <2> QED
    BY <2>1, <2>2
<1>2. task = "idle" /\ Remaining = <<>> /\ Remaining' = <<>>
  BY <1>0, <1>1 DEF TaskInv, Remaining
<1>3. (Reconnected' <=> Reconnected) /\ (GattDone' <=> GattDone) /\ (PairDone' <=> PairDone)
  BY <1>1, DoneSame
<1>4. CASE Start
  <2>1. at["app"] = "off" /\ UNCHANGED <<conn, state>>
    BY <1>4 DEF Start
  <2>2. state # "Ready" /\ conn.handle = NoHandle /\ ~Reconnected
    BY <1>0, <2>1 DEF PressInv, SearchInv, LinkageInv, SeekInv, Seeking, Unlinked, SessionInv,
       Fresh, Reconnected, Positions
  <2> QED
    BY <1>1, <1>2, <1>3, <2>1, <2>2 DEF HeldInv, Released
<1>5. CASE StopAdvertising \/ StartScan("app")
  <2>1. /\ UNCHANGED <<started, stopping>> /\ (state' = state \/ state' # "Ready")
        /\ conn' = conn \/ conn'.handle = NoHandle
    <3>1. CASE StopAdvertising \/ ScanDeclined("app") \/ ScanChecked("app")
      BY <3>1 DEF StopAdvertising, ScanDeclined, ScanChecked
    <3>2. CASE ScanAccepted("app") \/ ScanRefused("app")
      BY <3>2 DEF ScanAccepted, ScanRefused, ResetConnection, NoConnection
    <3>3. CASE ScanFlagged("app") \/ ScanShown("app")
      BY <3>3 DEF ScanFlagged, ScanShown
    <3> QED
      BY <1>5, <3>1, <3>2, <3>3 DEF StartScan
  <2>2. conn' = conn /\ Served => Served'
    BY <1>1, <1>3 DEF Served
  <2> QED
    BY <1>1, <1>2, <1>3, <2>1, <2>2, HeldAside
<1>6. CASE StopCall
  <2>1. stopping /\ stopping' = stopping
    BY <1>0, <1>6 DEF StopCall, StopScan, StopScanFlag, StopNoScan, StopLink, StopNoLink,
       HangUp, AwaitDown, Unregister, Release, GapInv, Leaving
  <2> QED
    BY <1>1, <1>2, <2>1 DEF HeldInv, Released
<1> QED
  BY <1>4, <1>5, <1>6 DEF StartCall

\* The camera executes what the press is at; one that connects holds nothing.
LEMMA HeldOutside ==
    ASSUME "discoveryTimeout" \notin Faults, AppInv, HeldInv, Outside
    PROVE  HeldInv'
<1> USE DEF radio, air, peer, camera
<1>0. /\ TaskInv /\ WriteInv /\ TypeInv /\ EpochInv /\ inbox \in Seq(Event) /\ link \in Link
      /\ link.phase \in {"up", "closing"} => link.handle \in Handles /\ link.camera \in Cameras
  BY DEF AppInv, SearchInv, LinkageInv, TypeInv, TypeOK, RadioTypeOK, LinkInv
<1>1. /\ UNCHANGED <<at, conn, state, started, stopping, result, task, todo>>
      /\ Remaining' = Remaining /\ (Waiting' <=> Waiting)
  BY DEF Outside, Environment, software, data, device, session, call, shown, Remaining, Waiting
<1>2. ASSUME link'.phase = "up" => link.phase = "up" PROVE relinked' = relinked
  BY <1>2 DEF Outside
<1>3. ASSUME NEW h \in Handles, LinkUp(h) PROVE HeldInv'
  <2>1. started => conn.handle = NoHandle
    BY <1>0, <1>1, <1>3, LinkComes
  <2>2. relinked' = (Remaining # <<>>) /\ held' = {} /\ proc' = "None"
    BY <1>0, <1>3 DEF Outside, LinkUp, Link, EpochInv, Idle
  <2> QED
    BY <1>1, <2>1, <2>2 DEF HeldInv, Released
<1>4. CASE Quiet
  <2>1. /\ NoMoreDone /\ UNCHANGED <<proc, held, ack>> /\ (pairing = "none" <=> pairing' = "none")
        /\ relinked' = relinked
    BY <1>0, <1>2, <1>4, QuietReports
  <2>2. (Got' <=> Got) /\ (Served => Served')
    BY <1>1, <2>1 DEF Got, Served, NoMoreDone
  <2> QED
    BY <1>1, <2>1, <2>2, HeldAside DEF NoMoreDone
<1>5. CASE LinkDown
  <2>1. /\ inbox' = Append(inbox, Disconnected(link.handle))
        /\ Disconnected(link.handle) \in Event /\ UNCHANGED <<ack, held>>
        /\ proc' = "None" /\ pairing' = "none" /\ relinked' = relinked
    BY <1>0, <1>2, <1>5, EventIntro DEF LinkDown, Report, NoLink
  <2>2. NoMoreDone
    BY <1>0, <2>1, NothingCompletes DEF Disconnected, Completion
  <2>3. (Got' <=> Got) /\ (Served => Served')
    BY <1>1, <2>1, <2>2 DEF Got, Served, NoMoreDone
  <2> QED
    BY <1>1, <2>1, <2>2, <2>3, HeldAside DEF NoMoreDone
<1>6. ASSUME NEW ok \in BOOLEAN, PairFinishes(ok) PROVE HeldInv'
  <2>1. /\ inbox' = Append(inbox, PairingComplete(link.handle, ok))
        /\ PairingComplete(link.handle, ok) \in Event
        /\ pairing # "none" /\ UNCHANGED <<proc, ack, held, relinked>>
    BY <1>0, <1>2, <1>6, EventIntro DEF PairFinishes, Report
  <2>2. Reconnected' <=> Reconnected
    BY <1>0, <2>1, DoneAdded DEF PairingComplete
  <2>3. (Got' <=> Got) /\ ~Served
    BY <1>1, <2>1 DEF Got, Served
  <2> QED
    BY <1>1, <2>1, <2>2, <2>3, HeldAside
<1>7. CASE DiscoverySucceeds
  <2> DEFINE r == Result(link.handle, <<link.camera, Seeks[proc]>>)
             g == GattComplete(link.handle, TRUE)
  <2>1. r \in Event /\ g \in Event /\ r.type = "result" /\ g.type = "gattComplete"
    <3>1. <<link.camera, Seeks[proc]>> \in Attrs
      BY <1>0, <1>7 DEF DiscoverySucceeds, Attrs, Kinds, Seeks, Discoveries
    <3>2. r \in Event /\ g \in Event
      BY <1>0, <1>7, <3>1, EventIntro DEF DiscoverySucceeds
    <3> QED
      BY <3>2 DEF Result, GattComplete
  <2>2. /\ inbox' = inbox \o <<r, g>> /\ proc \notin {"None", "WriteButton"}
        /\ proc' = "None" /\ UNCHANGED <<ack, held, relinked>>
    BY <1>2, <1>7 DEF DiscoverySucceeds, Discoveries, Seeks
  <2>3. Reconnected' <=> Reconnected
    <3> HIDE DEF r, g
    <3> QED
      BY <1>0, <2>1, <2>2, FoundAdded
  <2>4. (Got' <=> Got) /\ ~Served
    BY <1>1, <2>2 DEF Got, Served
  <2> QED
    BY <1>1, <2>2, <2>3, <2>4, HeldAside
<1>8. ASSUME proc # "None", proc' = "None", UNCHANGED <<pairing, link>>,
             NEW ok \in BOOLEAN, inbox' = Append(inbox, GattComplete(link.handle, ok)),
             link.phase = "up"
      PROVE  /\ relinked' = relinked /\ (Reconnected' <=> Reconnected)
             /\ started => ~Reconnected
             /\ Served => Served'
  <2>1. GattComplete(link.handle, ok) \in Event /\ relinked' = relinked
    BY <1>0, <1>2, <1>8, EventIntro
  <2>2. (Reconnected' <=> Reconnected) /\ (PairDone' <=> PairDone)
    BY <1>0, <1>8, <2>1, DoneAdded DEF GattComplete
  <2>3. started => ~Reconnected
    BY <1>0, <1>8, AwareOf DEF Idle
  <2> QED
    BY <1>1, <1>8, <2>1, <2>2, <2>3 DEF Served
<1>9. CASE DiscoveryFindsNothing \/ EnablingSucceeds \/ GattFails
  <2>1. /\ relinked' = relinked /\ (Reconnected' <=> Reconnected)
        /\ Served => Served'
    BY <1>8, <1>9 DEF DiscoveryFindsNothing, EnablingSucceeds, GattFails, Report, Discoveries,
       Seeks
  <2>2. /\ held' = held /\ proc' = "None"
        /\ ack' = ack \/ (ack = "pending" /\ ack' = "error")
    BY <1>0, <1>9 DEF DiscoveryFindsNothing, EnablingSucceeds, GattFails, WriteInv
  <2>3. Got' <=> Got
    BY <1>1, <2>2 DEF Got
  <2> QED
    BY <1>1, <2>1, <2>2, <2>3, HeldAside
<1>10. CASE WriteSucceeds
  <2>1. /\ relinked' = relinked /\ (Reconnected' <=> Reconnected)
        /\ started => ~Reconnected
        /\ Served => Served'
    BY <1>8, <1>10 DEF WriteSucceeds, Report
  <2>2. /\ proc = "WriteButton" /\ proc' = "None" /\ ack = "pending" /\ ack' = "ok"
        /\ held' = Delivery!After(sent.button)
    BY <1>0, <1>10 DEF WriteSucceeds, WriteInv, Delivery!After
  <2>3. ~Released /\ ~New
    BY <2>2 DEF Released, New
  <2>4. Waiting => Remaining = todo /\ sent.button = Head(todo)
    BY <1>0 DEF TaskInv, WriteInv, Sending, Waiting, Remaining
  <2>5. ASSUME ~relinked, Remaining # <<>>
        PROVE  Waiting /\ Got' /\ OnCourse(Tail(Remaining), held')
    <3>1. Waiting /\ ~Got /\ Got'
      BY <1>1, <2>2, <2>5 DEF HeldInv, Got
    <3>2. OnCourse(Remaining, held)
      BY <2>5, <3>1 DEF HeldInv
    <3> QED
      BY <2>2, <2>4, <2>5, <3>1, <3>2, Onward
  <2> QED
    BY <1>1, <2>1, <2>2, <2>3, <2>5 DEF HeldInv
<1> QED
  BY <1>3, <1>4, <1>5, <1>6, <1>7, <1>9, <1>10 DEF Outside, Environment, Radio, Camera, Quiet,
     DiscoveryTimeout

LEMMA HeldStep ==
    "discoveryTimeout" \notin Faults /\ AppInv /\ HeldInv /\ [AppNext]_appVars => HeldInv'
<1> SUFFICES ASSUME "discoveryTimeout" \notin Faults, AppInv, HeldInv, [AppNext]_appVars
             PROVE  HeldInv'
  OBVIOUS
<1>1. CASE (Exited /\ UNCHANGED app) \/ UNCHANGED appVars
  <2>1. /\ UNCHANGED <<held, relinked, started, stopping, result, task, todo, state, proc, ack>>
        /\ UNCHANGED <<conn, at, pairing, inbox>> /\ Remaining' = Remaining
    BY <1>1 DEF Exited, app, appVars, vars, software, data, device, session, call, shown, radio,
       peer, camera, Remaining
  <2>2. (Got' <=> Got) /\ (Waiting' <=> Waiting) /\ (Reconnected' <=> Reconnected)
    BY <2>1, DoneSame DEF Got, Waiting
  <2>3. Served => Served'
    BY <2>1, DoneSame DEF Served
  <2> QED
    BY <2>1, <2>2, <2>3, HeldAside
<1> QED
  BY <1>1, HeldInput, HeldSends, HeldSession, HeldBle, HeldOutside DEF AppNext, Calls

\* A press whose last command was delivered leaves no button held: the camera
\* executes the commands of a press and no others while the link lasts, and one
\* that connects anew is not served a press begun before.
THEOREM NothingStaysHeld ==
    "discoveryTimeout" \notin Faults => (AppSpec => []PressLeavesNothingHeld)
<1> SUFFICES ASSUME "discoveryTimeout" \notin Faults PROVE AppSpec => []PressLeavesNothingHeld
  OBVIOUS
<1>1. AppInv /\ [AppNext]_appVars => AppInv'
  BY AppInvStep
<1>2. AppInv /\ HeldInv /\ [AppNext]_appVars => HeldInv'
  BY HeldStep
<1>3. AppInit => HeldInv
  <2> SUFFICES ASSUME AppInit PROVE HeldInv
    OBVIOUS
  <2> QED
    BY DEF AppInit, Init, RadioInit, HeldInv, Released, Remaining
<1>4. AppInv /\ HeldInv => PressLeavesNothingHeld
  BY DEF AppInv, TaskInv, Remaining, HeldInv, Released, PressLeavesNothingHeld
<1> QED
  BY <1>1, <1>2, <1>3, <1>4, AppInvInit, PTL DEF AppSpec
-----------------------------------------------------------------------------
(* WriteReachesCamera.  What was found on the link is there until it goes,   *)
(* and a link that comes up in the middle of a press is noted.               *)

\* The handle tested before the write stays found while there is a connection.
ReachInv == ~relinked =>
    /\ at["app"] \in {"arm", "claim", "write"} => conn.handle = NoHandle \/ Found("command")
    /\ proc = "WriteButton" => sent.attr = <<link.camera, "command">>

LEMMA ReachAside ==
    ASSUME ReachInv, relinked' = relinked,
           \/ at'["app"] \notin {"arm", "claim", "write"}
           \/ /\ at'["app"] = at["app"] \/ at["app"] \in {"arm", "claim"}
              /\ \/ conn'.handle = NoHandle
                 \/ conn.handle # NoHandle /\ (Found("command") => Found("command")'),
           \/ proc' # "WriteButton"
           \/ proc' = proc /\ link'.camera = link.camera /\ sent' = sent
    PROVE  ReachInv'
  BY DEF ReachInv

LEMMA ReachBle ==
    ASSUME AppInv, FoundInv, ReachInv, BleThread, UNCHANGED app PROVE ReachInv'
<1> USE DEF Home, software, Goto, Step, session, search, device, data, radio, air, peer
<1>0. /\ at'["app"] = at["app"] /\ UNCHANGED <<relinked, sent>> /\ conn \in Connection
      /\ SearchInv /\ TaskInv /\ EpochInv
  BY BleFrame DEF AppInv, SearchInv, LinkageInv, TypeInv, TypeOK, DeviceTypeOK, app, camera
<1>1. proc' # "WriteButton" \/ (proc' = proc /\ link'.camera = link.camera)
  <2>1. CASE RequestAccepted
    BY <1>0, <2>1 DEF RequestAccepted, BeginGatt, AppInv, WriteInv
  <2>2. CASE HandleGapComplete
    <3>1. link.phase = "down" /\ proc' = proc
      BY <2>2 DEF HandleGapComplete, CanConnect, BeginConnection
    <3> QED
      BY <1>0, <3>1 DEF EpochInv, Idle
  <2>3. CASE StartScan("ble")
    BY <2>3 DEF StartScan, ScanDeclined, ScanChecked, ScanAccepted, ScanRefused, ScanFlagged,
       ScanShown, BeginDiscovery
  <2>4. CASE \/ Drop \/ HandleAdvertisingReport \/ TerminateAccepted \/ TerminateRefused
             \/ HandleGapFailure \/ HandleConnectionFailure
             \/ HandleConnectedPairing \/ HandleConnected \/ HandleDisconnected
    BY <2>4 DEF Drop, HandleAdvertisingReport, TerminateAccepted, TerminateRefused,
       HandleGapFailure, HandleConnectionFailure, HandleConnectedPairing,
       HandleConnected, HandleDisconnected, EndDiscovery
  <2>5. CASE \/ PairingRequested \/ PairingRefused \/ HandleNumericComparison
             \/ HandlePairingFailure \/ HandlePairingComplete \/ RequestRefused
    BY <2>5 DEF PairingRequested, PairingRefused, HandleNumericComparison,
       HandlePairingFailure, HandlePairingComplete, RequestRefused, BeginPairing,
       ConfirmPairing
  <2>6. CASE \/ HandleResult \/ HandleWriteComplete \/ HandleGattFailure
             \/ HandleGattComplete \/ DiscoveredNext \/ DiscoveredNothing
             \/ NotificationsEnabled \/ HandleNotification
    BY <2>6 DEF HandleResult, HandleWriteComplete, HandleGattFailure, HandleGattComplete,
       DiscoveredNext, DiscoveredNothing, NotificationsEnabled, HandleNotification
  <2> QED
    BY <2>1, <2>2, <2>3, <2>4, <2>5, <2>6 DEF BleThread
<1>2. ASSUME ~relinked, at["app"] \in {"arm", "claim", "write"}
      PROVE  \/ conn'.handle = NoHandle
             \/ conn.handle # NoHandle /\ (Found("command") => Found("command")')
  <2> USE DEF Found
  <2>1. CASE HandleConnectedPairing \/ HandleConnected
    <3>1. Reconnected
      BY <2>1, <1>0, Taken, DoneTaken DEF HandleConnectedPairing, HandleConnected
    <3>2. Remaining # <<>> /\ started /\ ~stopping
      BY <1>0, <1>2 DEF TaskInv, Sending, Remaining
    <3> QED
      BY <1>2, <3>1, <3>2 DEF AppInv, PressInv
  <2>2. CASE HandleResult
    <3>1. conn.handle # NoHandle /\ Head(inbox).attr # NoAttr
      <4>1. Take("result") /\ Head(inbox) \in Event /\ Head(inbox).type = "result"
        BY <1>0, <2>2, Taken DEF HandleResult
      <4>2. Head(inbox).attr \in Attrs
        BY <4>1, EventElim
      <4> QED
        BY <1>0, <4>1, <4>2, EventOfLink, RadioAssumption DEF SearchInv, Attrs, NoAttr
    <3>2. /\ conn'.handle = conn.handle
          /\ \/ conn'.found = conn.found
             \/ \E k \in Kinds : conn'.found = [conn.found EXCEPT ![k] = Head(inbox).attr]
      <4>1. \A op \in Discoveries : Seeks[op] \in Kinds
        BY SeeksKinds
      <4> QED
        BY <1>0, <2>2, <4>1 DEF HandleResult, Connection
    <3>3. Found("command") => conn'.found["command"] # NoAttr
      <4>1. \A k \in Kinds : conn.found["command"] # NoAttr =>
                [conn.found EXCEPT ![k] = Head(inbox).attr]["command"] # NoAttr
        BY <1>0, <3>1 DEF Connection, Kinds
      <4> QED
        BY <3>2, <4>1
    <3> QED
      BY <3>1, <3>2, <3>3
  <2>3. CASE HandleDisconnected \/ ScanAccepted("ble") \/ ScanRefused("ble")
    BY <2>3 DEF HandleDisconnected, ScanAccepted, ScanRefused, ResetConnection, NoConnection
  <2>4. ASSUME conn'.found = conn.found, conn'.handle = conn.handle
        PROVE  \/ conn'.handle = NoHandle
               \/ conn.handle # NoHandle /\ (Found("command") => Found("command")')
    BY <2>4
  <2>5. CASE \/ ScanDeclined("ble") \/ ScanChecked("ble") \/ ScanFlagged("ble")
             \/ ScanShown("ble") \/ Drop \/ HandleAdvertisingReport
             \/ TerminateAccepted \/ TerminateRefused \/ HandleGapComplete
             \/ HandleGapFailure \/ HandleConnectionFailure
    BY <1>0, <2>4, <2>5 DEF ScanDeclined, ScanChecked, ScanFlagged, ScanShown, Drop,
       HandleAdvertisingReport, TerminateAccepted, TerminateRefused, HandleGapComplete,
       HandleGapFailure, HandleConnectionFailure, Connection
  <2>6. CASE \/ PairingRequested \/ PairingRefused \/ HandleNumericComparison
             \/ HandlePairingFailure \/ HandlePairingComplete
             \/ RequestAccepted \/ RequestRefused
    BY <1>0, <2>4, <2>6 DEF PairingRequested, PairingRefused, HandleNumericComparison,
       HandlePairingFailure, HandlePairingComplete, RequestAccepted, RequestRefused,
       Connection
  <2>7. CASE \/ HandleWriteComplete \/ HandleGattFailure \/ HandleGattComplete
             \/ DiscoveredNext \/ DiscoveredNothing \/ NotificationsEnabled
             \/ HandleNotification
    BY <1>0, <2>4, <2>7 DEF HandleWriteComplete, HandleGattFailure, HandleGattComplete,
       DiscoveredNext, DiscoveredNothing, NotificationsEnabled, HandleNotification, Connection
  <2> QED
    BY <2>1, <2>2, <2>3, <2>5, <2>6, <2>7 DEF BleThread, StartScan
<1> QED
  BY <1>0, <1>1, <1>2, ReachAside DEF ReachInv

LEMMA ReachApp ==
    ASSUME AppInv, FoundInv, ReachInv, HandleInput \/ BackHeld \/ Calls PROVE ReachInv'
<1> USE DEF Step, Goto, data, device, session, search, call, radio, peer, camera, app
<1>0. /\ at \in [{"app", "ble"} -> AppLabels \cup BleLabels] /\ conn \in Connection
      /\ TypeInv
  BY DEF AppInv, SearchInv, TypeInv, TypeOK, DeviceTypeOK, ControlTypeOK, AtOK
<1>1. CASE (\E s \in Presses : Press(s)) \/ Sent
  BY <1>1 DEF Press, Sent, vars, software, ReachInv, Found
<1>2. CASE SendNext
  <2>1. CASE SendButton(Head(todo))
    BY <1>0, <1>2, <2>1 DEF SendNext, SendButton, Sendable, ReachInv, Found
  <2>2. CASE SendDeclined(Head(todo))
    BY <1>0, <1>2, <2>2 DEF SendNext, SendDeclined, ReachInv, Found
  <2> QED
    BY <1>2, <2>1, <2>2 DEF SendNext
<1>3. CASE NotSent \/ BackHeld
  BY <1>0, <1>3 DEF NotSent, ReportError, BackHeld, Stop, ReachInv
<1>4. CASE Calls
  <2>1. CASE StartCall
    <3>1. at'["app"] \notin {"arm", "claim", "write"}
      BY <1>0, <2>1 DEF StartCall, Start, StopAdvertising, StartScan, ScanDeclined, ScanChecked,
         ScanAccepted, ScanRefused, ScanFlagged, ScanShown, Home
    <3>2. UNCHANGED <<relinked, proc, link, sent>>
      BY <1>4, <2>1 DEF Calls, StartCall, Start, StopAdvertising, SetAdvertising, StartScan,
         ScanDeclined, ScanChecked, ScanAccepted, BeginDiscovery, ScanRefused, ScanFlagged,
         ScanShown
    <3> QED
      BY <3>1, <3>2, ReachAside
  <2>2. CASE Arm \/ Claim
    <3>1. /\ conn'.found = conn.found /\ conn'.handle = conn.handle
          /\ at["app"] \in {"arm", "claim"}
      BY <1>0, <2>2 DEF Arm, Claim, Connection
    <3>2. UNCHANGED <<relinked, proc, link, sent>>
      BY <1>4, <2>2 DEF Calls, Arm, Claim
    <3> QED
      BY <3>1, <3>2, ReachAside DEF Found
  <2>3. CASE WriteAccepted
    <3>1. /\ at["app"] = "write" /\ at'["app"] = "wait" /\ UNCHANGED <<relinked, link>>
          /\ sent'.attr = conn.found["command"]
          /\ Linked(conn.handle)
      BY <1>0, <1>4, <2>3 DEF Calls, WriteAccepted, CanGatt, BeginWrite
    <3>2. conn.handle # NoHandle /\ Holds(conn.handle)
      BY <1>0, <3>1, RadioAssumption DEF Linked, Holds, TypeInv, LinkInv
    <3>3. Found("command") => conn.found["command"] = <<link.camera, "command">>
      BY <3>2 DEF FoundInv, KeptInv, Kinds
    <3> QED
      BY <3>1, <3>2, <3>3 DEF ReachInv
  <2>4. CASE WriteRefused \/ Woken \/ SendReturns \/ SendTimeout
    <3>1. at'["app"] \notin {"arm", "claim", "write"} /\ UNCHANGED <<relinked, proc, link, sent>>
      BY <1>0, <1>4, <2>4 DEF Calls, WriteRefused, Woken, SendReturns, SendTimeout
    <3> QED
      BY <3>1, ReachAside
  <2>5. CASE StopCall
    <3>1. at'["app"] \notin {"arm", "claim", "write"}
      BY <1>0, <2>5 DEF StopCall, StopScan, StopScanFlag, StopNoScan, StopLink, StopNoLink,
         HangUp, AwaitDown, Unregister, Release
    <3>2. UNCHANGED <<relinked, proc, sent>> /\ link'.camera = link.camera
      BY <1>0, <1>4, <2>5 DEF Calls, StopCall, StopScan, StopScanFlag, StopNoScan, StopLink,
         StopNoLink, HangUp, AwaitDown, Unregister, Release, SetAdvertising, EndDiscovery,
         EndConnection, TypeInv, TypeOK, RadioTypeOK, Link
    <3> QED
      BY <3>1, <3>2, ReachAside
  <2> QED
    BY <1>4, <2>1, <2>2, <2>3, <2>4, <2>5 DEF Calls, SendCall
<1> QED
  BY <1>1, <1>2, <1>3, <1>4 DEF HandleInput

LEMMA ReachOutside ==
    ASSUME AppInv, FoundInv, ReachInv, Outside PROVE ReachInv'
<1> USE DEF air, peer, camera
<1>0. /\ UNCHANGED <<at, conn>> /\ TypeInv /\ EpochInv /\ TaskInv
      /\ (Found("command")' <=> Found("command"))
  BY DEF Outside, Environment, software, data, device, AppInv, SearchInv, LinkageInv, Found
<1>1. ASSUME NEW h \in Handles, LinkUp(h) PROVE ReachInv'
  <2>1. relinked' = (Remaining # <<>>) /\ proc' = proc /\ link.phase = "connecting"
    BY <1>0, <1>1 DEF Outside, LinkUp, TypeInv, TypeOK, RadioTypeOK, Link
  <2>2. proc # "WriteButton"
    BY <1>0, <2>1 DEF EpochInv, Idle
  <2>3. Remaining = <<>> => at["app"] \notin {"arm", "claim", "write"}
    BY <1>0, NothingSent DEF Sending
  <2> QED
    BY <1>0, <2>1, <2>2, <2>3 DEF ReachInv
<1>2. ASSUME ~\E h \in Handles : LinkUp(h) PROVE ReachInv'
  <2>1. /\ proc' # "WriteButton" \/ (proc' = proc /\ link' = link /\ sent' = sent)
        /\ link'.phase = "up" => link.phase = "up"
    <3>1. CASE Radio
      <4>1. CASE ConnectFails
        BY <1>0, <4>1 DEF ConnectFails, NoLink, EpochInv, Idle
      <4>2. CASE LinkDown
        BY <4>2 DEF LinkDown, NoLink
      <4> QED
        BY <1>2, <3>1, <4>1, <4>2 DEF Radio, Advertise, DiscoveryTimeout, DiscoveryEnds,
           PairFinishes, PairAsks
    <3>2. CASE Camera
      BY <3>2 DEF Camera, DiscoverySucceeds, DiscoveryFindsNothing, EnablingSucceeds,
         WriteSucceeds, GattFails, Notify
    <3> QED
      BY <3>1, <3>2 DEF Outside, Environment
  <2>2. relinked' = relinked
    BY <2>1 DEF Outside
  <2> QED
    BY <1>0, <2>1, <2>2 DEF ReachInv
<1> QED
  BY <1>1, <1>2

LEMMA ReachStep ==
    AppInv /\ FoundInv /\ ReachInv /\ [AppNext]_appVars => (FoundInv /\ ReachInv)'
<1> SUFFICES ASSUME AppInv, FoundInv, ReachInv, [AppNext]_appVars
             PROVE  FoundInv' /\ ReachInv'
  OBVIOUS
<1>1. [Next]_vars
  BY AppStepIsStep DEF AppInv, TaskInv
<1>2. FoundInv'
  BY <1>1, FoundStep DEF AppInv
<1>3. CASE (Exited /\ UNCHANGED app) \/ UNCHANGED appVars
  <2>1. UNCHANGED <<relinked, at, conn, proc, link, sent>>
    BY <1>3 DEF Exited, app, appVars, vars, software, data, device, radio, peer, camera
  <2>2. ReachInv'
    BY <2>1 DEF ReachInv, Found
  <2> QED
    BY <1>2, <2>2
<1> QED
  BY <1>2, <1>3, ReachBle, ReachApp, ReachOutside DEF AppNext

\* A button write in flight addresses the command attribute of the camera that
\* is linked.  The handle is tested before the write and used after it, with
\* no lock: nothing in between makes it the handle of another attribute, unless
\* another link comes up, and that is noted as relinked.
THEOREM ReachesCamera == "discoveryTimeout" \notin Faults => (AppSpec => []WriteReachesCamera)
<1> SUFFICES ASSUME "discoveryTimeout" \notin Faults PROVE AppSpec => []WriteReachesCamera
  OBVIOUS
<1>1. AppInit => AppInv /\ FoundInv /\ ReachInv
  BY AppInvInit, InitFound DEF AppInit, Init, RadioInit, ReachInv
<1>2. AppInv /\ FoundInv /\ ReachInv /\ [AppNext]_appVars => (AppInv /\ FoundInv /\ ReachInv)'
  BY AppInvStep, ReachStep
<1>3. ReachInv => WriteReachesCamera
  BY DEF ReachInv, WriteReachesCamera
<1> QED
  BY <1>1, <1>2, <1>3, PTL DEF AppSpec
=============================================================================
