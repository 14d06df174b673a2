---------------------------- MODULE SonyA7IvInput ----------------------------
(***************************************************************************)
(* The Sony A7 IV remote from its buttons to the camera                    *)
(* (sony_a7_iv_remote/sony_a7_iv_remote.c): InputLoop composed with        *)
(* ButtonDelivery, which stands for the transport and the ble thread and   *)
(* which SonyA7IvRemote is shown to implement.  While the app waits for    *)
(* the camera it takes no event.                                           *)
(***************************************************************************)
EXTENDS InputLoop, ButtonDelivery, SequencesExt

CONSTANT PressOf    \* the commands of Up (Shutter) and of OK (Record)

ASSUME PressOfAssumption == PressOf \in [{"Up", "Ok"} -> Presses \ {<<>>}]

VARIABLES
    pc,         \* where the app thread is
    ready,      \* the state last shown is SonyTransportReady
    clicks      \* history: clicks of Up and OK not yet taken from the queue

delivery == <<todo, held, got, late, relinked>>
appVars == <<input, delivery, pc, ready, clicks>>

AppInit ==
    /\ InputInit /\ Init
    /\ pc = "loop" /\ ready = FALSE /\ clicks = <<>>
-----------------------------------------------------------------------------
(* The app thread: sony_a7_iv_remote_handle_input.                         *)

Take(e) == pc = "loop" /\ GetEvent /\ e = Head(queue)

\* Mutant: a repeat presses again.
TakeAgain(b) ==
    /\ ready
    /\ \E t \in {"Short", "Repeat"} : Take(Event(b, t))
    /\ Press(PressOf[b])
    /\ pc' = "send"
    /\ clicks' = IF clicks = <<>> THEN clicks ELSE Tail(clicks)
    /\ UNCHANGED ready

TakeClick(b) ==
    /\ ready
    /\ Take(Event(b, "Short"))
    /\ Press(PressOf[b])
    /\ pc' = "send" /\ clicks' = Tail(clicks)
    /\ UNCHANGED ready

TakeQuit ==
    /\ Take(QuitEvent)
    /\ pc' = "stop" /\ clicks' = <<>>
    /\ UNCHANGED <<delivery, ready>>

ClickOf(e) == e.type = "Short" /\ e.key \in DOMAIN PressOf

\* Everything else, and any click while the camera is not ready.
IgnoreEvent ==
    /\ \E e \in InputEvent \ {QuitEvent} :
          /\ Take(e)
          /\ ClickOf(e) => ~ready
          /\ clicks' = IF ClickOf(e) THEN Tail(clicks) ELSE clicks
    /\ UNCHANGED <<delivery, pc, ready>>

\* send_button returned TRUE: the next command, or the loop again.
Delivered ==
    /\ pc = "send" /\ Confirm
    /\ pc' = IF Tail(todo) = <<>> THEN "loop" ELSE "send"
    /\ UNCHANGED <<input, ready, clicks>>

\* It returned FALSE: the state is Error.
NotDelivered ==
    /\ pc = "send" /\ GiveUp
    /\ pc' = "loop" /\ ready' = FALSE
    /\ UNCHANGED <<input, clicks>>

\* sony_transport_stop and _free, for 750 ms at most.
StopTransport ==
    /\ pc = "stop" /\ pc' = "remove"
    /\ UNCHANGED <<input, delivery, ready, clicks>>

\* Mutant: the queue has to be drained first.
RemoveDrained ==
    /\ pc = "remove" /\ pc' = "stopped"
    /\ queue = <<>> /\ GuiRemoveViewPort
    /\ UNCHANGED <<delivery, ready, clicks>>

RemoveViewPort ==
    /\ pc = "remove" /\ pc' = "stopped"
    /\ GuiRemoveViewPort
    /\ UNCHANGED <<delivery, ready, clicks>>

AppThread ==
    \/ \E b \in DOMAIN PressOf : TakeClick(b)
    \/ TakeQuit \/ IgnoreEvent
    \/ Delivered \/ NotDelivered \/ StopTransport \/ RemoveViewPort
-----------------------------------------------------------------------------
Listening == pc \in {"loop", "send"}
Clicked == {b \in (down \ down') \ longed : b \in DOMAIN PressOf}

Buttoning ==
    /\ User \/ GuiThread
    /\ clicks' = IF Listening /\ Clicked # {}
                 THEN Append(clicks, CHOOSE b \in Clicked : TRUE) ELSE clicks
    /\ UNCHANGED <<delivery, pc, ready>>

\* sony_a7_iv_remote_state_callback, with the camera and the ble thread.
StateCallback ==
    /\ Listening
    /\ ready' = ~ready
    /\ UNCHANGED <<input, delivery, pc, clicks>>

Camera ==
    /\ Arrive \/ ArriveLate \/ LoseLate \/ Reconnect
    /\ UNCHANGED <<input, pc, ready, clicks>>

AppNext == AppThread \/ Buttoning \/ StateCallback \/ Camera

\* The threads run, and every send_button ends, if only by its timeout.
AppSpec ==
    /\ AppInit /\ [][AppNext]_appVars
    /\ WF_appVars(AppThread)
    /\ WF_appVars(GuiThread /\ Buttoning)
-----------------------------------------------------------------------------
AppTypeOK ==
    /\ InputTypeOK
    /\ pc \in {"loop", "send", "stop", "remove", "stopped"}
    /\ ready \in BOOLEAN
    /\ clicks \in Seq(DOMAIN PressOf)
    /\ pc = "send" <=> todo # <<>>
    /\ todo = <<>> \/ \E s \in Presses : \E i \in 1..Len(s) : todo = SubSeq(s, i, Len(s))

\* The button of a click of Up or OK.
ButtonOf(e) == IF ClickOf(e) THEN <<e.key>> ELSE <<>>

\* The clicks on their way are those made and not yet taken, in their order,
\* though the app may be waiting for the camera for seconds ...
ClicksKept ==
    Listening => clicks = FlattenSeq([i \in DOMAIN Stream |-> ButtonOf(Stream[i])])

\* ... and each press of the camera's buttons is that of the oldest of them:
\* one press for a click, none for a held button, and none of them repeated.
OnePressPerClick ==
    [][ todo = <<>> /\ todo' # <<>>
        => clicks # <<>> /\ todo' = PressOf[Head(clicks)] /\ clicks' = Tail(clicks)
      ]_appVars

\* Holding Back leaves the app, after the press in progress, unless the GUI
\* fills the queue while sony_transport_stop waits for the disconnection.
BackLong == QuitEvent \in Underway /\ shown
HoldBackLeaves ==
    BackLong ~> (pc = "stopped" \/ (pc \in {"stop", "remove"} /\ Flooded))
=============================================================================
