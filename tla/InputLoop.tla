------------------------------ MODULE InputLoop ------------------------------
(***************************************************************************)
(* How a button of the Flipper reaches an app of this repository.  Every   *)
(* app is built alike: its view port's input callback runs in the GUI      *)
(* thread, under the GUI lock, and puts the event into input_queue with    *)
(* FuriWaitForever; its own thread takes events from that queue, and on    *)
(* its way out removes the view port, for which it needs the GUI lock.     *)
(* The user, the input service and the GUI are outside the repository.     *)
(***************************************************************************)
EXTENDS Naturals, Sequences

CONSTANTS
    Buttons,    \* the Flipper's buttons in use
    QueueSize,  \* the capacity of input_queue (8 in every app)
    MaxEmitted  \* bound on the events the GUI has yet to take

ASSUME InputAssumption ==
    /\ "Back" \in Buttons
    /\ QueueSize \in Nat \ {0}
    /\ MaxEmitted \in Nat

VARIABLES
    down,       \* user: the buttons held down
    longed,     \* input service: those already reported as long
    emitted,    \* input service: events the GUI has yet to take
    shown,      \* GUI: the app's view port is added
    delivering, \* GUI: the events it is delivering under its lock: none or one
    queue       \* the app's input_queue

user  == <<down, longed>>
input == <<user, emitted, shown, delivering, queue>>

Types == {"Press", "Short", "Long", "Repeat", "Release"}
InputEvent == [key : Buttons, type : Types]
Event(b, t) == [key |-> b, type |-> t]

InputInit ==
    /\ down = {} /\ longed = {} /\ emitted = <<>>
    /\ shown = TRUE /\ delivering = <<>> /\ queue = <<>>
-----------------------------------------------------------------------------
(* The user and the input service.                                         *)

Emit(events) ==
    /\ Len(emitted) + Len(events) <= MaxEmitted
    /\ emitted' = emitted \o events
    /\ UNCHANGED <<shown, delivering, queue>>

PressButton(b) ==
    /\ b \notin down
    /\ down' = down \cup {b}
    /\ Emit(<<Event(b, "Press")>>)
    /\ UNCHANGED longed

HoldButton(b) ==
    /\ b \in down \ longed
    /\ longed' = longed \cup {b}
    /\ Emit(<<Event(b, "Long")>>)
    /\ UNCHANGED down

RepeatButton(b) ==
    /\ b \in longed
    /\ Emit(<<Event(b, "Repeat")>>)
    /\ UNCHANGED user

ReleaseButton(b) ==
    /\ b \in down
    /\ down' = down \ {b} /\ longed' = longed \ {b}
    /\ Emit(IF b \in longed THEN <<Event(b, "Release")>>
            ELSE <<Event(b, "Short"), Event(b, "Release")>>)

User ==
    \E b \in Buttons :
        PressButton(b) \/ HoldButton(b) \/ RepeatButton(b) \/ ReleaseButton(b)

(* The GUI thread: it takes its lock and calls the input callback, which   *)
(* waits until the queue has room.                                         *)

TakeEvent ==
    /\ delivering = <<>> /\ emitted # <<>>
    /\ emitted' = Tail(emitted)
    /\ delivering' = IF shown THEN <<Head(emitted)>> ELSE <<>>
    /\ UNCHANGED <<user, shown, queue>>

\* Mutant: the callback does not wait for room, and the queue grows.
PutAlways ==
    /\ delivering # <<>>
    /\ queue' = queue \o delivering
    /\ delivering' = <<>>
    /\ UNCHANGED <<user, emitted, shown>>

\* Mutant: the callback does not wait for room, and the event is lost.
PutIfRoom ==
    /\ delivering # <<>>
    /\ queue' = IF Len(queue) < QueueSize THEN queue \o delivering ELSE queue
    /\ delivering' = <<>>
    /\ UNCHANGED <<user, emitted, shown>>

InputCallback ==
    /\ delivering # <<>>
    /\ Len(queue) < QueueSize
    /\ queue' = queue \o delivering
    /\ delivering' = <<>>
    /\ UNCHANGED <<user, emitted, shown>>

GuiThread == TakeEvent \/ InputCallback

(* What the app's thread does with it.                                     *)

GetEvent ==
    /\ queue # <<>>
    /\ queue' = Tail(queue)
    /\ UNCHANGED <<user, emitted, shown, delivering>>

\* In every app holding Back ends the loop.
QuitEvent == Event("Back", "Long")

GuiRemoveViewPort ==
    /\ delivering = <<>>
    /\ shown' = FALSE
    /\ UNCHANGED <<user, emitted, delivering, queue>>
-----------------------------------------------------------------------------
\* The events on their way from the buttons to the app, in order.
Stream == queue \o delivering \o emitted
Underway == {Stream[i] : i \in DOMAIN Stream}

\* The GUI holds its lock while it waits for room in the queue.
Flooded == delivering # <<>> /\ Len(queue) = QueueSize

InputTypeOK ==
    /\ down \subseteq Buttons /\ longed \subseteq down
    /\ emitted \in Seq(InputEvent) /\ Len(emitted) <= MaxEmitted
    /\ shown \in BOOLEAN
    /\ delivering \in Seq(InputEvent) /\ Len(delivering) <= 1
    /\ queue \in Seq(InputEvent) /\ Len(queue) <= QueueSize
=============================================================================
