---------------------------- MODULE ButtonDelivery ----------------------------
(***************************************************************************)
(* What the Sony A7 IV remote promises its user about the buttons of the   *)
(* camera, with no word of threads, events, flags or attribute handles.    *)
(* The commands of a press reach the camera one after the other, each at   *)
(* most once and none before its predecessor is known to have arrived; a   *)
(* press is given up at the first command not known to have arrived; and   *)
(* that command is the only thing that may still reach the camera later,   *)
(* before anything else does.                                              *)
(***************************************************************************)
EXTENDS SonyProtocol

CONSTANT Presses    \* the command sequences of the presses

HalfDown == [control |-> "ShutterHalf", down |-> TRUE]
FullDown == [control |-> "ShutterFull", down |-> TRUE]

\* A press that releases the shutter focuses just before.
FocusFirst(press) ==
    \A i \in 1..Len(press) :
        press[i] = FullDown => i > 1 /\ press[i - 1] = HalfDown

ASSUME PressesAssumption ==
    Presses \subseteq Seq(Button) /\ \A s \in Presses : FocusFirst(s)

VARIABLES
    todo,       \* the commands of the press not known to have arrived
    held,       \* the buttons the camera holds pressed
    got,        \* the first of todo has arrived
    late,       \* the commands given up that may still arrive: none or one
    relinked    \* the camera last reconnected in the middle of a press

vars == <<todo, held, got, late, relinked>>

Init == todo = <<>> /\ held = {} /\ got = FALSE /\ late = {} /\ relinked = FALSE
-----------------------------------------------------------------------------
\* The buttons held after a command.
After(command) == IF command.down THEN held \cup {command.control}
                                  ELSE held \ {command.control}

Press(sequence) ==
    /\ todo = <<>>
    /\ todo' = sequence
    /\ UNCHANGED <<held, got, late, relinked>>

Arrive ==
    /\ todo # <<>> /\ ~got /\ late = {}
    /\ held' = After(Head(todo))
    /\ got' = TRUE
    /\ UNCHANGED <<todo, late, relinked>>

\* A command the app no longer waits for may still be on its way.
Leave == late' \in IF got THEN {late} ELSE {late, {Head(todo)}}

\* The app moves on, and knows why; a reconnection may mislead it.
Confirm ==
    /\ todo # <<>> /\ (got \/ relinked)
    /\ Leave
    /\ todo' = Tail(todo) /\ got' = FALSE
    /\ UNCHANGED <<held, relinked>>

GiveUp ==
    /\ todo # <<>>
    /\ Leave
    /\ todo' = <<>> /\ got' = FALSE
    /\ UNCHANGED <<held, relinked>>

ArriveLate ==
    /\ \E c \in late : held' = After(c)
    /\ late' = {}
    /\ UNCHANGED <<todo, got, relinked>>

LoseLate ==
    /\ late # {} /\ late' = {}
    /\ UNCHANGED <<todo, held, got, relinked>>

\* A camera that reconnects holds nothing, and nothing old reaches it.
Reconnect ==
    /\ late = {}
    /\ held' = {}
    /\ relinked' = (todo # <<>>)
    /\ UNCHANGED <<todo, got, late>>

Next ==
    \/ \E s \in Presses : Press(s)
    \/ Arrive \/ Confirm \/ GiveUp \/ ArriveLate \/ LoseLate \/ Reconnect

Spec == Init /\ [][Next]_vars
-----------------------------------------------------------------------------
\* The shutter is released only while the camera is focusing: a dropped or
\* late half-press is never followed by the full press.
FocusBeforeShutter ==
    [][ "ShutterFull" \in held' \ held
        => "ShutterHalf" \in held \/ relinked ]_vars
=============================================================================
