------------------------------ MODULE HidRemote ------------------------------
(***************************************************************************)
(* The Bluetooth keyboards: the Enter remote (enter_remote.c), its earlier *)
(* version, and the RV/MC/INV remote (rvmc_remote.c).  They are one        *)
(* program but for what a button does: the Enter remote holds a key of the *)
(* host as long as the button is held and taps Escape for Back, the other  *)
(* types a shortcut for a click.  The app thread starts the HID profile,   *)
(* runs the loop, and restores the default profile on the way out.  The bt *)
(* service calls the status callback from its own thread.                  *)
(***************************************************************************)
EXTENDS InputLoop, SequencesExt

CONSTANTS
    Remotes,    \* the apps: "enter" (in both versions), "rvmc"
    MaxNotices  \* bound on status changes the bt service has to tell

VARIABLES
    remote,     \* the app that runs
    pc,         \* where the app thread is
    typing,     \* the keys still to be released, the first perhaps to be pressed
    report,     \* the keys in the HID report
    host,       \* the keys the host believes held
    link,       \* a host is connected
    advertising,
    notices,    \* bt service: status changes it has yet to tell
    callback,   \* bt service: the status callback is set
    telling,    \* bt service: inside the callback, what it was called with
    connected,  \* EnterRemote.connected
    led,        \* the blue LED
    owed        \* history: the keys clicked for and not yet tapped

keyboard == <<report, host, typing, owed>>
service  == <<link, advertising, notices, callback, telling>>
status   == <<connected, led>>
vars     == <<input, remote, pc, keyboard, service, status>>

\* The key each button holds ...
Mirrors == [enter |-> [Ok |-> "Enter", Up |-> "UpArrow", Down |-> "DownArrow",
                       Left |-> "LeftArrow", Right |-> "RightArrow"],
            rvmc |-> <<>>]

\* ... and the keys a click of it taps, the letters each with Shift.
Taps == [enter |-> [Back |-> <<"Esc">>],
         rvmc |-> [Up |-> <<"R", "V">>, Down |-> <<"M", "C">>,
                   Ok |-> <<"I", "N", "V">>]]

ASSUME RemoteAssumption ==
    /\ Remotes \subseteq {"enter", "rvmc"}
    /\ Buttons \subseteq {"Back", "Ok", "Up", "Down", "Left", "Right"}
    /\ MaxNotices \in Nat

KeyOf == Mirrors[remote]
TapOf == Taps[remote]
Keys == {"Enter", "UpArrow", "DownArrow", "LeftArrow", "RightArrow", "Esc",
         "R", "V", "M", "C", "I", "N"}

Init ==
    /\ InputInit
    /\ remote \in Remotes
    /\ pc = "start" /\ typing = <<>> /\ report = {} /\ host = {}
    /\ link = FALSE /\ advertising = FALSE /\ notices = <<>>
    /\ callback = FALSE /\ telling = "nothing"
    /\ connected = FALSE /\ led = FALSE /\ owed = <<>>

Step(from, to) == pc = from /\ pc' = to

\* Every change sends the whole report to the host, if there is one.
SendReport(keys) ==
    /\ report' = keys
    /\ host' = IF link THEN keys ELSE host
-----------------------------------------------------------------------------
(* bt_start.                                                               *)

StartProfile ==
    /\ Step("start", "advertise")
    /\ UNCHANGED <<input, keyboard, service, status>>

StartAdvertising ==
    /\ Step("advertise", "register")
    /\ advertising' = TRUE
    /\ UNCHANGED <<input, keyboard, link, notices, callback, telling, status>>

SetCallback ==
    /\ Step("register", "loop")
    /\ callback' = TRUE
    /\ UNCHANGED <<input, keyboard, link, advertising, notices, telling, status>>

(* The loop: handle_input.                                                 *)

Take(e) == pc = "loop" /\ GetEvent /\ e = Head(queue)

\* The keys of a tap are pressed and released one by one, 12 ms apart.
PressNext(keys) ==
    /\ SendReport(report \cup {Head(keys)})
    /\ owed' = Tail(owed)
    /\ pc' = "pressed"

Tap(b) ==
    /\ Take(Event(b, "Short"))
    /\ typing' = TapOf[b] /\ PressNext(typing')
    /\ UNCHANGED <<service, status>>

PressTyped ==
    /\ pc = "released"
    /\ PressNext(typing)
    /\ UNCHANGED <<input, typing, service, status>>

ReleaseTyped ==
    /\ pc = "pressed"
    /\ SendReport(report \ {Head(typing)})
    /\ typing' = Tail(typing)
    /\ pc' = IF Tail(typing) = <<>> THEN "loop" ELSE "released"
    /\ UNCHANGED <<input, owed, service, status>>

Quit ==
    /\ Take(QuitEvent)
    /\ pc' = "leave" /\ owed' = <<>>
    /\ UNCHANGED <<report, host, typing, service, status>>

\* Mutant: keys are sent only once the app knows a host is connected.
PressIfConnected(b) ==
    /\ Take(Event(b, "Press"))
    /\ SendReport(IF connected THEN report \cup {KeyOf[b]} ELSE report)
    /\ UNCHANGED <<pc, typing, owed, service, status>>

PressKey(b) ==
    /\ Take(Event(b, "Press"))
    /\ SendReport(report \cup {KeyOf[b]})
    /\ UNCHANGED <<pc, typing, owed, service, status>>

\* Mutant: so are releases.
ReleaseIfConnected(b) ==
    /\ Take(Event(b, "Release"))
    /\ SendReport(IF connected THEN report \ {KeyOf[b]} ELSE report)
    /\ UNCHANGED <<pc, typing, owed, service, status>>

ReleaseKey(b) ==
    /\ Take(Event(b, "Release"))
    /\ SendReport(report \ {KeyOf[b]})
    /\ UNCHANGED <<pc, typing, owed, service, status>>

\* The events that change something.
Handled ==
    {QuitEvent} \cup {Event(b, "Short") : b \in DOMAIN TapOf}
                \cup {Event(b, t) : b \in DOMAIN KeyOf, t \in {"Press", "Release"}}

IgnoreEvent ==
    /\ \E e \in InputEvent \ Handled : Take(e)
    /\ UNCHANGED <<pc, keyboard, service, status>>

HandleInput ==
    \/ \E b \in DOMAIN TapOf : Tap(b)
    \/ PressTyped \/ ReleaseTyped \/ Quit \/ IgnoreEvent
    \/ \E b \in DOMAIN KeyOf : PressKey(b) \/ ReleaseKey(b)

(* The way out: release_all, bt_stop, free.                                *)

ReleaseAll ==
    /\ Step("leave", "unregister")
    /\ SendReport({})
    /\ UNCHANGED <<input, typing, owed, service, status>>

ClearCallback ==
    /\ Step("unregister", "darken")
    /\ callback' = FALSE
    /\ UNCHANGED <<input, keyboard, link, advertising, notices, telling, status>>

ResetLed ==
    /\ Step("darken", "disconnect")
    /\ led' = FALSE
    /\ UNCHANGED <<input, keyboard, service, connected>>

Disconnect ==
    /\ Step("disconnect", "remove")
    /\ link' = FALSE /\ advertising' = FALSE /\ host' = {}
    /\ UNCHANGED <<input, report, typing, owed, notices, callback, telling, status>>

\* Mutant: the queue has to be drained first.
RemoveWhenDrained ==
    /\ Step("remove", "stopped") /\ queue = <<>>
    /\ GuiRemoveViewPort
    /\ UNCHANGED <<keyboard, service, status>>

\* The default profile is restored; then the view port goes.
RemoveViewPort ==
    /\ Step("remove", "stopped")
    /\ GuiRemoveViewPort
    /\ UNCHANGED <<keyboard, service, status>>

AppThread ==
    \/ StartProfile \/ StartAdvertising \/ SetCallback
    \/ HandleInput
    \/ ReleaseAll \/ ClearCallback \/ ResetLed \/ Disconnect \/ RemoveViewPort
-----------------------------------------------------------------------------
(* The host and the bt service.                                            *)

HostConnects ==
    /\ advertising /\ ~link /\ Len(notices) < MaxNotices
    /\ link' = TRUE /\ host' = {}
    /\ notices' = Append(notices, TRUE)
    /\ UNCHANGED <<input, pc, report, typing, owed, advertising, callback, telling, status>>

HostLeaves ==
    /\ link /\ Len(notices) < MaxNotices
    /\ link' = FALSE /\ host' = {}
    /\ notices' = Append(notices, FALSE)
    /\ UNCHANGED <<input, pc, report, typing, owed, advertising, callback, telling, status>>

\* A change nobody listens to is not told again later.
MissNotice ==
    /\ telling = "nothing" /\ notices # <<>> /\ ~callback
    /\ notices' = Tail(notices)
    /\ UNCHANGED <<input, pc, keyboard, link, advertising, callback, telling, status>>

BtStatusCallback ==
    /\ telling = "nothing" /\ notices # <<>> /\ callback
    /\ notices' = Tail(notices)
    /\ connected' = Head(notices)
    /\ telling' = IF Head(notices) THEN "connected" ELSE "other"
    /\ UNCHANGED <<input, pc, keyboard, link, advertising, callback, led>>

\* Mutant: the LED is never turned off.
SetLedOn ==
    /\ telling # "nothing"
    /\ led' = (led \/ telling = "connected")
    /\ telling' = "nothing"
    /\ UNCHANGED <<input, pc, keyboard, link, advertising, notices, callback, connected>>

SetLed ==
    /\ telling # "nothing"
    /\ led' = (telling = "connected")
    /\ telling' = "nothing"
    /\ UNCHANGED <<input, pc, keyboard, link, advertising, notices, callback, connected>>

BtThread == MissNotice \/ BtStatusCallback \/ SetLed

Leaving == pc \in {"leave", "unregister", "darken", "disconnect", "remove"}
Listening == ~Leaving /\ pc # "stopped"

\* A click of a button that taps keys: held, not for long, and released.
Clicked == {b \in (down \ down') \ longed : b \in DOMAIN TapOf}

Outside ==
    /\ User \/ GuiThread
    /\ owed' = IF Listening /\ Clicked # {}
               THEN owed \o TapOf[CHOOSE b \in Clicked : TRUE] ELSE owed
    /\ UNCHANGED <<pc, report, host, typing, service, status>>

Next ==
    /\ AppThread \/ BtThread \/ HostConnects \/ HostLeaves \/ Outside
    /\ UNCHANGED remote

Spec == Init /\ [][Next]_vars

\* The threads run; the user and the host owe nothing.
FairSpec ==
    /\ Spec
    /\ WF_vars(AppThread /\ UNCHANGED remote)
    /\ WF_vars(BtThread /\ UNCHANGED remote)
    /\ WF_vars(GuiThread /\ Outside /\ UNCHANGED remote)
-----------------------------------------------------------------------------
Labels == {"start", "advertise", "register", "loop", "pressed", "released",
           "leave", "unregister", "darken", "disconnect", "remove", "stopped"}
InLoop == pc \in {"loop", "pressed", "released"}

TypeOK ==
    /\ InputTypeOK
    /\ remote \in Remotes
    /\ pc \in Labels
    /\ typing \in Seq(Keys) /\ owed \in Seq(Keys)
    /\ pc \in {"pressed", "released"} <=> typing # <<>>
    /\ report \subseteq Keys /\ host \subseteq Keys
    /\ link \in BOOLEAN /\ advertising \in BOOLEAN
    /\ notices \in Seq(BOOLEAN) /\ Len(notices) <= MaxNotices
    /\ callback \in BOOLEAN /\ telling \in {"nothing", "connected", "other"}
    /\ connected \in BOOLEAN /\ led \in BOOLEAN

\* A key is never stuck on the host: each key the host believes held belongs to
\* a button still down, or its release is on the way, or it is the one being
\* tapped; and on the way out nothing stays held, whatever the user still
\* presses.
NoKeyStuck ==
    /\ InLoop \/ pc = "leave" =>
          host \subseteq
              {KeyOf[b] : b \in {c \in DOMAIN KeyOf :
                  c \in down \/ Event(c, "Release") \in Underway}}
              \cup (IF pc = "pressed" THEN {Head(typing)} ELSE {})
    /\ ~InLoop /\ pc # "leave" => host = {}

\* Once every event is handled the report mirrors the buttons that are down,
\* connected or not, so the host has them right after the next change.
ReportMirrorsButtons ==
    pc = "loop" /\ Underway = {} =>
        report = {KeyOf[b] : b \in down \cap DOMAIN KeyOf}

\* The keys still to come for an event.
Typed(e) == IF e.type = "Short" /\ e.key \in DOMAIN TapOf THEN TapOf[e.key] ELSE <<>>

\* Every click is typed, whole and in the order of the clicks, though it waits
\* in two queues while earlier ones are typed: the keys owed are what is left
\* of the tap in progress and what the events on the way will tap.
ClicksAreTyped ==
    Listening =>
        owed = (IF pc = "pressed" THEN Tail(typing) ELSE typing)
               \o FlattenSeq([i \in DOMAIN Stream |-> Typed(Stream[i])])

\* With every status change told, the LED glows only if a host is connected: the
\* callback sets it from what it was told, which may be late but never stays wrong.
Told == pc = "loop" /\ notices = <<>> /\ telling = "nothing"
LedOnlyIfConnected == Told => led = connected /\ (led => link)

\* Holding Back quits the app, unless the GUI fills the queue of an app that no
\* longer reads it: the app then waits for the GUI's lock, and the GUI for the app.
BackLong == QuitEvent \in Underway /\ shown
HoldBackQuits == BackLong ~> (pc = "stopped" \/ (Leaving /\ Flooded))

(* What the repository says and the code does not do.                      *)

\* "Back (hold): Exit the app" (README).
HoldBackExits == BackLong ~> pc = "stopped"

\* "When a computer is connected, the Flipper's LED glows blue" (README), with
\* every status change told.
LedIfConnected == Told => (link => led)
=============================================================================
