------------------------ MODULE SonyA7IvInputProofs ------------------------
(* Proofs about SonyA7IvInput, for any presses, buttons, queue and bounds. *)
EXTENDS SonyA7IvInput, InputLoopProofs, ButtonDeliveryProofs

USE InputAssumption, PressesAssumption, PressOfAssumption

\* What is left of a press.
Remainder(s) == {SubSeq(s, i, Len(s)) : i \in 1..Len(s)}

LEMMA TailRemains ==
    ASSUME NEW s \in Seq(Button), NEW r \in Remainder(s)
    PROVE  Tail(r) = <<>> \/ Tail(r) \in Remainder(s)
<1> PICK i \in 1..Len(s) : r = SubSeq(s, i, Len(s))
  BY DEF Remainder
<1>1. CASE i = Len(s)
  BY <1>1
<1>2. CASE i # Len(s)
  <2>1. i + 1 \in 1..Len(s) /\ Tail(r) = SubSeq(s, i + 1, Len(s))
    BY <1>2
  <2> QED
    BY <2>1 DEF Remainder
<1> QED
  BY <1>1, <1>2

LEMMA WholeRemains ==
    ASSUME NEW s \in Seq(Button), s # <<>>
    PROVE  s \in Remainder(s)
<1>1. 1 \in 1..Len(s) /\ s = SubSeq(s, 1, Len(s))
  BY EmptySeq
<1> QED
  BY <1>1 DEF Remainder

\* AppTypeOK but for the history variable clicks, whose type follows from what
\* it is.
AppTypeInv ==
    /\ InputTypeOK
    /\ pc \in {"loop", "send", "stop", "remove", "stopped"}
    /\ ready \in BOOLEAN
    /\ pc = "send" <=> todo # <<>>
    /\ todo = <<>> \/ \E s \in Presses : todo \in Remainder(s)
    /\ pc # "stopped" => shown

ButtonsOf == [e \in InputEvent |-> ButtonOf(e)]

\* While the app listens, the clicks are those of the events on their way.
ClicksInv == clicks = IF Listening THEN Words(ButtonsOf, Stream) ELSE <<>>

LEMMA ButtonsOfType ==
    /\ ButtonsOf \in [InputEvent -> Seq(DOMAIN PressOf)]
    /\ \A e \in InputEvent : ButtonsOf[e] = ButtonOf(e)
<1> DEFINE D == DOMAIN PressOf
<1>1. \A e \in InputEvent : ButtonOf(e) \in Seq(D)
  <2> HIDE DEF D
  <2>1. <<>> \in Seq(D) /\ \A b \in D : <<b>> \in Seq(D)
    OBVIOUS
  <2>2. \A e : ButtonOf(e) = <<>> \/ (e.key \in D /\ ButtonOf(e) = <<e.key>>)
    BY Zenon DEF ButtonOf, ClickOf, D
  <2> QED
    BY <2>1, <2>2, Zenon
<1> QED
  BY <1>1 DEF ButtonsOf

LEMMA InitApp == AppInit => AppTypeInv /\ ClicksInv
<1> SUFFICES ASSUME AppInit PROVE AppTypeInv /\ ClicksInv
  OBVIOUS
<1>1. InputTypeOK /\ shown /\ Words(ButtonsOf, Stream) = <<>>
  BY InitInput, InitWords DEF AppInit, InputInit
<1>2. AppTypeInv
  BY <1>1 DEF AppInit, Init, AppTypeInv
<1>3. ClicksInv
  BY <1>1 DEF AppInit, ClicksInv
<1> QED
  BY <1>2, <1>3
-----------------------------------------------------------------------------
\* An event taken takes its click with it.
LEMMA TakeClicks ==
    ASSUME AppTypeInv, ClicksInv, NEW e, Take(e)
    PROVE  /\ clicks = ButtonOf(e) \o Words(ButtonsOf, Stream')
           /\ ButtonOf(e) \in Seq(DOMAIN PressOf)
           /\ Words(ButtonsOf, Stream') \in Seq(DOMAIN PressOf)
           /\ Listening /\ e \in InputEvent /\ todo = <<>> /\ InputTypeOK' /\ shown' = shown
<1>1. GetEvent /\ e = Head(queue) /\ InputTypeOK /\ pc = "loop"
  BY DEF Take, AppTypeInv
<1>2. Head(queue) \in InputEvent
  BY <1>1, HeadTailProperties DEF InputTypeOK, GetEvent
<1>3. /\ Words(ButtonsOf, Stream) = ButtonsOf[e] \o Words(ButtonsOf, Stream')
      /\ ButtonsOf[e] \in Seq(DOMAIN PressOf)
      /\ Words(ButtonsOf, Stream') \in Seq(DOMAIN PressOf)
  BY <1>1, ButtonsOfType, GetWords
<1>4. InputTypeOK' /\ shown' = shown
  BY <1>1, GetTakesFirst
<1>5. ButtonsOf[e] = ButtonOf(e)
  BY <1>1, <1>2, ButtonsOfType
<1> QED
  BY <1>1, <1>2, <1>3, <1>4, <1>5 DEF ClicksInv, Listening, AppTypeInv

\* So a click taken is the oldest.
LEMMA OldestTaken ==
    ASSUME AppTypeInv, ClicksInv, NEW e, Take(e), ClickOf(e)
    PROVE  /\ clicks # <<>> /\ Head(clicks) = e.key
           /\ Tail(clicks) = Words(ButtonsOf, Stream')
<1>1. ButtonOf(e) = <<e.key>> /\ e.key \in DOMAIN PressOf
  BY DEF ButtonOf, ClickOf
<1>2. ASSUME NEW b \in DOMAIN PressOf, NEW w \in Seq(DOMAIN PressOf)
      PROVE  <<b>> \o w # <<>> /\ Head(<<b>> \o w) = b /\ Tail(<<b>> \o w) = w
  OBVIOUS
<1>3. /\ clicks = <<e.key>> \o Words(ButtonsOf, Stream')
      /\ Words(ButtonsOf, Stream') \in Seq(DOMAIN PressOf)
  BY <1>1, TakeClicks
<1> QED
  BY <1>1, <1>2, <1>3, Zenon

LEMMA ClicksKeptBy ==
    ASSUME AppTypeInv, ClicksInv, Stream' = Stream, clicks' = clicks,
           Listening' = Listening
    PROVE  ClicksInv'
  BY DEF ClicksInv, Words, ButtonsOf, ButtonOf, ClickOf, InputEvent

LEMMA NextClicks == AppTypeInv /\ ClicksInv /\ [AppNext]_appVars => ClicksInv'
<1> SUFFICES ASSUME AppTypeInv, ClicksInv, [AppNext]_appVars PROVE ClicksInv'
  OBVIOUS
<1> DEFINE W == ButtonsOf
           words == Words(W, Stream)
<1>0. /\ InputTypeOK /\ (Listening => shown)
      /\ UNCHANGED input => Stream' = Stream
      /\ Words(ButtonsOf, Stream)' = Words(W, Stream')
  BY InputStutters DEF AppTypeInv, Listening, Words, ButtonsOf, ButtonOf, ClickOf, InputEvent
<1>1. ASSUME NEW b \in DOMAIN PressOf, TakeClick(b) PROVE ClicksInv'
  <2>1. /\ Take(Event(b, "Short")) /\ pc' = "send" /\ clicks' = Tail(clicks)
        /\ ClickOf(Event(b, "Short"))
    BY <1>1 DEF TakeClick, ClickOf, Event
  <2> QED
    BY <1>0, <2>1, OldestTaken DEF ClicksInv, Listening
<1>2. CASE TakeQuit
  BY <1>2 DEF TakeQuit, ClicksInv, Listening
<1>3. CASE IgnoreEvent
  <2>1. PICK e \in InputEvent : /\ Take(e) /\ pc' = pc
                                /\ clicks' = IF ClickOf(e) THEN Tail(clicks) ELSE clicks
    BY <1>3 DEF IgnoreEvent
  <2>2. CASE ClickOf(e)
    BY <1>0, <2>1, <2>2, OldestTaken, TakeClicks DEF ClicksInv, Listening
  <2>3. CASE ~ClickOf(e)
    <3>1. \A w \in Seq(DOMAIN PressOf) : <<>> \o w = w
      BY ConcatEmptySeq
    <3>2. clicks = Words(W, Stream')
      BY <2>1, <2>3, <3>1, TakeClicks DEF ButtonOf
    <3> QED
      BY <1>0, <2>1, <2>3, <3>2, TakeClicks DEF ClicksInv, Listening
  <2> QED
    BY <2>2, <2>3
<1>4. CASE Delivered \/ NotDelivered
  <2>1. UNCHANGED <<input, clicks>> /\ Listening /\ Listening'
    BY <1>4 DEF Delivered, NotDelivered, Listening
  <2> QED
    BY <1>0, <2>1, ClicksKeptBy
<1>5. CASE StopTransport \/ RemoveViewPort
  BY <1>5 DEF StopTransport, RemoveViewPort, ClicksInv, Listening
<1>6. CASE StateCallback \/ Camera \/ UNCHANGED appVars
  <2>1. UNCHANGED <<input, clicks, pc>>
    BY <1>6 DEF StateCallback, Camera, appVars
  <2> QED
    BY <1>0, <2>1, ClicksKeptBy DEF Listening
<1>7. CASE Buttoning /\ ~Listening
  BY <1>7 DEF Buttoning, ClicksInv, Listening
<1>8. CASE Buttoning /\ GuiThread /\ Listening
  <2>1. Clicked = {} /\ Stream' = Stream
    BY <1>0, <1>8, GuiKeeps DEF GuiThread, TakeEvent, InputCallback, user, Clicked
  <2> QED
    BY <1>8, <2>1, ClicksKeptBy DEF Buttoning, Listening
<1>9. CASE Buttoning /\ User /\ Listening
  <2>1. /\ Listening' /\ clicks = words /\ words \in Seq(DOMAIN PressOf)
        /\ clicks' = IF Clicked # {} THEN Append(clicks, CHOOSE b \in Clicked : TRUE) ELSE clicks
    <3>1. Stream \in Seq(InputEvent)
      BY <1>0, StreamType
    <3>2. words \in Seq(DOMAIN PressOf)
      BY <3>1, ButtonsOfType, WordsType
    <3> QED
      BY <1>9, <3>2 DEF Buttoning, ClicksInv, Listening
  <2>2. \A b \in Buttons :
           /\ \A t \in {"Press", "Long", "Repeat", "Release"} : W[Event(b, t)] = <<>>
           /\ W[Event(b, "Short")] = IF b \in DOMAIN PressOf THEN <<b>> ELSE <<>>
    <3>1. \A b \in Buttons, t \in Types : Event(b, t) \in InputEvent
      BY EventType
    <3>2. \A b \in Buttons, t \in Types : W[Event(b, t)] = ButtonOf(Event(b, t))
      BY <3>1, ButtonsOfType
    <3>3. \A b \in Buttons, t \in Types :
             ButtonOf(Event(b, t)) = IF t = "Short" /\ b \in DOMAIN PressOf THEN <<b>> ELSE <<>>
      BY DEF ButtonOf, ClickOf, Event
    <3> QED
      BY <3>2, <3>3 DEF Types
  <2>3. \A s \in Seq(DOMAIN PressOf) :
           s \o <<>> = s /\ \A b \in DOMAIN PressOf : s \o <<b>> = Append(s, b)
    BY ConcatEmptySeq
  <2>4. PICK b \in Buttons :
          \/ /\ PressButton(b) \/ HoldButton(b) \/ RepeatButton(b)
                \/ (ReleaseButton(b) /\ b \in longed)
             /\ Words(W, Stream') = words
          \/ /\ ReleaseButton(b) /\ b \notin longed
             /\ Words(W, Stream') = (words \o W[Event(b, "Short")]) \o <<>>
    <3>1. W \in [InputEvent -> Seq(DOMAIN PressOf)]
      BY ButtonsOfType
    <3> HIDE DEF W, words
    <3> QED
      BY <1>0, <1>9, <2>1, <2>2, <2>3, <3>1, UserWords DEF words
  <2>5. CASE /\ PressButton(b) \/ HoldButton(b) \/ RepeatButton(b)
                \/ (ReleaseButton(b) /\ b \in longed)
             /\ Words(W, Stream') = words
    <3>1. Clicked = {}
      BY <2>5 DEF PressButton, HoldButton, RepeatButton, ReleaseButton, user, Clicked
    <3> QED
      BY <1>0, <2>1, <2>5, <3>1 DEF ClicksInv
  <2>6. CASE /\ ReleaseButton(b) /\ b \notin longed
             /\ Words(W, Stream') = (words \o W[Event(b, "Short")]) \o <<>>
    <3>1. Clicked = {b} \cap DOMAIN PressOf
      BY <2>6 DEF ReleaseButton, Clicked
    <3> HIDE DEF words
    <3>2. CASE b \in DOMAIN PressOf
      <4>1. words \o <<b>> = Append(words, b) /\ Append(words, b) \in Seq(DOMAIN PressOf)
        BY <2>1, <3>2
      <4>2. Words(W, Stream') = Append(words, b)
        BY <2>2, <2>3, <2>6, <3>2, <4>1
      <4> QED
        BY <1>0, <2>1, <3>1, <3>2, <4>2 DEF ClicksInv
    <3>3. CASE b \notin DOMAIN PressOf
      <4>1. Words(W, Stream') = words
        BY <2>1, <2>2, <2>3, <2>6, <3>3
      <4> QED
        BY <1>0, <2>1, <3>1, <3>3, <4>1 DEF ClicksInv
    <3> QED
      BY <3>2, <3>3
  <2> QED
    BY <2>4, <2>5, <2>6
<1> QED
  BY <1>1, <1>2, <1>3, <1>4, <1>5, <1>6, <1>7, <1>8, <1>9 DEF AppNext, AppThread, Buttoning
-----------------------------------------------------------------------------
LEMMA NextAppType == AppTypeInv /\ ClicksInv /\ [AppNext]_appVars => AppTypeInv'
<1> SUFFICES ASSUME AppTypeInv, ClicksInv, [AppNext]_appVars PROVE AppTypeInv'
  OBVIOUS
<1> USE DEF AppTypeInv
<1>0. UNCHANGED input => InputTypeOK' /\ shown' = shown
  BY InputStutters
<1>1. ASSUME NEW b \in DOMAIN PressOf, TakeClick(b) PROVE AppTypeInv'
  <2>1. /\ Take(Event(b, "Short")) /\ pc = "loop" /\ pc' = "send" /\ ready' = ready
        /\ todo' = PressOf[b]
    BY <1>1 DEF TakeClick, Take, Press
  <2>2. PressOf[b] \in Presses /\ PressOf[b] # <<>> /\ PressOf[b] \in Seq(Button)
    OBVIOUS
  <2>3. todo' \in Remainder(PressOf[b])
    BY <2>1, <2>2, WholeRemains
  <2> QED
    BY <2>1, <2>2, <2>3, TakeClicks
<1>2. CASE TakeQuit \/ IgnoreEvent
  <2>1. PICK e : Take(e)
    BY <1>2 DEF TakeQuit, IgnoreEvent
  <2>2. /\ pc = "loop" /\ pc' \in {"loop", "stop"} /\ UNCHANGED <<todo, ready>>
    BY <1>2, <2>1 DEF TakeQuit, IgnoreEvent, Take, delivery
  <2> QED
    BY <2>1, <2>2, TakeClicks
<1>3. CASE Delivered
  <2>1. PICK s \in Presses : todo \in Remainder(s)
    BY <1>3 DEF Delivered
  <2>2. Tail(todo) = <<>> \/ Tail(todo) \in Remainder(s)
    BY <2>1, TailRemains
  <2> QED
    BY <1>0, <1>3, <2>1, <2>2 DEF Delivered, Confirm
<1>4. CASE NotDelivered
  BY <1>0, <1>4 DEF NotDelivered, GiveUp
<1>5. CASE StopTransport
  BY <1>0, <1>5 DEF StopTransport, delivery
<1>6. CASE RemoveViewPort
  BY <1>6, RemoveType DEF RemoveViewPort, delivery
<1>7. CASE StateCallback \/ Camera
  BY <1>0, <1>7 DEF StateCallback, Camera, delivery, Arrive, ArriveLate, LoseLate, Reconnect
<1>8. CASE Buttoning
  <2>1. InputTypeOK' /\ shown' = shown
    <3>1. CASE User
      BY <3>1, UserEmits, UserType DEF Emit
    <3>2. CASE GuiThread
      BY <3>2, GuiKeeps DEF GuiThread, TakeEvent, InputCallback
    <3> QED
      BY <1>8, <3>1, <3>2 DEF Buttoning
  <2> QED
    BY <1>8, <2>1 DEF Buttoning, delivery
<1>9. CASE UNCHANGED appVars
  BY <1>0, <1>9 DEF appVars, delivery
<1> QED
  BY <1>1, <1>2, <1>3, <1>4, <1>5, <1>6, <1>7, <1>8, <1>9 DEF AppNext, AppThread

\* Each variable has its type, and the app waits for the camera exactly while
\* something of a press is left to send.
THEOREM AppTypeCorrect == AppSpec => []AppTypeOK
<1>1. AppTypeInv /\ ClicksInv => AppTypeOK
  <2> SUFFICES ASSUME AppTypeInv, ClicksInv PROVE AppTypeOK
    OBVIOUS
  <2>1. Stream \in Seq(InputEvent)
    BY StreamType DEF AppTypeInv
  <2>2. clicks \in Seq(DOMAIN PressOf)
    BY <2>1, ButtonsOfType, WordsType DEF ClicksInv
  <2> QED
    BY <2>2 DEF AppTypeInv, AppTypeOK, Remainder
<1> QED
  BY InitApp, NextAppType, NextClicks, <1>1, PTL DEF AppSpec

\* No click of Up or OK is lost, doubled or overtaken on its way to the app,
\* however long the camera keeps the app waiting.
THEOREM ClicksAreKept == AppSpec => []ClicksKept
<1>1. AppTypeInv /\ ClicksInv => ClicksKept
  <2> SUFFICES ASSUME AppTypeInv, ClicksInv, Listening
               PROVE  clicks = FlattenSeq([i \in DOMAIN Stream |-> ButtonOf(Stream[i])])
    BY DEF ClicksKept
  <2>1. Stream \in Seq(InputEvent) /\ DOMAIN Stream = 1..Len(Stream)
    BY StreamType, LenProperties DEF AppTypeInv
  <2>2. \A i \in 1..Len(Stream) : ButtonsOf[Stream[i]] = ButtonOf(Stream[i])
    BY <2>1, ButtonsOfType
  <2>3. [i \in DOMAIN Stream |-> ButtonOf(Stream[i])]
        = [i \in 1..Len(Stream) |-> ButtonsOf[Stream[i]]]
    BY <2>1, <2>2, Zenon
  <2> QED
    BY <2>3 DEF ClicksInv, Words
<1> QED
  BY InitApp, NextAppType, NextClicks, <1>1, PTL DEF AppSpec

\* And each press of the camera's buttons is that of the oldest click.
THEOREM PressesAreClicks == AppSpec => OnePressPerClick
<1>1. ASSUME AppTypeInv, ClicksInv, [AppNext]_appVars
      PROVE  [ todo = <<>> /\ todo' # <<>>
               => clicks # <<>> /\ todo' = PressOf[Head(clicks)] /\ clicks' = Tail(clicks)
             ]_appVars
  <2> SUFFICES ASSUME AppNext, todo = <<>>, todo' # <<>>
               PROVE  clicks # <<>> /\ todo' = PressOf[Head(clicks)] /\ clicks' = Tail(clicks)
    BY <1>1
  <2>1. PICK b \in DOMAIN PressOf : TakeClick(b)
    BY DEF AppNext, AppThread, TakeQuit, IgnoreEvent, Delivered, Confirm, NotDelivered, GiveUp,
       StopTransport, RemoveViewPort, Buttoning, StateCallback, Camera, Arrive, ArriveLate,
       LoseLate, Reconnect, delivery
  <2>2. /\ Take(Event(b, "Short")) /\ todo' = PressOf[b] /\ clicks' = Tail(clicks)
        /\ ClickOf(Event(b, "Short")) /\ Event(b, "Short").key = b
    BY <2>1 DEF TakeClick, Press, ClickOf, Event
  <2> QED
    BY <1>1, <2>2, OldestTaken
<1> QED
  BY InitApp, NextAppType, NextClicks, <1>1, PTL DEF AppSpec, OnePressPerClick
-----------------------------------------------------------------------------
\* Clicks, the GUI and the way out add nothing to what ButtonDelivery promises:
\* whatever the app does to the camera is one of its steps.
THEOREM ClicksDeliver == AppSpec => Spec
<1>1. AppInit => Init
  BY DEF AppInit
<1>2. ASSUME [AppNext]_appVars PROVE [Next]_vars
  <2>1. ASSUME NEW b \in DOMAIN PressOf, TakeClick(b) PROVE Next
    <3>1. PressOf[b] \in Presses
      BY PressOfAssumption
    <3> QED
      BY <2>1, <3>1 DEF TakeClick, Next
  <2>2. CASE Delivered \/ NotDelivered \/ Camera
    BY <2>2 DEF Delivered, NotDelivered, Camera, Next
  <2>3. CASE UNCHANGED delivery
    BY <2>3 DEF delivery, vars
  <2> QED
    BY <1>2, <2>1, <2>2, <2>3 DEF AppNext, AppThread, TakeQuit, IgnoreEvent, StopTransport,
       RemoveViewPort, Buttoning, StateCallback, appVars
<1> QED
  BY <1>1, <1>2, PTL DEF AppSpec, Spec

\* So a click never releases the shutter without focusing, however many clicks
\* are waiting and whatever was given up before.
THEOREM ClicksFocus == AppSpec => FocusBeforeShutter
  BY ClicksDeliver, FocusesFirst, PTL
=============================================================================
