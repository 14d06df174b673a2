--------------------------- MODULE HidRemoteProofs ---------------------------
(* Proofs about HidRemote, for any of its remotes, any buttons, queue and  *)
(* bounds.                                                                 *)
EXTENDS HidRemote, InputLoopProofs

USE InputAssumption, RemoteAssumption

LEMMA TapType ==
    ASSUME NEW r \in Remotes, NEW b \in DOMAIN Taps[r]
    PROVE  Taps[r][b] \in Seq(Keys) /\ Taps[r][b] # <<>>
<1>1. CASE r = "enter"
  <2>1. Taps[r] = [Back |-> <<"Esc">>]
    BY <1>1 DEF Taps
  <2>2. b = "Back" /\ Taps[r][b] = <<"Esc">>
    BY <2>1
  <2>3. <<"Esc">> \in Seq(Keys)
    BY DEF Keys
  <2> QED
    BY <2>2, <2>3
<1>2. CASE r = "rvmc"
  <2>1. Taps[r] = [Up |-> <<"R", "V">>, Down |-> <<"M", "C">>,
                   Ok |-> <<"I", "N", "V">>]
    BY <1>2 DEF Taps
  <2>2. \/ Taps[r][b] = <<"R", "V">> \/ Taps[r][b] = <<"M", "C">>
        \/ Taps[r][b] = <<"I", "N", "V">>
    BY <2>1
  <2>3. /\ <<"R", "V">> \in Seq(Keys) /\ <<"M", "C">> \in Seq(Keys)
        /\ <<"I", "N", "V">> \in Seq(Keys)
        /\ <<"R", "V">> # <<>> /\ <<"M", "C">> # <<>> /\ <<"I", "N", "V">> # <<>>
    BY DEF Keys
  <2> QED
    BY ONLY <2>2, <2>3, Zenon
<1> QED
  BY <1>1, <1>2

LEMMA KeyType ==
    ASSUME NEW r \in Remotes, NEW b \in DOMAIN Mirrors[r]
    PROVE  Mirrors[r][b] \in Keys
<1>1. CASE r = "enter"
  BY <1>1 DEF Mirrors, Keys
<1>2. CASE r = "rvmc"
  BY <1>2 DEF Mirrors, Keys
<1> QED
  BY <1>1, <1>2

\* TypeOK but for the history variable owed, whose type follows from what it is.
TypeInv ==
    /\ InputTypeOK
    /\ remote \in Remotes
    /\ pc \in Labels
    /\ typing \in Seq(Keys)
    /\ pc \in {"pressed", "released"} <=> typing # <<>>
    /\ report \subseteq Keys /\ host \subseteq Keys
    /\ link \in BOOLEAN /\ advertising \in BOOLEAN
    /\ notices \in Seq(BOOLEAN) /\ Len(notices) <= MaxNotices
    /\ callback \in BOOLEAN /\ telling \in {"nothing", "connected", "other"}
    /\ connected \in BOOLEAN /\ led \in BOOLEAN
    /\ pc # "stopped" => shown

LEMMA TailLast ==
    ASSUME NEW S, NEW s \in Seq(S), s # <<>>
    PROVE  /\ Head(s) \in S /\ Tail(s) \in Seq(S) /\ Len(Tail(s)) = Len(s) - 1
           /\ Tail(s) # <<>> => Tail(s)[Len(Tail(s))] = s[Len(s)]
           /\ Tail(s) = <<>> => s[Len(s)] = Head(s)
<1>1. /\ Head(s) \in S /\ Tail(s) \in Seq(S) /\ Len(Tail(s)) = Len(s) - 1
      /\ \A i \in 1 .. Len(Tail(s)) : Tail(s)[i] = s[i + 1]
      /\ Len(s) \in Nat \ {0} /\ Head(s) = s[1]
  BY HeadTailProperties
<1>2. CASE Tail(s) = <<>>
  <2>1. Len(s) = 1
    BY <1>1, <1>2, EmptySeq
  <2> QED
    BY <1>1, <1>2, <2>1
<1>3. CASE Tail(s) # <<>>
  <2>1. Len(Tail(s)) \in 1 .. Len(Tail(s)) /\ Len(Tail(s)) + 1 = Len(s)
    BY <1>1, <1>3
  <2>2. Tail(s)[Len(Tail(s))] = s[Len(Tail(s)) + 1]
    BY <1>1, <2>1
  <2> QED
    BY <1>1, <1>3, <2>1, <2>2
<1> QED
  BY <1>2, <1>3

LEMMA AppendLast ==
    ASSUME NEW S, NEW s \in Seq(S), NEW x \in S
    PROVE  /\ Append(s, x) \in Seq(S) /\ Append(s, x) # <<>>
           /\ Len(Append(s, x)) = Len(s) + 1
           /\ Append(s, x)[Len(Append(s, x))] = x
  BY AppendProperties

LEMMA InitType == Init => TypeInv
<1> SUFFICES ASSUME Init PROVE TypeInv
  OBVIOUS
<1>1. InputTypeOK /\ shown
  BY InitInput DEF Init, InputInit
<1>2. typing \in Seq(Keys) /\ notices \in Seq(BOOLEAN) /\ Len(notices) <= MaxNotices
  BY DEF Init
<1> QED
  BY <1>1, <1>2 DEF Init, TypeInv, Labels

LEMMA NextType == TypeInv /\ [Next]_vars => TypeInv'
<1> SUFFICES ASSUME TypeInv, [Next]_vars PROVE TypeInv'
  OBVIOUS
<1> USE InputStutters DEF TypeInv, Labels, Step, status, service, keyboard
<1>1. CASE AppThread /\ UNCHANGED remote
  <2>1. CASE StartProfile \/ StartAdvertising \/ SetCallback
    BY <1>1, <2>1 DEF StartProfile, StartAdvertising, SetCallback
  <2>2. ASSUME NEW b \in DOMAIN TapOf, Tap(b) PROVE TypeInv'
    <3>1. /\ TapOf[b] \in Seq(Keys) /\ TapOf[b] # <<>>
          /\ Head(TapOf[b]) \in Keys
      BY TapType, HeadTailProperties DEF TapOf
    <3> QED
      BY <1>1, <2>2, <3>1, GetTakesFirst DEF Tap, Take, PressNext, SendReport
  <2>3. CASE PressTyped
    <3>1. Head(typing) \in Keys
      BY <2>3, HeadTailProperties DEF PressTyped
    <3> QED
      BY <1>1, <2>3, <3>1 DEF PressTyped, PressNext, SendReport
  <2>4. CASE ReleaseTyped
    <3>1. Tail(typing) \in Seq(Keys)
      BY <2>4, HeadTailProperties DEF ReleaseTyped
    <3> QED
      BY <1>1, <2>4, <3>1 DEF ReleaseTyped, SendReport
  <2>5. CASE Quit \/ IgnoreEvent
    BY <1>1, <2>5, GetTakesFirst DEF Quit, IgnoreEvent, Take
  <2>6. ASSUME NEW b \in DOMAIN KeyOf, PressKey(b) \/ ReleaseKey(b)
        PROVE  TypeInv'
    <3>1. KeyOf[b] \in Keys
      BY KeyType DEF KeyOf
    <3> QED
      BY <1>1, <2>6, <3>1, GetTakesFirst DEF PressKey, ReleaseKey, Take, SendReport
  <2>7. CASE ReleaseAll \/ ClearCallback \/ ResetLed \/ Disconnect
    BY <1>1, <2>7 DEF ReleaseAll, ClearCallback, ResetLed, Disconnect, SendReport
  <2>8. CASE RemoveViewPort
    BY <1>1, <2>8, RemoveType DEF RemoveViewPort
  <2> QED
    BY <1>1, <2>1, <2>2, <2>3, <2>4, <2>5, <2>6, <2>7, <2>8 DEF AppThread, HandleInput
<1>2. CASE BtThread /\ UNCHANGED remote
  <2>1. CASE MissNotice \/ BtStatusCallback
    <3>0. /\ Head(notices) \in BOOLEAN /\ Tail(notices) \in Seq(BOOLEAN)
          /\ Len(Tail(notices)) = Len(notices) - 1
      BY <2>1, TailLast, Zenon DEF MissNotice, BtStatusCallback
    <3>1. Len(Tail(notices)) <= MaxNotices
      BY <3>0
    <3>2. /\ notices' \in Seq(BOOLEAN) /\ connected' \in BOOLEAN
          /\ Len(notices') <= MaxNotices
          /\ telling' \in {"nothing", "connected", "other"}
      BY <2>1, <3>0, <3>1 DEF MissNotice, BtStatusCallback
    <3> QED
      BY <1>2, <2>1, <3>2 DEF MissNotice, BtStatusCallback
  <2>2. CASE SetLed
    BY <1>2, <2>2 DEF SetLed
  <2> QED
    BY <1>2, <2>1, <2>2 DEF BtThread
<1>3. CASE (HostConnects \/ HostLeaves) /\ UNCHANGED remote
  <2>1. PICK up \in BOOLEAN : notices' = Append(notices, up) /\ link' = up
    BY <1>3, Zenon DEF HostConnects, HostLeaves
  <2>2. notices \in Seq(BOOLEAN)
    OBVIOUS
  <2>3. /\ notices' \in Seq(BOOLEAN) /\ link' \in BOOLEAN
        /\ Len(notices') = Len(notices) + 1
    BY ONLY <2>1, <2>2, AppendLast, Zenon
  <2>4. Len(notices) \in Nat /\ Len(notices) < MaxNotices
    BY <1>3, <2>2, LenProperties DEF HostConnects, HostLeaves
  <2>5. Len(notices') <= MaxNotices
    BY ONLY <2>3, <2>4, RemoteAssumption
  <2> QED
    BY <1>3, <2>3, <2>5 DEF HostConnects, HostLeaves
<1>4. CASE Outside /\ UNCHANGED remote
  <2>1. InputTypeOK' /\ shown' = shown
    <3>1. CASE User
      <4>1. shown' = shown
        BY <3>1, UserEmits DEF Emit
      <4> QED
        BY <3>1, <4>1, UserType
    <3>2. CASE GuiThread
      BY <3>2, GuiKeeps DEF GuiThread, TakeEvent, InputCallback
    <3> QED
      BY <1>4, <3>1, <3>2 DEF Outside
  <2> QED
    BY <1>4, <2>1 DEF Outside
<1>5. CASE UNCHANGED vars
  BY <1>5 DEF vars
<1> QED
  BY <1>1, <1>2, <1>3, <1>4, <1>5 DEF Next
-----------------------------------------------------------------------------
(* The shortcuts.                                                          *)

TypedOf == [e \in InputEvent |-> Typed(e)]

\* The keys the tap in progress has yet to press.
Untyped == IF pc = "pressed" THEN Tail(typing) ELSE typing

OwedInv == owed = IF Listening THEN Untyped \o Words(TypedOf, Stream) ELSE <<>>

LEMMA TypedOfType ==
    ASSUME TypeInv
    PROVE  /\ TypedOf \in [InputEvent -> Seq(Keys)]
           /\ \A b \in DOMAIN TapOf : b \in Buttons => TypedOf[Event(b, "Short")] = TapOf[b]
           /\ \A e \in InputEvent : e \notin {Event(b, "Short") : b \in DOMAIN TapOf}
                 => TypedOf[e] = <<>>
<1>1. \A b \in DOMAIN TapOf : TapOf[b] \in Seq(Keys)
  BY TapType DEF TypeInv, TapOf
<1>2. \A e \in InputEvent : Typed(e) \in Seq(Keys)
  BY <1>1 DEF Typed
<1>3. \A e \in InputEvent : e.type = "Short" => e = Event(e.key, "Short")
  BY DEF InputEvent, Event
<1>4. \A c \in Buttons : /\ Event(c, "Short") \in InputEvent
                         /\ Event(c, "Short").type = "Short" /\ Event(c, "Short").key = c
  BY EventType DEF Types, Event
<1>5. TypedOf \in [InputEvent -> Seq(Keys)]
  BY <1>2, Zenon DEF TypedOf
<1>6. ASSUME NEW b \in DOMAIN TapOf, b \in Buttons
      PROVE  TypedOf[Event(b, "Short")] = TapOf[b]
  BY <1>4, <1>6 DEF TypedOf, Typed
<1>7. ASSUME NEW e \in InputEvent, e \notin {Event(b, "Short") : b \in DOMAIN TapOf}
      PROVE  TypedOf[e] = <<>>
  BY <1>3, <1>7 DEF TypedOf, Typed
<1> QED
  BY <1>5, <1>6, <1>7, Zenon

LEMMA UntypedType == TypeInv => Untyped \in Seq(Keys) /\ Words(TypedOf, Stream) \in Seq(Keys)
<1> SUFFICES ASSUME TypeInv PROVE Untyped \in Seq(Keys) /\ Words(TypedOf, Stream) \in Seq(Keys)
  OBVIOUS
<1>1. Stream \in Seq(InputEvent)
  BY StreamType DEF TypeInv
<1>2. Words(TypedOf, Stream) \in Seq(Keys)
  BY <1>1, TypedOfType, WordsType
<1>3. pc = "pressed" => Tail(typing) \in Seq(Keys)
  BY HeadTailProperties DEF TypeInv
<1> QED
  BY <1>2, <1>3 DEF Untyped, TypeInv

LEMMA InitOwed == Init => OwedInv
<1> SUFFICES ASSUME Init PROVE OwedInv
  OBVIOUS
<1>1. Words(TypedOf, Stream) = <<>>
  BY InitWords DEF Init
<1>2. Untyped = <<>> /\ Listening /\ owed = <<>>
  BY DEF Init, Untyped, Listening, Leaving
<1> QED
  BY <1>1, <1>2 DEF OwedInv

\* What Tail does to two sequences in a row.
LEMMA TailJoined ==
    ASSUME NEW S, NEW s \in Seq(S), s # <<>>, NEW t \in Seq(S)
    PROVE  Tail(s \o t) = Tail(s) \o t
<1>1. /\ Head(s) \in S /\ Tail(s) \in Seq(S) /\ Len(Tail(s)) = Len(s) - 1
      /\ \A i \in 1 .. Len(Tail(s)) : Tail(s)[i] = s[i + 1]
      /\ Len(s) \in Nat \ {0}
  BY HeadTailProperties, EmptySeq
<1> QED
  BY <1>1

\* A step that presses or releases no key of a tap.
LEMMA OwedKept ==
    ASSUME TypeInv, OwedInv, UNCHANGED <<pc, typing, owed, remote>>,
           Listening => Words(TypedOf, Stream') = Words(TypedOf, Stream)
    PROVE  OwedInv'
<1>1. TypedOf' = TypedOf /\ Listening' = Listening /\ Untyped' = Untyped
  BY DEF TypedOf, Typed, TapOf, Listening, Leaving, Untyped
<1>2. Words(TypedOf, Stream)' = Words(TypedOf, Stream')
  BY <1>1 DEF Words
<1> QED
  BY <1>1, <1>2 DEF OwedInv

\* A click puts its keys behind those owed.
LEMMA OutsideOwed == ASSUME TypeInv, OwedInv, Outside, UNCHANGED remote PROVE OwedInv'
<1> DEFINE W == TypedOf
           words == Words(W, Stream)
<1>0. /\ InputTypeOK /\ UNCHANGED <<pc, typing>> /\ (Listening => shown)
      /\ W' = W /\ Listening' = Listening /\ Untyped' = Untyped
  BY DEF TypeInv, Outside, Listening, Leaving, TypedOf, Typed, TapOf, Untyped
<1>1. Words(TypedOf, Stream)' = Words(W, Stream')
  BY <1>0 DEF Words
<1>2. CASE ~Listening
  BY <1>0, <1>2 DEF OwedInv, Outside
<1>3. CASE GuiThread
  <2>1. Clicked = {}
    BY <1>3 DEF GuiThread, TakeEvent, InputCallback, user, Clicked
  <2>2. Listening => Stream' = Stream
    BY <1>0, <1>3, GuiKeeps
  <2> QED
    BY <2>1, <2>2, OwedKept DEF Outside
<1>4. CASE User /\ Listening
  <2>1. /\ W \in [InputEvent -> Seq(Keys)] /\ words \in Seq(Keys)
        /\ Untyped \in Seq(Keys)
    BY TypedOfType, UntypedType
  <2>2. /\ owed = Untyped \o words
        /\ owed' = IF Clicked # {} THEN owed \o TapOf[CHOOSE b \in Clicked : TRUE] ELSE owed
    BY <1>4 DEF OwedInv, Outside
  <2>3. \A t \in {"Press", "Long", "Repeat", "Release"}, b \in Buttons :
           W[Event(b, t)] = <<>>
    <3>1. \A t \in {"Press", "Long", "Repeat", "Release"}, b \in Buttons :
             Event(b, t) \in InputEvent /\ \A c : Event(b, t) # Event(c, "Short")
      BY EventType DEF Event, Types
    <3> QED
      BY <3>1, TypedOfType
  <2>4. \A s \in Seq(Keys) : s \o <<>> = s
    BY ConcatEmptySeq
  <2>5. PICK b \in Buttons :
          \/ /\ PressButton(b) \/ HoldButton(b) \/ RepeatButton(b)
                \/ (ReleaseButton(b) /\ b \in longed)
             /\ Words(W, Stream') = words
          \/ /\ ReleaseButton(b) /\ b \notin longed
             /\ Words(W, Stream') = (words \o W[Event(b, "Short")]) \o <<>>
    <3> HIDE DEF W, words
    <3> QED
      BY <1>0, <1>4, <2>1, <2>3, <2>4, UserWords DEF words
  <2>6. CASE /\ PressButton(b) \/ HoldButton(b) \/ RepeatButton(b)
                \/ (ReleaseButton(b) /\ b \in longed)
             /\ Words(W, Stream') = words
    <3>1. Clicked = {}
      BY <2>6 DEF PressButton, HoldButton, RepeatButton, ReleaseButton, user, Clicked
    <3> QED
      BY <1>0, <1>1, <2>2, <2>6, <3>1 DEF OwedInv
  <2>7. CASE /\ ReleaseButton(b) /\ b \notin longed
             /\ Words(W, Stream') = (words \o W[Event(b, "Short")]) \o <<>>
    <3>1. Clicked = {b} \cap DOMAIN TapOf
      BY <2>7 DEF ReleaseButton, Clicked
    <3>2. Event(b, "Short") \in InputEvent
      BY EventType DEF Types
    <3>3. Words(W, Stream') = words \o W[Event(b, "Short")]
      BY <2>1, <2>4, <2>7, <3>2
    <3>4. CASE b \in DOMAIN TapOf
      <4>1. W[Event(b, "Short")] = TapOf[b] /\ TapOf[b] \in Seq(Keys)
        BY <3>4, TypedOfType, TapType DEF TypeInv, TapOf
      <4>2. owed' = (Untyped \o words) \o TapOf[b]
        BY <2>2, <3>1, <3>4
      <4>3. (Untyped \o words) \o TapOf[b] = Untyped \o (words \o TapOf[b])
        <5>1. ASSUME NEW x \in Seq(Keys), NEW y \in Seq(Keys), NEW z \in Seq(Keys)
              PROVE  x \o (y \o z) = (x \o y) \o z
          BY Regroup
        <5> QED
          BY <2>1, <4>1, <5>1, Zenon
      <4> QED
        BY <1>0, <1>1, <1>4, <3>3, <4>1, <4>2, <4>3 DEF OwedInv
    <3>5. CASE b \notin DOMAIN TapOf
      <4>1. \A c \in DOMAIN TapOf : Event(b, "Short") # Event(c, "Short")
        BY <3>5 DEF Event
      <4>2. W[Event(b, "Short")] = <<>>
        BY <3>2, <4>1, TypedOfType
      <4> QED
        BY <1>0, <1>1, <1>4, <2>1, <2>2, <2>4, <3>1, <3>3, <3>5, <4>2 DEF OwedInv
    <3> QED
      BY <3>4, <3>5
  <2> QED
    BY <2>5, <2>6, <2>7
<1> QED
  BY <1>2, <1>3, <1>4 DEF Outside

LEMMA NextOwed == TypeInv /\ OwedInv /\ [Next]_vars => OwedInv'
<1> SUFFICES ASSUME TypeInv, OwedInv, [Next]_vars PROVE OwedInv'
  OBVIOUS
<1> DEFINE W == TypedOf
           words == Words(W, Stream)
<1>0. InputTypeOK /\ remote' = remote /\ W' = W /\ TapOf' = TapOf
  <2>1. InputTypeOK /\ remote' = remote
    BY DEF TypeInv, Next, vars
  <2> QED
    BY <2>1 DEF TypedOf, Typed, TapOf
<1>1. Words(TypedOf, Stream)' = Words(W, Stream')
  BY <1>0 DEF Words
<1>2. /\ W \in [InputEvent -> Seq(Keys)] /\ words \in Seq(Keys)
      /\ \A s \in Seq(Keys) : s \o <<>> = s /\ <<>> \o s = s
  BY TypedOfType, UntypedType, ConcatEmptySeq
<1>3. UNCHANGED input => Words(W, Stream') = words
  BY <1>0, InputStutters
\* What the loop takes comes off what is owed.
<1>4. ASSUME NEW e, Take(e)
      PROVE  /\ Listening /\ owed = W[e] \o Words(W, Stream')
             /\ W[e] \in Seq(Keys) /\ Words(W, Stream') \in Seq(Keys) /\ e \in InputEvent
  <2>1. Listening /\ Untyped = <<>>
    BY <1>4 DEF Take, Listening, Leaving, Untyped, TypeInv
  <2>2. GetEvent /\ e = Head(queue)
    BY <1>4 DEF Take
  <2>3. /\ words = W[e] \o Words(W, Stream') /\ W[e] \in Seq(Keys)
        /\ Words(W, Stream') \in Seq(Keys)
    <3> HIDE DEF W
    <3> QED
      BY <1>0, <1>2, <2>2, GetWords
  <2>4. e \in InputEvent
    BY <1>0, <2>2, HeadTailProperties DEF InputTypeOK, GetEvent
  <2> QED
    BY <1>2, <2>1, <2>3, <2>4 DEF OwedInv
<1>5. ASSUME NEW b \in DOMAIN TapOf, Tap(b) PROVE OwedInv'
  <2>1. /\ Take(Event(b, "Short")) /\ typing' = TapOf[b] /\ pc' = "pressed"
        /\ owed' = Tail(owed)
    BY <1>5 DEF Tap, PressNext
  <2>2. TapOf[b] \in Seq(Keys) /\ TapOf[b] # <<>>
    BY TapType DEF TypeInv, TapOf
  <2>3. b \in Buttons
    BY <1>4, <2>1 DEF InputEvent, Event
  <2>4. owed = TapOf[b] \o Words(W, Stream')
    BY <1>4, <2>1, <2>3, TypedOfType
  <2>5. Tail(owed) = Tail(TapOf[b]) \o Words(W, Stream')
    BY <1>4, <2>1, <2>2, <2>4, TailJoined
  <2> QED
    BY <1>1, <2>1, <2>5 DEF OwedInv, Listening, Leaving, Untyped
<1>6. CASE PressTyped
  <2>1. /\ pc = "released" /\ pc' = "pressed" /\ typing' = typing /\ owed' = Tail(owed)
        /\ UNCHANGED input
    BY <1>6 DEF PressTyped, PressNext
  <2>2. owed = typing \o words /\ typing \in Seq(Keys) /\ typing # <<>>
    BY <2>1 DEF OwedInv, Listening, Leaving, Untyped, TypeInv
  <2>3. Tail(owed) = Tail(typing) \o words
    BY <1>2, <2>2, TailJoined
  <2> QED
    BY <1>1, <1>3, <2>1, <2>3 DEF OwedInv, Listening, Leaving, Untyped
<1>7. CASE ReleaseTyped
  <2>1. /\ pc = "pressed" /\ pc' \in {"loop", "released"} /\ typing' = Tail(typing)
        /\ UNCHANGED <<input, owed>>
    BY <1>7 DEF ReleaseTyped
  <2> QED
    BY <1>1, <1>3, <2>1 DEF OwedInv, Listening, Leaving, Untyped
<1>8. CASE Quit
  BY <1>8 DEF Quit, OwedInv, Listening, Leaving
<1>9. ASSUME NEW e, Take(e), e \notin {Event(b, "Short") : b \in DOMAIN TapOf},
             UNCHANGED <<pc, typing, owed>>
      PROVE  OwedInv'
  <2>1. W[e] = <<>>
    BY <1>4, <1>9, TypedOfType
  <2>2. owed = Words(W, Stream') /\ Untyped = <<>> /\ Listening
    BY <1>2, <1>4, <1>9, <2>1 DEF Untyped, Take, TypeInv
  <2> QED
    BY <1>1, <1>2, <1>4, <1>9, <2>2 DEF OwedInv, Untyped, Listening, Leaving
<1>10. CASE IgnoreEvent
  BY <1>9, <1>10 DEF IgnoreEvent, Handled, keyboard
<1>11. ASSUME NEW b \in DOMAIN KeyOf, PressKey(b) \/ ReleaseKey(b) PROVE OwedInv'
  <2>1. \A c : Event(b, "Press") # Event(c, "Short") /\ Event(b, "Release") # Event(c, "Short")
    BY DEF Event
  <2> QED
    BY <1>9, <1>11, <2>1 DEF PressKey, ReleaseKey
<1>12. CASE ReleaseAll \/ ClearCallback \/ ResetLed \/ Disconnect \/ RemoveViewPort
  BY <1>12 DEF ReleaseAll, ClearCallback, ResetLed, Disconnect, RemoveViewPort, Step,
     keyboard, OwedInv, Listening, Leaving
<1>13. CASE StartProfile \/ StartAdvertising \/ SetCallback
  <2>1. /\ pc \in {"start", "advertise", "register"} /\ pc' \in {"advertise", "register", "loop"}
        /\ UNCHANGED <<input, typing, owed>>
    BY <1>13 DEF StartProfile, StartAdvertising, SetCallback, Step, keyboard
  <2> QED
    BY <1>1, <1>3, <2>1 DEF OwedInv, Listening, Leaving, Untyped
<1>14. CASE BtThread \/ HostConnects \/ HostLeaves
  BY <1>0, <1>3, <1>14, OwedKept DEF BtThread, MissNotice, BtStatusCallback, SetLed,
     HostConnects, HostLeaves, keyboard
<1>15. CASE UNCHANGED vars
  BY <1>0, <1>3, <1>15, OwedKept DEF vars, keyboard
<1> QED
  BY <1>0, <1>5, <1>6, <1>7, <1>8, <1>10, <1>11, <1>12, <1>13, <1>14, <1>15,
     OutsideOwed DEF Next, AppThread, HandleInput

\* Each variable has its type, the keys owed too, as long as they are owed.
THEOREM TypeCorrect == Spec => []TypeOK
<1>1. TypeInv /\ OwedInv => TypeOK
  <2> SUFFICES ASSUME TypeInv, OwedInv PROVE owed \in Seq(Keys)
    BY DEF TypeInv, TypeOK
  <2>1. Untyped \in Seq(Keys) /\ Words(TypedOf, Stream) \in Seq(Keys)
    BY UntypedType
  <2>2. Untyped \o Words(TypedOf, Stream) \in Seq(Keys)
    BY <2>1, ConcatProperties
  <2> QED
    BY <2>2 DEF OwedInv
<1> QED
  BY InitType, NextType, InitOwed, NextOwed, <1>1, PTL DEF Spec

\* Every click of a shortcut is typed, each of its keys once and in order, by
\* either remote and however long the clicks wait in the two queues.
THEOREM EveryClickIsTyped == Spec => []ClicksAreTyped
<1>1. TypeInv /\ OwedInv => ClicksAreTyped
  <2> SUFFICES ASSUME TypeInv, OwedInv, Listening
               PROVE  owed = Untyped \o FlattenSeq([i \in DOMAIN Stream |-> Typed(Stream[i])])
    BY DEF ClicksAreTyped, Untyped
  <2>1. Stream \in Seq(InputEvent) /\ DOMAIN Stream = 1..Len(Stream)
    BY StreamType, LenProperties DEF TypeInv
  <2>2. \A i \in 1..Len(Stream) : TypedOf[Stream[i]] = Typed(Stream[i])
    BY <2>1 DEF TypedOf
  <2>3. [i \in DOMAIN Stream |-> Typed(Stream[i])] = [i \in 1..Len(Stream) |-> TypedOf[Stream[i]]]
    BY <2>1, <2>2, Zenon
  <2> QED
    BY <2>3 DEF OwedInv, Words
<1> QED
  BY InitType, NextType, InitOwed, NextOwed, <1>1, PTL DEF Spec
-----------------------------------------------------------------------------
(* The LED.                                                                *)

\* What the status callback knows, and what it has yet to be told.
LedInv ==
    /\ pc \in {"start", "advertise", "register"} =>
          ~callback /\ ~connected /\ ~led /\ telling = "nothing"
    /\ InLoop =>
          /\ callback
          /\ telling = "nothing" => led = connected
          /\ telling = "connected" => connected
          /\ telling = "other" => ~connected
    /\ InLoop \/ pc \in {"start", "advertise", "register"} =>
          /\ notices = <<>> /\ connected => link
          /\ notices # <<>> => notices[Len(notices)] = link

LEMMA InitLed == Init => LedInv
  BY DEF Init, LedInv, InLoop

LEMMA NextLed == TypeInv /\ LedInv /\ [Next]_vars => LedInv'
<1> SUFFICES ASSUME TypeInv, LedInv, [Next]_vars PROVE LedInv'
  OBVIOUS
<1> USE DEF TypeInv, Labels, LedInv, InLoop, Step, status, service, keyboard
<1>1. CASE AppThread
  <2>1. CASE StartProfile \/ StartAdvertising \/ SetCallback
    BY <2>1 DEF StartProfile, StartAdvertising, SetCallback
  <2>2. CASE HandleInput
    <3>1. /\ pc \in {"loop", "pressed", "released"}
          /\ pc' \in {"loop", "pressed", "released", "leave"}
      BY <2>2 DEF HandleInput, Tap, PressTyped, ReleaseTyped, Quit, IgnoreEvent,
         PressKey, ReleaseKey, Take, PressNext
    <3>2. UNCHANGED <<service, status>>
      BY <2>2 DEF HandleInput, Tap, PressTyped, ReleaseTyped, Quit, IgnoreEvent,
         PressKey, ReleaseKey
    <3> QED
      BY <3>1, <3>2
  <2>3. CASE ReleaseAll \/ ClearCallback \/ ResetLed \/ Disconnect \/ RemoveViewPort
    BY <2>3 DEF ReleaseAll, ClearCallback, ResetLed, Disconnect, RemoveViewPort
  <2> QED
    BY <1>1, <2>1, <2>2, <2>3 DEF AppThread
<1>2. CASE MissNotice \/ BtStatusCallback
  <2>1. notices # <<>> /\ notices' = Tail(notices)
    BY <1>2 DEF MissNotice, BtStatusCallback
  <2>2. /\ Tail(notices) # <<>> =>
              Tail(notices)[Len(Tail(notices))] = notices[Len(notices)]
        /\ Tail(notices) = <<>> => notices[Len(notices)] = Head(notices)
    BY <2>1, TailLast, Zenon
  <2>3. CASE MissNotice
    <3>1. ~InLoop /\ pc' = pc /\ ~callback /\ UNCHANGED <<callback, link, telling, status>>
      BY <2>3 DEF MissNotice
    <3>2. InLoop \/ pc \in {"start", "advertise", "register"} =>
             (notices' # <<>> => notices'[Len(notices')] = link')
      BY <2>1, <2>2, <3>1
    <3> QED
      BY <3>1, <3>2
  <2>4. CASE BtStatusCallback
    <3>1. /\ callback /\ pc' = pc /\ connected' = Head(notices)
          /\ UNCHANGED <<callback, link, led>>
          /\ telling' = IF Head(notices) THEN "connected" ELSE "other"
      BY <2>4 DEF BtStatusCallback
    <3>2. InLoop =>
             /\ notices' # <<>> => notices'[Len(notices')] = link'
             /\ notices' = <<>> => connected' = link'
      BY <2>1, <2>2, <3>1
    <3>3. pc \notin {"start", "advertise", "register"}
      BY <3>1
    <3>4. /\ telling' # "nothing"
          /\ telling' = "connected" => connected'
          /\ telling' = "other" => ~connected'
      BY <3>1
    <3> QED
      BY <3>1, <3>2, <3>3, <3>4
  <2> QED
    BY <1>2, <2>3, <2>4
<1>3. CASE SetLed
  BY <1>3 DEF SetLed
<1>4. ASSUME NEW up \in BOOLEAN, notices' = Append(notices, up), link' = up,
             UNCHANGED <<pc, callback, telling, connected, led>>
      PROVE  LedInv'
  <2>1. notices' # <<>> /\ notices'[Len(notices')] = link'
    <3>1. notices \in Seq(BOOLEAN)
      OBVIOUS
    <3>2. Append(notices, up) # <<>> /\ Append(notices, up)[Len(Append(notices, up))] = up
      BY ONLY <3>1, up \in BOOLEAN, AppendLast, Zenon
    <3> QED
      BY ONLY <1>4, <3>2, Zenon
  <2> QED
    BY ONLY <1>4, <2>1, LedInv DEF LedInv, InLoop
<1>5. CASE HostConnects \/ HostLeaves
  BY <1>4, <1>5 DEF HostConnects, HostLeaves
<1>6. CASE Outside
  BY <1>6 DEF Outside
<1>7. CASE UNCHANGED vars
  BY <1>7 DEF vars
<1> QED
  BY <1>1, <1>2, <1>3, <1>5, <1>6, <1>7 DEF Next, BtThread

\* With every status change told, the LED glows only if a host is connected,
\* wherever hosts come and go between the start of advertising and the callback.
THEOREM LedNeedsHost == Spec => []LedOnlyIfConnected
<1>1. TypeInv /\ LedInv => LedOnlyIfConnected
  BY DEF TypeInv, LedInv, InLoop, LedOnlyIfConnected, Told
<1> QED
  BY InitType, NextType, InitLed, NextLed, <1>1, PTL DEF Spec
-----------------------------------------------------------------------------
(* The keys.                                                               *)

\* The key a tap has just pressed.
Tapped == IF pc = "pressed" THEN {Head(typing)} ELSE {}

\* While buttons are mirrored, each key in the report is of a button held or
\* about to be released, and the host knows no more than the report.
KeyInv ==
    /\ shown => Answered
    /\ pc \in {"start", "advertise", "register"} => report = {}
    /\ InLoop \/ pc \in {"leave", "start", "advertise", "register"} =>
          /\ host \subseteq report
          /\ ~link => host = {}
          /\ \A k \in report \ Tapped :
                \E b \in DOMAIN KeyOf : k = KeyOf[b] /\ Held(b)
    /\ ~InLoop /\ pc # "leave" => host = {}

LEMMA InitKeys == Init => KeyInv
  BY InitAnswered DEF Init, KeyInv, InLoop, Tapped

\* Steps that press no key and lose no release.
LEMMA KeysKept ==
    ASSUME TypeInv, KeyInv, UNCHANGED <<pc, typing, report, link, host, remote>>,
           shown' => shown /\ Answered', \A b : Held(b) => Held(b)'
    PROVE  KeyInv'
  BY DEF KeyInv, InLoop, Tapped, KeyOf

\* Steps of the loop that change the report.
LEMMA KeysChanged ==
    ASSUME TypeInv, KeyInv, InLoop, NEW keys, SendReport(keys),
           UNCHANGED <<link, remote>>, InLoop', Answered',
           \A k \in keys \ Tapped' :
              \E b \in DOMAIN KeyOf : k = KeyOf[b] /\ Held(b)'
    PROVE  KeyInv'
  BY DEF KeyInv, InLoop, SendReport, KeyOf, Labels

LEMMA NextKeys == TypeInv /\ KeyInv /\ [Next]_vars => KeyInv'
<1> SUFFICES ASSUME TypeInv, KeyInv, [Next]_vars PROVE KeyInv'
  OBVIOUS
<1>0. InputTypeOK /\ (pc # "stopped" => shown /\ Answered)
  BY DEF TypeInv, KeyInv
<1>1. CASE HandleInput /\ UNCHANGED remote
  <2>0. /\ InLoop /\ Answered /\ KeyOf' = KeyOf
        /\ \A k \in report \ Tapped : \E b \in DOMAIN KeyOf : k = KeyOf[b] /\ Held(b)
    BY <1>0, <1>1 DEF KeyInv, InLoop, HandleInput, Tap, PressTyped, ReleaseTyped,
       Quit, IgnoreEvent, PressKey, ReleaseKey, Take, KeyOf
  <2>1. ASSUME NEW e, Take(e)
        PROVE  /\ pc = "loop" /\ Tapped = {} /\ Answered' /\ e = Head(queue)
               /\ \A b : Held(b) /\ e # Event(b, "Release") => Held(b)'
               /\ \A b : e = Event(b, "Press") => Held(b)'
    BY <1>0, <2>0, <2>1, GetHeld DEF Take, Tapped
  <2>2. ASSUME NEW b \in DOMAIN TapOf, Tap(b) PROVE KeyInv'
    <3>1. /\ pc' = "pressed" /\ typing' = TapOf[b] /\ Take(Event(b, "Short"))
          /\ SendReport(report \cup {Head(typing')}) /\ UNCHANGED service
      BY <2>2 DEF Tap, PressNext
    <3>2. \A c : Event(b, "Short") # Event(c, "Release")
      BY DEF Event
    <3>3. Tapped' = {Head(typing')}
      BY <3>1 DEF Tapped
    <3> QED
      BY <1>1, <2>0, <2>1, <3>1, <3>2, <3>3, KeysChanged DEF InLoop, service
  <2>3. CASE PressTyped
    <3>1. /\ pc = "released" /\ pc' = "pressed" /\ typing' = typing
          /\ SendReport(report \cup {Head(typing)}) /\ UNCHANGED <<service, input>>
      BY <2>3 DEF PressTyped, PressNext
    <3>2. Tapped = {} /\ Tapped' = {Head(typing)}
      BY <3>1 DEF Tapped
    <3>3. Answered' /\ \A b : Held(b) => Held(b)'
      BY <1>0, <2>0, <3>1, InputStutters, SameHeld
    <3> QED
      BY <1>1, <2>0, <3>1, <3>2, <3>3, KeysChanged DEF InLoop, service
  <2>4. CASE ReleaseTyped
    <3>1. /\ pc = "pressed" /\ pc' \in {"loop", "released"}
          /\ SendReport(report \ {Head(typing)}) /\ UNCHANGED <<service, input>>
      BY <2>4 DEF ReleaseTyped
    <3>2. Tapped = {Head(typing)} /\ Tapped' = {}
      BY <3>1 DEF Tapped
    <3>3. Answered' /\ \A b : Held(b) => Held(b)'
      BY <1>0, <2>0, <3>1, InputStutters, SameHeld
    <3> QED
      BY <1>1, <2>0, <3>1, <3>2, <3>3, KeysChanged DEF InLoop, service
  <2>5. CASE Quit
    <3>1. Take(QuitEvent) /\ pc' = "leave" /\ UNCHANGED <<report, host, service>>
      BY <2>5 DEF Quit
    <3>2. \A b : QuitEvent # Event(b, "Release")
      BY DEF QuitEvent, Event
    <3>3. Tapped' = {}
      BY <3>1 DEF Tapped
    <3> QED
      BY <1>1, <2>0, <2>1, <3>1, <3>2, <3>3 DEF KeyInv, InLoop, service
  <2>6. CASE IgnoreEvent
    <3>1. PICK e \in InputEvent \ Handled : Take(e)
      BY <2>6 DEF IgnoreEvent
    <3>2. \A b \in DOMAIN KeyOf : e # Event(b, "Release")
      BY <3>1 DEF Handled
    <3>3. pc' = "loop" /\ UNCHANGED <<typing, report, host, service>>
      BY <2>1, <2>6, <3>1 DEF IgnoreEvent, keyboard
    <3>4. Tapped' = {}
      BY <3>3 DEF Tapped
    <3> QED
      BY <1>1, <2>0, <2>1, <3>1, <3>2, <3>3, <3>4 DEF KeyInv, InLoop, service
  <2>7. ASSUME NEW b \in DOMAIN KeyOf, PressKey(b) PROVE KeyInv'
    <3>1. /\ Take(Event(b, "Press")) /\ pc' = "loop" /\ UNCHANGED service
          /\ SendReport(report \cup {KeyOf[b]})
      BY <2>1, <2>7 DEF PressKey
    <3>2. \A c : Event(b, "Press") # Event(c, "Release")
      BY DEF Event
    <3> QED
      BY <1>1, <2>0, <2>1, <3>1, <3>2, KeysChanged DEF InLoop, service
  <2>8. ASSUME NEW b \in DOMAIN KeyOf, ReleaseKey(b) PROVE KeyInv'
    <3>1. /\ Take(Event(b, "Release")) /\ pc' = "loop" /\ UNCHANGED service
          /\ SendReport(report \ {KeyOf[b]})
      BY <2>1, <2>8 DEF ReleaseKey
    <3>2. \A c : Event(b, "Release") = Event(c, "Release") => b = c
      BY DEF Event
    <3> QED
      BY <1>1, <2>0, <2>1, <3>1, <3>2, KeysChanged DEF InLoop, service
  <2> QED
    BY <1>1, <2>2, <2>3, <2>4, <2>5, <2>6, <2>7, <2>8 DEF HandleInput
<1>2. ASSUME UNCHANGED input
      PROVE  /\ Answered => Answered'
             /\ \A b : Held(b) => Held(b)'
             /\ shown' = shown
  BY <1>0, <1>2, InputStutters, SameHeld
<1>3. CASE (StartProfile \/ StartAdvertising \/ SetCallback) /\ UNCHANGED remote
  BY <1>0, <1>2, <1>3 DEF StartProfile, StartAdvertising, SetCallback, Step, KeyInv,
     InLoop, Tapped, keyboard, service
<1>4. CASE ReleaseAll
  BY <1>0, <1>2, <1>4, InputStutters DEF ReleaseAll, Step, SendReport, KeyInv, InLoop
<1>5. CASE ClearCallback \/ ResetLed \/ Disconnect
  BY <1>0, <1>2, <1>5, InputStutters DEF ClearCallback, ResetLed, Disconnect, Step,
     KeyInv, InLoop, keyboard
<1>6. CASE RemoveViewPort
  BY <1>6 DEF RemoveViewPort, GuiRemoveViewPort, Step, KeyInv, InLoop, keyboard
<1>7. CASE BtThread /\ UNCHANGED remote
  <2>1. UNCHANGED <<input, pc, typing, report, link, host, remote>>
    BY <1>7 DEF BtThread, MissNotice, BtStatusCallback, SetLed, keyboard
  <2> QED
    BY <1>2, <2>1, KeysKept DEF KeyInv
<1>8. CASE (HostConnects \/ HostLeaves) /\ UNCHANGED remote
  <2>1. UNCHANGED <<input, pc, typing, report, remote>> /\ host' = {}
    BY <1>8 DEF HostConnects, HostLeaves
  <2> QED
    BY <1>0, <1>2, <2>1, InputStutters DEF KeyInv, InLoop, Tapped, KeyOf
<1>9. CASE Outside /\ UNCHANGED remote
  <2>1. UNCHANGED <<pc, typing, report, link, host, remote>>
    BY <1>9 DEF Outside, service
  <2>2. CASE User
    <3>1. shown' = shown
      BY <1>0, <2>2, UserEmits DEF Emit
    <3>2. CASE shown
      BY <1>0, <2>1, <2>2, <3>1, <3>2, UserHeld, KeysKept DEF KeyInv
    <3>3. CASE ~shown
      BY <1>0, <2>1, <3>1, <3>3 DEF KeyInv, InLoop
    <3> QED
      BY <3>2, <3>3
  <2>3. CASE GuiThread
    <3>1. down' = down /\ shown' = shown
      BY <2>3 DEF GuiThread, TakeEvent, InputCallback, user
    <3>2. CASE shown
      BY <1>0, <2>1, <2>3, <3>1, <3>2, GuiKeeps, SameHeld, KeysKept DEF KeyInv
    <3>3. CASE ~shown
      BY <1>0, <2>1, <3>1, <3>3 DEF KeyInv, InLoop
    <3> QED
      BY <3>2, <3>3
  <2> QED
    BY <1>9, <2>2, <2>3 DEF Outside
<1>10. CASE UNCHANGED vars
  <2>1. UNCHANGED <<input, pc, typing, report, link, host, remote>>
    BY <1>10 DEF vars, keyboard, service
  <2> QED
    BY <1>2, <2>1, KeysKept DEF KeyInv
<1> QED
  BY <1>1, <1>3, <1>4, <1>5, <1>6, <1>7, <1>8, <1>9, <1>10 DEF Next, AppThread

\* No key sticks on the host, whatever the user presses, however hosts come and
\* go and wherever the app is left, for any queue size.
THEOREM NoKeySticks == Spec => []NoKeyStuck
<1>1. TypeInv /\ KeyInv => NoKeyStuck
  BY DEF TypeInv, Labels, KeyInv, InLoop, Tapped, Held, NoKeyStuck
<1> QED
  BY InitType, NextType, InitKeys, NextKeys, <1>1, PTL DEF Spec
-----------------------------------------------------------------------------
(* The buttons mirrored.                                                   *)

Mirrored == {KeyOf[b] : b \in DOMAIN KeyOf}
Changes == {"Press", "Release"}

\* What the events about a button say of it.
ChangeOf(b) ==
    [e \in InputEvent |->
        IF e \in {Event(b, "Press"), Event(b, "Release")} THEN <<e.type>> ELSE <<>>]

\* How the report has it, followed by the events on their way.
Reported(b) == IF KeyOf[b] \in report THEN "Press" ELSE "Release"
Pressed(b) == IF b \in down THEN "Press" ELSE "Release"
Account(b) == <<Reported(b)>> \o Words(ChangeOf(b), Stream)

\* The last of them has it as it is, and a tap never touches its key.
MirrorInv ==
    /\ typing \in Seq(Keys \ Mirrored)
    /\ InLoop \/ pc \in {"start", "advertise", "register"} =>
          \A b \in DOMAIN KeyOf : Last(Account(b)) = Pressed(b)

LEMMA MirrorsDiffer ==
    ASSUME NEW r \in Remotes, NEW b \in DOMAIN Mirrors[r], NEW c \in DOMAIN Mirrors[r],
           Mirrors[r][b] = Mirrors[r][c]
    PROVE  b = c
<1>1. CASE r = "enter"
  BY <1>1 DEF Mirrors
<1>2. CASE r = "rvmc"
  BY <1>2 DEF Mirrors
<1> QED
  BY <1>1, <1>2

LEMMA TapsElse ==
    ASSUME NEW r \in Remotes, NEW b \in DOMAIN Taps[r]
    PROVE  Taps[r][b] \in Seq(Keys \ {Mirrors[r][c] : c \in DOMAIN Mirrors[r]})
<1> DEFINE M == {Mirrors[r][c] : c \in DOMAIN Mirrors[r]}
<1>1. CASE r = "enter"
  <2>1. Taps[r][b] = <<"Esc">>
    BY <1>1 DEF Taps
  <2>2. "Esc" \in Keys \ M
    BY <1>1 DEF Mirrors, Keys
  <2> HIDE DEF M
  <2>3. <<"Esc">> \in Seq(Keys \ M)
    BY <2>2
  <2> QED
    BY <2>1, <2>3 DEF M
<1>2. CASE r = "rvmc"
  <2>1. M = {}
    BY <1>2 DEF Mirrors
  <2>2. Keys \ M = Keys
    BY <2>1
  <2> QED
    BY <2>2, TapType
<1> QED
  BY <1>1, <1>2

LEMMA ChangeOfType ==
    ASSUME NEW b
    PROVE  /\ ChangeOf(b) \in [InputEvent -> Seq(Changes)]
           /\ \A e \in InputEvent :
                 /\ e = Event(b, "Press") => ChangeOf(b)[e] = <<"Press">>
                 /\ e = Event(b, "Release") => ChangeOf(b)[e] = <<"Release">>
                 /\ e \notin {Event(b, "Press"), Event(b, "Release")}
                       => ChangeOf(b)[e] = <<>>
<1>1. <<"Press">> \in Seq(Changes) /\ <<"Release">> \in Seq(Changes) /\ <<>> \in Seq(Changes)
  BY DEF Changes
<1>2. Event(b, "Press").type = "Press" /\ Event(b, "Release").type = "Release"
  BY DEF Event
<1>3. \A e \in InputEvent :
         /\ e = Event(b, "Press") => ChangeOf(b)[e] = <<"Press">>
         /\ e = Event(b, "Release") => ChangeOf(b)[e] = <<"Release">>
         /\ e \notin {Event(b, "Press"), Event(b, "Release")} => ChangeOf(b)[e] = <<>>
  BY <1>2, Zenon DEF ChangeOf
<1>4. \A e \in InputEvent : ChangeOf(b)[e] \in Seq(Changes)
  BY <1>1, <1>3, Zenon
<1> QED
  BY <1>3, <1>4, Zenon DEF ChangeOf

LEMMA LastJoined ==
    ASSUME NEW S, NEW s \in Seq(S), NEW x \in S, NEW p \in S
    PROVE  /\ Last(<<p>> \o (s \o <<x>>)) = x
           /\ Last(<<p>> \o (<<x>> \o s)) = Last(<<x>> \o s)
           /\ Last(<<p>> \o <<>>) = p
  BY DEF Last

LEMMA AccountType ==
    ASSUME TypeInv, NEW b
    PROVE  Words(ChangeOf(b), Stream) \in Seq(Changes)
<1>1. Stream \in Seq(InputEvent)
  BY StreamType DEF TypeInv
<1> QED
  BY <1>1, ChangeOfType, WordsType

LEMMA InitMirror == Init => MirrorInv
<1> SUFFICES ASSUME Init PROVE MirrorInv
  OBVIOUS
<1>1. typing = <<>> /\ report = {} /\ down = {}
  BY DEF Init, InputInit
<1>2. ASSUME NEW b \in DOMAIN KeyOf PROVE Last(Account(b)) = Pressed(b)
  <2>1. Words(ChangeOf(b), Stream) = <<>>
    BY InitWords DEF Init
  <2>2. Account(b) = <<"Release">> \o <<>> /\ Pressed(b) = "Release"
    BY <1>1, <2>1 DEF Account, Reported, Pressed
  <2>3. Last(<<"Release">> \o <<>>) = "Release"
    BY DEF Last
  <2> QED
    BY <2>2, <2>3
<1> QED
  BY <1>1, <1>2 DEF MirrorInv

\* The account of a button after a step.
LEMMA AccountNext ==
    ASSUME NEW b
    PROVE  /\ Account(b)' = <<Reported(b)'>> \o Words(ChangeOf(b), Stream')
           /\ Words(ChangeOf(b), Stream)' = Words(ChangeOf(b), Stream')
  BY DEF Account, Words, ChangeOf, InputEvent, Event

LEMMA MirrorKept ==
    ASSUME TypeInv, MirrorInv, remote' = remote, typing' \in Seq(Keys \ Mirrored),
           InLoop' \/ pc' \in {"start", "advertise", "register"}
              => InLoop \/ pc \in {"start", "advertise", "register"},
           UNCHANGED <<Stream, down>>,
           \A k \in Mirrored : k \in report' <=> k \in report
    PROVE  MirrorInv'
<1>1. KeyOf' = KeyOf /\ Mirrored' = Mirrored
  BY DEF KeyOf, Mirrored
<1>2. \A b \in DOMAIN KeyOf : Reported(b)' = Reported(b) /\ Pressed(b)' = Pressed(b)
  BY <1>1 DEF Mirrored, Reported, Pressed
<1>3. \A b \in DOMAIN KeyOf : Account(b)' = Account(b)
  <2> SUFFICES ASSUME NEW b \in DOMAIN KeyOf PROVE Account(b)' = Account(b)
    OBVIOUS
  <2>1. Account(b)' = <<Reported(b)'>> \o Words(ChangeOf(b), Stream')
    BY AccountNext
  <2> QED
    BY <1>2, <2>1 DEF Account
<1>4. \A b \in DOMAIN KeyOf : Last(Account(b))' = Last(Account(b))
  BY <1>3 DEF Last
<1> QED
  BY <1>1, <1>2, <1>4 DEF MirrorInv

\* What a user does to a button is the last thing said of it.
LEMMA OutsideMirror ==
    ASSUME TypeInv, MirrorInv, Outside, remote' = remote
    PROVE  MirrorInv'
<1>0. /\ InputTypeOK /\ (pc # "stopped" => shown) /\ UNCHANGED <<pc, report, typing>>
      /\ KeyOf' = KeyOf /\ Mirrored' = Mirrored /\ InLoop' = InLoop
  BY DEF TypeInv, Outside, KeyOf, Mirrored, InLoop
<1>1. CASE ~(InLoop \/ pc \in {"start", "advertise", "register"})
  BY <1>0, <1>1 DEF MirrorInv
<1>2. CASE GuiThread /\ pc # "stopped"
  <2>1. UNCHANGED <<Stream, down>>
    BY <1>0, <1>2, GuiKeeps DEF GuiThread, TakeEvent, InputCallback, user
  <2> QED
    BY <1>0, <2>1, MirrorKept DEF MirrorInv
<1>3. CASE User /\ (InLoop \/ pc \in {"start", "advertise", "register"})
  <2> SUFFICES ASSUME NEW b \in DOMAIN KeyOf PROVE Last(Account(b))' = Pressed(b)'
    BY <1>0 DEF MirrorInv
  <2> DEFINE W == ChangeOf(b)
             words == Words(W, Stream)
  <2>1. /\ W \in [InputEvent -> Seq(Changes)] /\ words \in Seq(Changes)
        /\ \A s \in Seq(Changes) : s \o <<>> = s
    BY ChangeOfType, AccountType, ConcatEmptySeq
  <2>2. /\ Reported(b)' = Reported(b) /\ Reported(b) \in Changes
        /\ Pressed(b)' = (IF b \in down' THEN "Press" ELSE "Release")
    BY <1>0 DEF Reported, Pressed, Changes
  <2>3. Last(Account(b)) = Pressed(b)
    BY <1>3 DEF MirrorInv
  <2>4. Account(b)' = <<Reported(b)>> \o Words(W, Stream')
    BY <2>2, AccountNext
  <2>5. \A c \in Buttons :
           /\ W[Event(c, "Short")] = <<>> /\ W[Event(c, "Long")] = <<>>
           /\ W[Event(c, "Repeat")] = <<>>
           /\ c # b => W[Event(c, "Press")] = <<>> /\ W[Event(c, "Release")] = <<>>
           /\ c = b => W[Event(c, "Press")] = <<"Press">> /\ W[Event(c, "Release")] = <<"Release">>
    <3> SUFFICES ASSUME NEW c \in Buttons
                 PROVE  /\ W[Event(c, "Short")] = <<>> /\ W[Event(c, "Long")] = <<>>
                        /\ W[Event(c, "Repeat")] = <<>>
                        /\ c # b => W[Event(c, "Press")] = <<>> /\ W[Event(c, "Release")] = <<>>
                        /\ c = b => /\ W[Event(c, "Press")] = <<"Press">>
                                    /\ W[Event(c, "Release")] = <<"Release">>
      OBVIOUS
    <3>1. \A t \in Types : Event(c, t) \in InputEvent
      BY EventType
    <3>2. \A t \in {"Short", "Long", "Repeat"} : W[Event(c, t)] = <<>>
      <4>1. \A t \in {"Short", "Long", "Repeat"} :
               /\ Event(c, t) \in InputEvent
               /\ Event(c, t) \notin {Event(b, "Press"), Event(b, "Release")}
        BY <3>1 DEF Types, Event
      <4> QED
        BY <4>1, ChangeOfType
    <3>3. ASSUME c # b PROVE W[Event(c, "Press")] = <<>> /\ W[Event(c, "Release")] = <<>>
      <4>1. \A t \in Changes :
               /\ Event(c, t) \in InputEvent
               /\ Event(c, t) \notin {Event(b, "Press"), Event(b, "Release")}
        BY <3>1, <3>3 DEF Types, Event, Changes
      <4> QED
        BY <4>1, ChangeOfType DEF Changes
    <3>4. ASSUME c = b
          PROVE  W[Event(c, "Press")] = <<"Press">> /\ W[Event(c, "Release")] = <<"Release">>
      <4>1. Event(c, "Press") \in InputEvent /\ Event(c, "Release") \in InputEvent
        BY <3>1 DEF Types
      <4> QED
        BY <3>4, <4>1, ChangeOfType
    <3> QED
      BY <3>2, <3>3, <3>4
  <2> HIDE DEF W, words
  <2>6. PICK c \in Buttons :
          \/ /\ \/ PressButton(c) /\ c # b
                \/ HoldButton(c) \/ RepeatButton(c)
                \/ ReleaseButton(c) /\ c # b
             /\ Words(W, Stream') = words
          \/ PressButton(b) /\ Words(W, Stream') = words \o <<"Press">>
          \/ ReleaseButton(b) /\ Words(W, Stream') = words \o <<"Release">>
    BY <1>0, <1>3, <2>1, <2>5, UserWords DEF words
  <2>7. CASE /\ \/ PressButton(c) /\ c # b
                \/ HoldButton(c) \/ RepeatButton(c)
                \/ ReleaseButton(c) /\ c # b
             /\ Words(W, Stream') = words
    <3>1. b \in down' <=> b \in down
      BY <2>7 DEF PressButton, HoldButton, RepeatButton, ReleaseButton, user
    <3>2. Account(b)' = Account(b)
      BY <2>4, <2>7 DEF Account, W, words
    <3>3. Last(Account(b))' = Last(Account(b)) /\ Pressed(b)' = Pressed(b)
      BY <2>2, <3>1, <3>2 DEF Last, Pressed
    <3> QED
      BY <2>3, <3>3
  <2>8. ASSUME NEW t \in Changes, Words(W, Stream') = words \o <<t>>,
               t = IF b \in down' THEN "Press" ELSE "Release"
        PROVE  Last(Account(b))' = Pressed(b)'
    <3>1. Last(<<Reported(b)>> \o (words \o <<t>>)) = t
      BY <2>1, <2>2, LastJoined
    <3>2. Last(Account(b))' = t
      BY <2>4, <2>8, <3>1 DEF Last
    <3> QED
      BY <2>2, <2>8, <3>2
  <2>9. CASE PressButton(b) /\ Words(W, Stream') = words \o <<"Press">>
    BY <2>8, <2>9 DEF PressButton, Changes
  <2>10. CASE ReleaseButton(b) /\ Words(W, Stream') = words \o <<"Release">>
    BY <2>8, <2>10 DEF ReleaseButton, Changes
  <2> QED
    BY <2>6, <2>7, <2>9, <2>10
<1> QED
  BY <1>1, <1>2, <1>3 DEF Outside, InLoop

\* Once the loop has taken an event, what it said of a button is how the report
\* has it.
LEMMA TakeMirror ==
    ASSUME TypeInv, MirrorInv, NEW e, Take(e), remote' = remote,
           \A b \in DOMAIN KeyOf :
              /\ e = Event(b, "Press") => KeyOf[b] \in report'
              /\ e = Event(b, "Release") => KeyOf[b] \notin report'
              /\ e \notin {Event(b, "Press"), Event(b, "Release")}
                    => (KeyOf[b] \in report' <=> KeyOf[b] \in report),
           pc' \in Labels \ {"start", "advertise", "register"},
           typing' \in Seq(Keys \ Mirrored)
    PROVE  MirrorInv'
<1>0. /\ InputTypeOK /\ InLoop /\ GetEvent /\ e = Head(queue) /\ e \in InputEvent
      /\ KeyOf' = KeyOf /\ Mirrored' = Mirrored
  BY HeadTailProperties DEF TypeInv, Take, InLoop, KeyOf, Mirrored, InputTypeOK, GetEvent
<1>1. down' = down
  BY <1>0, GetTakesFirst
<1>2. ASSUME NEW b \in DOMAIN KeyOf PROVE Last(Account(b))' = Pressed(b)'
  <2> DEFINE W == ChangeOf(b)
             rest == Words(W, Stream')
  <2>1. /\ Last(Account(b)) = Pressed(b) /\ Pressed(b)' = Pressed(b)
        /\ Reported(b) \in Changes
    BY <1>0, <1>1 DEF MirrorInv, Pressed, Reported, Changes
  <2>2. Words(W, Stream) = W[e] \o rest /\ rest \in Seq(Changes)
    <3>1. W \in [InputEvent -> Seq(Changes)]
      BY ChangeOfType
    <3> HIDE DEF W
    <3> QED
      BY <1>0, <3>1, GetWords
  <2>3. Account(b)' = <<Reported(b)'>> \o rest
    BY AccountNext
  <2> HIDE DEF rest
  <2>4. ASSUME NEW t \in Changes, W[e] = <<t>>, Reported(b)' = t
        PROVE  Last(Account(b))' = Last(Account(b))
    <3>1. Last(<<Reported(b)>> \o (<<t>> \o rest)) = Last(<<t>> \o rest)
      BY <2>1, <2>2, LastJoined
    <3> QED
      BY <2>2, <2>3, <2>4, <3>1 DEF Account, Last
  <2>5. CASE e \in {Event(b, "Press"), Event(b, "Release")}
    <3>1. \E t \in Changes : W[e] = <<t>> /\ Reported(b)' = t
      BY <1>0, <2>5, ChangeOfType DEF Reported, Changes
    <3> QED
      BY <2>1, <2>4, <3>1
  <2>6. CASE e \notin {Event(b, "Press"), Event(b, "Release")}
    <3>1. W[e] = <<>> /\ Reported(b)' = Reported(b)
      BY <1>0, <2>6, ChangeOfType DEF Reported
    <3>2. <<>> \o rest = rest
      BY <2>2, ConcatEmptySeq
    <3> QED
      BY <2>1, <2>2, <2>3, <3>1, <3>2 DEF Account, Last
  <2> QED
    BY <2>5, <2>6
<1> QED
  BY <1>0, <1>2 DEF MirrorInv

LEMMA NextMirror == TypeInv /\ MirrorInv /\ [Next]_vars => MirrorInv'
<1> SUFFICES ASSUME TypeInv, MirrorInv, [Next]_vars PROVE MirrorInv'
  OBVIOUS
<1>0. /\ InputTypeOK /\ remote' = remote /\ typing \in Seq(Keys \ Mirrored)
      /\ KeyOf' = KeyOf /\ Mirrored' = Mirrored
  <2>1. InputTypeOK /\ remote' = remote
    BY DEF TypeInv, Next, vars
  <2> QED
    BY <2>1 DEF KeyOf, Mirrored, MirrorInv
<1>1. UNCHANGED input => UNCHANGED <<Stream, down>>
  BY <1>0, InputStutters
<1>2. ASSUME NEW b \in DOMAIN TapOf, Tap(b) PROVE MirrorInv'
  <2>1. /\ Take(Event(b, "Short")) /\ typing' = TapOf[b] /\ pc' = "pressed"
        /\ report' = report \cup {Head(typing')}
    BY <1>2 DEF Tap, PressNext, SendReport
  <2>2. typing' \in Seq(Keys \ Mirrored) /\ typing' # <<>>
    BY <2>1, TapType, TapsElse DEF TypeInv, TapOf, KeyOf, Mirrored
  <2>3. Head(typing') \notin Mirrored
    BY <2>2, HeadTailProperties
  <2>4. \A c : Event(b, "Short") \notin {Event(c, "Press"), Event(c, "Release")}
    BY DEF Event
  <2> QED
    BY <1>0, <2>1, <2>2, <2>3, <2>4, TakeMirror DEF Labels, Mirrored
<1>3. CASE PressTyped \/ ReleaseTyped
  <2>1. /\ pc \in {"pressed", "released"} /\ UNCHANGED <<input>>
        /\ typing # <<>> /\ typing' \in {typing, Tail(typing)}
        /\ report' \in {report \cup {Head(typing)}, report \ {Head(typing)}}
    BY <1>3 DEF PressTyped, ReleaseTyped, PressNext, SendReport, TypeInv
  <2>2. Head(typing) \notin Mirrored /\ Tail(typing) \in Seq(Keys \ Mirrored)
    BY <1>0, <2>1, HeadTailProperties
  <2> QED
    BY <1>0, <1>1, <2>1, <2>2, MirrorKept DEF InLoop
<1>4. CASE Quit
  BY <1>0, <1>4 DEF Quit, MirrorInv, InLoop
<1>5. CASE IgnoreEvent
  <2>1. PICK e \in InputEvent \ Handled : Take(e)
    BY <1>5 DEF IgnoreEvent
  <2>2. \A b \in DOMAIN KeyOf : e \notin {Event(b, "Press"), Event(b, "Release")}
    BY <2>1 DEF Handled
  <2>3. UNCHANGED <<pc, typing, report>> /\ pc = "loop"
    BY <1>5, <2>1 DEF IgnoreEvent, keyboard, Take
  <2> QED
    BY <1>0, <2>1, <2>2, <2>3, TakeMirror DEF Labels
<1>6. ASSUME NEW b \in DOMAIN KeyOf, PressKey(b) PROVE MirrorInv'
  <2>1. /\ Take(Event(b, "Press")) /\ pc = "loop" /\ UNCHANGED <<pc, typing>>
        /\ report' = report \cup {KeyOf[b]}
    BY <1>6 DEF PressKey, SendReport, Take
  <2>2. \A c \in DOMAIN KeyOf : KeyOf[c] = KeyOf[b] => c = b
    BY MirrorsDiffer DEF TypeInv, KeyOf
  <2>3. \A c : /\ Event(b, "Press") = Event(c, "Press") <=> b = c
               /\ Event(b, "Press") # Event(c, "Release")
    BY DEF Event
  <2> QED
    BY <1>0, <2>1, <2>2, <2>3, TakeMirror DEF Labels
<1>7. ASSUME NEW b \in DOMAIN KeyOf, ReleaseKey(b) PROVE MirrorInv'
  <2>1. /\ Take(Event(b, "Release")) /\ pc = "loop" /\ UNCHANGED <<pc, typing>>
        /\ report' = report \ {KeyOf[b]}
    BY <1>7 DEF ReleaseKey, SendReport, Take
  <2>2. \A c \in DOMAIN KeyOf : KeyOf[c] = KeyOf[b] => c = b
    BY MirrorsDiffer DEF TypeInv, KeyOf
  <2>3. \A c : /\ Event(b, "Release") = Event(c, "Release") <=> b = c
               /\ Event(b, "Release") # Event(c, "Press")
    BY DEF Event
  <2> QED
    BY <1>0, <2>1, <2>2, <2>3, TakeMirror DEF Labels
<1>8. CASE ReleaseAll \/ ClearCallback \/ ResetLed \/ Disconnect \/ RemoveViewPort
  BY <1>0, <1>8 DEF ReleaseAll, ClearCallback, ResetLed, Disconnect, RemoveViewPort, Step,
     keyboard, MirrorInv, InLoop
<1>9. ASSUME UNCHANGED <<input, typing, report>>,
             InLoop' \/ pc' \in {"start", "advertise", "register"}
                => InLoop \/ pc \in {"start", "advertise", "register"}
      PROVE  MirrorInv'
  BY <1>0, <1>1, <1>9, MirrorKept
<1>10. CASE StartProfile \/ StartAdvertising \/ SetCallback
  BY <1>9, <1>10 DEF StartProfile, StartAdvertising, SetCallback, Step, keyboard
<1>11. CASE BtThread \/ HostConnects \/ HostLeaves
  BY <1>9, <1>11 DEF BtThread, MissNotice, BtStatusCallback, SetLed, HostConnects,
     HostLeaves, keyboard, InLoop
<1>12. CASE UNCHANGED vars
  BY <1>9, <1>12 DEF vars, keyboard, InLoop
<1> QED
  BY <1>0, <1>2, <1>3, <1>4, <1>5, <1>6, <1>7, <1>8, <1>10, <1>11, <1>12, OutsideMirror
     DEF Next, AppThread, HandleInput

\* Once every event is handled, the report has exactly the keys of the buttons
\* held down, whatever was pressed, typed or connected before.
THEOREM ReportMirrors == Spec => []ReportMirrorsButtons
<1>1. TypeInv /\ KeyInv /\ MirrorInv => ReportMirrorsButtons
  <2> SUFFICES ASSUME TypeInv, KeyInv, MirrorInv, pc = "loop", Underway = {}
               PROVE  report = {KeyOf[b] : b \in down \cap DOMAIN KeyOf}
    BY DEF ReportMirrorsButtons
  <2>1. Stream \in Seq(InputEvent)
    BY StreamType DEF TypeInv
  <2>2. Len(Stream) = 0
    <3>1. \A i \in 1..Len(Stream) : FALSE
      <4>1. \A i \in 1..Len(Stream) : Stream[i] \in Underway
        BY UnderwayIs DEF TypeInv
      <4> QED
        BY <4>1
    <3> QED
      BY <2>1, <3>1, LenProperties
  <2>3. ASSUME NEW b \in DOMAIN KeyOf PROVE KeyOf[b] \in report <=> b \in down
    <3>1. [i \in 1..Len(Stream) |-> ChangeOf(b)[Stream[i]]] = <<>>
      BY <2>2
    <3>2. Words(ChangeOf(b), Stream) = <<>>
      BY <3>1 DEF Words, FlattenSeq
    <3>3. Last(<<Reported(b)>> \o <<>>) = Reported(b)
      <4>1. Reported(b) \in Changes /\ <<>> \in Seq(Changes)
        BY DEF Reported, Changes
      <4> QED
        BY <4>1, LastJoined
    <3>4. Reported(b) = Pressed(b)
      BY <3>2, <3>3 DEF MirrorInv, InLoop, Account
    <3> QED
      BY <3>4 DEF Reported, Pressed
  <2>4. \A k \in report : \E b \in DOMAIN KeyOf : k = KeyOf[b]
    BY DEF KeyInv, InLoop, Tapped
  <2> QED
    BY <2>3, <2>4
<1> QED
  BY InitType, NextType, InitKeys, NextKeys, InitMirror, NextMirror, <1>1, PTL DEF Spec
=============================================================================
