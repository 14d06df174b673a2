------------------------- MODULE ButtonDeliveryProofs -------------------------
(* Proofs about ButtonDelivery, for any presses that focus first.          *)
EXTENDS ButtonDelivery, TLAPS

USE PressesAssumption

TypeInv ==
    /\ todo \in Seq(Button) /\ late \subseteq Button
    /\ got \in BOOLEAN /\ relinked \in BOOLEAN
    /\ got => todo # <<>> /\ late = {}
    /\ \A c, d \in late : c = d

\* In a press that goes on, the full press follows the half-press.
Ordered == \A i \in 2..Len(todo) : todo[i] = FullDown => todo[i - 1] = HalfDown

Focusing == "ShutterHalf" \in held \/ relinked

\* When the full press is next, or late, the camera focuses, and no late command
\* can end that.
FocusInv ==
    /\ Ordered
    /\ todo # <<>> /\ Head(todo) = FullDown => Focusing /\ (late = {} \/ relinked)
    /\ todo # <<>> /\ Head(todo) = HalfDown /\ got => Focusing
    /\ FullDown \in late => Focusing

IInv == TypeInv /\ FocusInv

\* A command changes the button it names and no other.
LEMMA AfterCommand ==
    ASSUME NEW c \in Button
    PROVE  /\ "ShutterFull" \in After(c) \ held => c = FullDown
           /\ c = HalfDown => "ShutterHalf" \in After(c)
           /\ c = FullDown => ("ShutterHalf" \in After(c) <=> "ShutterHalf" \in held)
  BY DEF After, Button, Controls, FullDown, HalfDown

LEMMA Nothing == <<>> \in Seq(Button) /\ \A i \in 2..Len(<<>>) : FALSE
  OBVIOUS

LEMMA HeadTail ==
    ASSUME TypeInv, Ordered, todo # <<>>
    PROVE  /\ Head(todo) \in Button /\ Tail(todo) \in Seq(Button)
           /\ \A i \in 2..Len(Tail(todo)) :
                 Tail(todo)[i] = FullDown => Tail(todo)[i - 1] = HalfDown
           /\ Tail(todo) # <<>> /\ Head(Tail(todo)) = FullDown
              => Head(todo) = HalfDown
<1> USE DEF TypeInv, Ordered
<1>1. Head(todo) \in Button /\ Tail(todo) \in Seq(Button)
  OBVIOUS
<1>2. /\ Len(Tail(todo)) = Len(todo) - 1
      /\ \A i \in 1..Len(Tail(todo)) : Tail(todo)[i] = todo[i + 1]
  OBVIOUS
<1>3. Tail(todo) # <<>> => Len(todo) >= 2 /\ Head(Tail(todo)) = todo[2]
  BY <1>2
<1> QED
  BY <1>1, <1>2, <1>3

LEMMA Inductive == IInv /\ [Next]_vars => IInv'
<1> SUFFICES ASSUME IInv, [Next]_vars PROVE IInv'
  OBVIOUS
<1> USE DEF IInv, TypeInv, FocusInv, Focusing
<1>1. ASSUME NEW s \in Presses, Press(s) PROVE IInv'
  <2>1. todo' = s /\ s \in Seq(Button) /\ FocusFirst(s)
    BY <1>1 DEF Press
  <2>2. Ordered' /\ (todo' # <<>> => Head(todo') # FullDown)
    BY <2>1 DEF FocusFirst, Ordered
  <2> QED
    BY <1>1, <2>1, <2>2 DEF Press
<1>2. CASE Arrive
  <2>1. Head(todo) \in Button
    BY <1>2 DEF Arrive
  <2>2. TypeInv'
    BY <1>2 DEF Arrive
  <2>3. Ordered' /\ (Head(todo) = HalfDown => Focusing')
    BY <1>2, <2>1, AfterCommand DEF Arrive, Ordered
  <2>4. Head(todo) = FullDown => Focusing' /\ (late' = {} \/ relinked')
    BY <1>2, <2>1, AfterCommand DEF Arrive
  <2> QED
    BY <1>2, <2>2, <2>3, <2>4 DEF Arrive
<1>3. CASE Confirm
  BY <1>3, HeadTail DEF Confirm, Leave, Ordered
<1>4. CASE GiveUp
  <2>1. Head(todo) \in Button
    BY <1>4 DEF GiveUp
  <2>2. Ordered' /\ todo' \in Seq(Button)
    BY <1>4, Nothing DEF GiveUp, Ordered
  <2>3. \/ got /\ late' = {}
        \/ ~got /\ late' \in {late, {Head(todo)}}
    BY <1>4 DEF GiveUp, Leave
  <2>4. TypeInv'
    BY <1>4, <2>1, <2>2, <2>3 DEF GiveUp
  <2>5. FullDown \in late' => Focusing'
    BY <1>4, <2>3 DEF GiveUp
  <2> QED
    BY <1>4, <2>2, <2>4, <2>5 DEF GiveUp
<1>5. CASE ArriveLate
  <2>1. PICK c \in late : held' = After(c)
    BY <1>5 DEF ArriveLate
  <2> QED
    BY <1>5, <2>1, AfterCommand DEF ArriveLate, Ordered
<1>6. CASE LoseLate
  BY <1>6 DEF LoseLate, Ordered
<1>7. CASE Reconnect
  BY <1>7 DEF Reconnect, Ordered
<1>8. CASE UNCHANGED vars
  BY <1>8 DEF vars, Ordered
<1> QED
  BY <1>1, <1>2, <1>3, <1>4, <1>5, <1>6, <1>7, <1>8 DEF Next

\* Whoever keeps the promise of ButtonDelivery never releases the shutter
\* without focusing, for any presses that focus first.
THEOREM FocusesFirst == Spec => FocusBeforeShutter
<1>1. Init => IInv
  <2>1. Init => Ordered /\ todo \in Seq(Button)
    BY Nothing DEF Init, Ordered
  <2> QED
    BY <2>1 DEF Init, IInv, TypeInv, FocusInv, Ordered, Focusing
<1>2. IInv /\ [Next]_vars
      => ("ShutterFull" \in held' \ held => "ShutterHalf" \in held \/ relinked)
  <2> SUFFICES ASSUME IInv, [Next]_vars, "ShutterFull" \in held' \ held
               PROVE  "ShutterHalf" \in held \/ relinked
    OBVIOUS
  <2> USE DEF IInv, TypeInv, FocusInv, Focusing
  <2>1. CASE Arrive
    BY <2>1, AfterCommand, HeadTail DEF Arrive
  <2>2. CASE ArriveLate
    BY <2>2, AfterCommand DEF ArriveLate
  <2>3. CASE Reconnect
    BY <2>3 DEF Reconnect
  <2> QED
    BY <2>1, <2>2, <2>3 DEF Next, Press, Confirm, GiveUp, LoseLate, vars
<1> QED
  BY <1>1, <1>2, Inductive, PTL DEF Spec, FocusBeforeShutter
=============================================================================
