----------------------------- MODULE MCHidRemote -----------------------------
(* An instance of HidRemote for TLC: Back, and OK and Up, which one remote *)
(* mirrors and which are two shortcuts of the other.                       *)
EXTENDS HidRemote

MCButtons == {"Back", "Ok", "Up"}
OnlyBack == {"Back"}
=============================================================================
