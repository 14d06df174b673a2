--------------------------- MODULE MCSonyTransport ---------------------------
(* An instance of SonyTransport for TLC: two cameras in range, one handle  *)
(* that the controller reuses for every link, one button.                  *)
EXTENDS SonyTransport, TLC

CONSTANTS c1, c2, h1

MCCameras == {c1, c2}
Likewise == Permutations({c1, c2})
MCHandles == {h1}
MCButtons == {[control |-> "ShutterFull", down |-> TRUE]}
\* Recording, not recording, focused.
MCNotices == {<<2, 213, 32>>, <<2, 213, 0>>, <<2, 63, 32>>}
=============================================================================
