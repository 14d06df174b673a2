-------------------------- MODULE MCSonyA7IvRemote --------------------------
(* An instance of SonyA7IvRemote for TLC: one camera, one handle.          *)
EXTENDS SonyA7IvRemote, TLC

CONSTANTS c1, h1

MCCameras == {c1}
MCHandles == {h1}
MCButtons == {Shutter[i] : i \in 1..4} \cup {Record[i] : i \in 1..2}
BothPresses == {Shutter, Record}
RecordPress == {Record}
=============================================================================
