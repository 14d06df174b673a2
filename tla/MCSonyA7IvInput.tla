--------------------------- MODULE MCSonyA7IvInput ---------------------------
(* An instance of SonyA7IvInput for TLC: Back, Up and OK.  Presses of one  *)
(* and two commands stand for those of four and two: the app does the same *)
(* after each command but the last.                                        *)
EXTENDS SonyA7IvInput

Record(d) == [control |-> "Record", down |-> d]

MCButtons == {"Back", "Up", "Ok"}
MCPressOf == [Up |-> <<HalfDown>>, Ok |-> <<Record(TRUE), Record(FALSE)>>]
MCPresses == {MCPressOf["Up"], MCPressOf["Ok"]}
=============================================================================
