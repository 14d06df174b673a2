----------------------------- MODULE SonyProtocol -----------------------------
(***************************************************************************)
(* The button commands and the status notifications of a Sony camera       *)
(* (sony_a7_iv_remote/sony_protocol.h, sony_protocol.c).                   *)
(***************************************************************************)
EXTENDS Naturals, Sequences

\* SonyRemoteButton: a control and its two commands.
Controls == {"ShutterHalf", "ShutterFull", "Record", "AfOn", "C1"}
Button == [control : Controls, down : BOOLEAN]

Byte == 0..255

\* The second byte of a notification names its type, the third says on or off.
StatusType == [b \in {63, 160, 213} |->
    CASE b = 63 -> "Focus" [] b = 160 -> "Shutter" [] b = 213 -> "Recording"]

\* sony_protocol_parse_status succeeds, and with what.
IsStatus(data) ==
    /\ Len(data) = 3 /\ data[1] = 2
    /\ data[2] \in DOMAIN StatusType /\ data[3] \in {0, 32}
Status(data) == [type |-> StatusType[data[2]], active |-> data[3] = 32]
=============================================================================
