--------------------------- MODULE SonyAdvertisement ---------------------------
(***************************************************************************)
(* How the Sony transport finds a camera in an advertising event           *)
(* (sony_transport_handle_advertising_report, which calls                  *)
(* sony_protocol_is_camera_advertisement for every report of the event).   *)
(* The sizes and counts it adds to its offsets come from the air.  Offsets *)
(* start at 0, as in the code, and fit a size_t: an event has 255 bytes at *)
(* most.                                                                   *)
(***************************************************************************)
EXTENDS SonyProtocol

CONSTANTS
    Airs,       \* what may be on the air: reports, and the bytes of their event
    Garbled     \* events that are no such thing

-----------------------------------------------------------------------------
(* What is on the air: an event is a count and its reports, a report is an *)
(* address and the size and bytes of an advertisement, an advertisement is *)
(* fields of a size, a type and data.  The record of an air says where in  *)
(* the event its reports start, that of a report where its fields are.     *)

Field == [type : Byte, data : Seq(Byte)]
Report == [address : [1..6 -> Byte], pairing : BOOLEAN, fields : Seq(Field),
           places : Seq(Nat), ad : Seq(Byte)]
Air == [reports : Seq(Report), starts : Seq(Nat), bytes : Seq(Byte)]

\* After Sony's prefix the first byte 0x22 that another byte follows marks the
\* flags, of which two are set while the camera is to be paired with.
Prefix == <<45, 1, 3, 0>>
Bit(byte, value) == (byte \div value) % 2 = 1
OffersPairing(data) ==
    \E n \in 5..(Len(data) - 1) :
        /\ data[n] = 34 /\ \A m \in 5..(n - 1) : data[m] # 34
        /\ Bit(data[n + 1], 64) /\ Bit(data[n + 1], 2)

Makers(r) == {n \in DOMAIN r.fields : r.fields[n].type = 255}
FirstMaker(r) == {n \in Makers(r) : \A m \in Makers(r) : n <= m}

\* A report is a camera's if the first manufacturer data in it is Sony's.
OfCamera(r) ==
    \E n \in FirstMaker(r) :
        Len(r.fields[n].data) >= 4 /\ SubSeq(r.fields[n].data, 1, 4) = Prefix

FieldAt(ad, p, f) ==
    /\ p + 2 + Len(f.data) <= Len(ad)
    /\ ad[p + 1] = 1 + Len(f.data) /\ ad[p + 2] = f.type
    /\ \A k \in DOMAIN f.data : ad[p + 2 + k] = f.data[k]

\* The fields follow each other; behind the last one there is no other.
FieldsIn(r) ==
    LET end == r.places[Len(r.fields) + 1]
    IN  /\ Len(r.places) = Len(r.fields) + 1 /\ r.places[1] = 0
        /\ \A j \in DOMAIN r.fields :
              /\ FieldAt(r.ad, r.places[j], r.fields[j])
              /\ r.places[j + 1] = r.places[j] + 2 + Len(r.fields[j].data)
        /\ end < Len(r.ad) => r.ad[end + 1] = 0 \/ end + r.ad[end + 1] >= Len(r.ad)

ReportAt(bytes, p, r) ==
    /\ p + 10 + Len(r.ad) <= Len(bytes)
    /\ \A k \in 1..6 : bytes[p + 2 + k] = r.address[k]
    /\ bytes[p + 9] = Len(r.ad)
    /\ \A k \in DOMAIN r.ad : bytes[p + 9 + k] = r.ad[k]

LaidOut(a) ==
    /\ Len(a.bytes) > 0 /\ a.bytes[1] = Len(a.reports)
    /\ Len(a.starts) = Len(a.reports) + 1 /\ a.starts[1] = 1
    /\ \A i \in DOMAIN a.reports :
          /\ ReportAt(a.bytes, a.starts[i], a.reports[i])
          /\ a.starts[i + 1] = a.starts[i] + 10 + Len(a.reports[i].ad)
          /\ FieldsIn(a.reports[i])

\* A camera is said to offer pairing when it does.
Truthful(r) ==
    OfCamera(r) => \A n \in FirstMaker(r) : r.pairing = OffersPairing(r.fields[n].data)

ASSUME AdvertisementAssumption ==
    /\ Garbled \subseteq Seq(Byte)
    /\ \A a \in Airs : a \in Air /\ LaidOut(a) /\ \A i \in DOMAIN a.reports : Truthful(a.reports[i])
-----------------------------------------------------------------------------

VARIABLES
    event,      \* meta->data, of packet->plen - 1 bytes
    aired,      \* history: what was on the air, if it came from there
    pc,         \* which loop the parser is in
    index,      \* report_index
    offset,     \* of the report in the event
    field,      \* offset of the AD field in the advertisement
    found,      \* the camera the transport connects to: none or one
    reads       \* the offsets of the event read in the last step

vars == <<event, aired, pc, index, offset, field, found, reads>>

Init ==
    /\ \/ \E a \in Airs : event = a.bytes /\ aired = {a}
       \/ event \in Garbled /\ aired = {}
    /\ pc = "event" /\ index = 0 /\ offset = 1 /\ field = 0
    /\ found = {} /\ reads = {}

\* A read outside the event would return anything.
At(n) == IF n < Len(event) THEN event[n + 1] ELSE 0
-----------------------------------------------------------------------------
(* The loop over the reports.                                              *)

Begin ==
    /\ pc = "event"
    /\ pc' = IF Len(event) < 1 THEN "done" ELSE "report"
    /\ reads' = IF Len(event) < 1 THEN {} ELSE {0}
    /\ UNCHANGED <<event, aired, index, offset, field, found>>

Size == At(offset + 8)                  \* advertisement_size
Ad(n) == At(offset + 9 + n)             \* advertisement[n]

MoreReports == index < At(0) /\ offset + 10 <= Len(event)

\* Mutant: the size of the advertisement is not checked.
ReportHasHeader == MoreReports

\* The record and the advertisement it announces are inside the event.
ReportFits == MoreReports /\ offset + 10 + Size <= Len(event)

ReadReport ==
    /\ pc = "report" /\ ReportFits
    /\ pc' = "field" /\ field' = 0
    /\ reads' = {offset + 1, offset + 8}
    /\ UNCHANGED <<event, aired, index, offset, found>>

NoMoreReports ==
    /\ pc = "report" /\ ~ReportFits
    /\ pc' = "done"
    /\ reads' = IF MoreReports THEN {offset + 1, offset + 8} ELSE {}
    /\ UNCHANGED <<event, aired, index, offset, field, found>>

NextReport ==
    /\ pc' = "report"
    /\ index' = index + 1 /\ offset' = offset + 10 + Size
    /\ UNCHANGED <<event, aired, field, found>>

(* The loop over the fields of an advertisement.                           *)

\* The offsets in the event of these offsets in the advertisement.
InAd(S) == {offset + 9 + n : n \in S}

FieldSize == Ad(field)                  \* field_size
FieldFits == field < Size /\ FieldSize # 0 /\ field + FieldSize < Size

\* Mutant: the size byte of the field is not counted.
SkipFieldData ==
    /\ pc = "field" /\ FieldFits /\ Ad(field + 1) # 255
    /\ field' = field + FieldSize
    /\ reads' = InAd({field, field + 1})
    /\ UNCHANGED <<event, aired, pc, index, offset, found>>

SkipField ==
    /\ pc = "field" /\ FieldFits /\ Ad(field + 1) # 255
    /\ field' = field + FieldSize + 1
    /\ reads' = InAd({field, field + 1})
    /\ UNCHANGED <<event, aired, pc, index, offset, found>>

NoMoreFields ==
    /\ pc = "field" /\ ~FieldFits
    /\ reads' = InAd({field} \cap 0..(Size - 1))
    /\ NextReport

(* The first field of manufacturer data decides.                           *)

DataSize == FieldSize - 1
Data(n) == Ad(field + 2 + n)
IsSony == DataSize >= 4 /\ \A n \in 0..3 : Data(n) = Prefix[n + 1]

\* After the prefix the first byte 0x22 that another byte follows marks flags.
Marks == {n \in 4..(DataSize - 2) : Data(n) = 34}
First == {n \in Marks : \A m \in Marks : n <= m}
Pairing == \E n \in First : Bit(Data(n + 1), 64) /\ Bit(Data(n + 1), 2)

DataReads ==
    IF DataSize < 4 THEN {}
    ELSE 0..3 \cup
         IF IsSony THEN {n \in 4..(DataSize - 2) : \A m \in Marks : n <= m}
                        \cup {n + 1 : n \in First}
                   ELSE {}
ManufacturerReads == InAd({field, field + 1} \cup {field + 2 + n : n \in DataReads})

AtManufacturer == pc = "field" /\ FieldFits /\ Ad(field + 1) = 255

TakeCamera ==
    /\ AtManufacturer /\ IsSony
    /\ found' = {[address |-> [n \in 1..6 |-> At(offset + 1 + n)],
                  pairing |-> Pairing]}
    /\ pc' = "done"
    /\ reads' = ManufacturerReads \cup (offset + 1)..(offset + 7)
    /\ UNCHANGED <<event, aired, index, offset, field>>

OtherManufacturer ==
    /\ AtManufacturer /\ ~IsSony
    /\ reads' = ManufacturerReads
    /\ NextReport

Done == pc = "done" /\ UNCHANGED vars

Next ==
    \/ Begin \/ ReadReport \/ NoMoreReports
    \/ SkipField \/ NoMoreFields \/ TakeCamera \/ OtherManufacturer
    \/ Done

Spec == Init /\ [][Next]_vars
-----------------------------------------------------------------------------
\* "malformed reports must never allow an out-of-bounds read" (the comment in
\* the loop): whatever counts and sizes an event announces, no read is outside
\* of it, and none of a field outside of the report it is in.
NoReadOutside ==
    [][ /\ reads' \subseteq 0..(Len(event) - 1)
        /\ pc = "field" => reads' \subseteq (offset + 1)..(offset + 8 + Size) ]_vars

\* From a well-formed event the first camera in it is taken, wherever it is and
\* whatever is around it, with its own address and pairing mode; and if there is
\* none, nothing is.
RecognisesCameras ==
    pc = "done" => \A a \in aired :
        LET cameras == {i \in DOMAIN a.reports : OfCamera(a.reports[i])}
        IN found = {[address |-> a.reports[i].address, pairing |-> a.reports[i].pairing] :
                       i \in {c \in cameras : \A d \in cameras : c <= d}}
=============================================================================
