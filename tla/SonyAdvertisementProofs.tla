----------------------- MODULE SonyAdvertisementProofs -----------------------
(* Proofs about SonyAdvertisement, for any bytes.                          *)
EXTENDS SonyAdvertisement, SequenceTheorems, TLAPS

\* While the fields of a report are parsed, the report is inside the event.
Inside ==
    /\ event \in Seq(Byte)
    /\ offset \in Nat \ {0} /\ field \in Nat
    /\ pc \in {"report", "field"} => Len(event) > 0
    /\ pc = "field" => offset + 10 + Size <= Len(event)

LEMMA ByteNat == \A b \in Byte : b \in Nat
BY DEF Byte

LEMMA AtByte == ASSUME event \in Seq(Byte), NEW n \in Nat PROVE At(n) \in Byte
<1>1. CASE n < Len(event)
  <2>1. n + 1 \in 1..Len(event)
    BY <1>1
  <2> QED
    BY <1>1, <2>1 DEF At
<1>2. CASE ~(n < Len(event))
  BY <1>2 DEF At, Byte
<1> QED
  BY <1>1, <1>2

LEMMA Sizes ==
    ASSUME Inside
    PROVE  Size \in Byte /\ FieldSize \in Byte
<1> USE DEF Inside
<1>1. offset + 8 \in Nat /\ offset + 9 + field \in Nat
  OBVIOUS
<1> QED
  BY <1>1, AtByte DEF Size, FieldSize, Ad

LEMMA InitInside == Init => Inside
<1>1. \A a \in Airs : a.bytes \in Seq(Byte)
  BY AdvertisementAssumption DEF Air
<1>2. Init => event \in Seq(Byte)
  BY <1>1, AdvertisementAssumption DEF Init
<1> QED
  BY <1>2 DEF Init, Inside

LEMMA NextInside == Inside /\ [Next]_vars => Inside'
<1> SUFFICES ASSUME Inside, [Next]_vars PROVE Inside'
  OBVIOUS
<1>0. Size \in Byte /\ FieldSize \in Byte
  BY Sizes
<1> USE <1>0 DEF Inside, Byte
<1>1. CASE Begin
  BY <1>1 DEF Begin
<1>2. CASE ReadReport
  BY <1>2 DEF ReadReport, ReportFits, Size, At
<1>3. CASE NoMoreReports
  BY <1>3 DEF NoMoreReports
<1>4. CASE SkipField
  <2>1. field' \in Nat
    BY <1>4 DEF SkipField
  <2>2. Size' = Size
    BY <1>4 DEF SkipField, Size, At
  <2> QED
    BY <1>4, <2>1, <2>2 DEF SkipField
<1>5. CASE NoMoreFields \/ OtherManufacturer
  <2>1. pc = "field" /\ NextReport
    BY <1>5 DEF NoMoreFields, OtherManufacturer, AtManufacturer
  <2>2. offset' \in Nat \ {0}
    BY <2>1 DEF NextReport
  <2> QED
    BY <2>1, <2>2 DEF NextReport
<1>6. CASE TakeCamera
  BY <1>6 DEF TakeCamera
<1>7. CASE UNCHANGED vars
  BY <1>7 DEF vars, Size, At
<1> QED
  BY <1>1, <1>2, <1>3, <1>4, <1>5, <1>6, <1>7 DEF Next, Done

\* What is read of a field is in the field, and so in its report.
LEMMA ManufacturerInside ==
    ASSUME Inside, AtManufacturer
    PROVE  ManufacturerReads \subseteq (offset + 9)..(offset + 8 + Size)
<1>a. Size \in Byte /\ FieldSize \in Byte
  BY Sizes
<1>0. /\ Size \in Nat /\ FieldSize \in Nat /\ FieldSize > 0
      /\ field \in Nat /\ offset \in Nat /\ field + FieldSize < Size
  BY <1>a DEF AtManufacturer, FieldFits, Byte, Inside
<1>1. DataReads \subseteq 0..(DataSize - 1)
  BY <1>0 DEF DataReads, First, Marks, DataSize
<1>2. ASSUME NEW n \in {field, field + 1} \cup {field + 2 + m : m \in DataReads}
      PROVE  n \in 0..(Size - 1)
  BY <1>0, <1>1 DEF DataSize
<1> QED
  BY <1>0, <1>2 DEF ManufacturerReads, InAd

\* No event, however malformed, makes the parser read outside of it.
THEOREM ReadsInside == Spec => NoReadOutside
<1>1. ASSUME Inside, Next, vars' # vars
      PROVE  /\ reads' \subseteq 0..(Len(event) - 1)
             /\ pc = "field" => reads' \subseteq (offset + 1)..(offset + 8 + Size)
  <2>0. Size \in Byte /\ FieldSize \in Byte
    BY <1>1, Sizes
  <2> USE <1>1, <2>0 DEF Inside, Byte
  <2>1. CASE Begin
    BY <2>1 DEF Begin
  <2>2. CASE ReadReport \/ NoMoreReports
    BY <2>2 DEF ReadReport, NoMoreReports, ReportFits, MoreReports
  <2>3. CASE SkipField
    <3>1. {field, field + 1} \subseteq 0..(Size - 1)
      BY <2>3 DEF SkipField, FieldFits
    <3> QED
      BY <2>3, <3>1 DEF SkipField, InAd
  <2>4. CASE NoMoreFields
    BY <2>4 DEF NoMoreFields, InAd
  <2>5. CASE TakeCamera
    <3>1. ManufacturerReads \subseteq (offset + 9)..(offset + 8 + Size)
      BY <2>5, ManufacturerInside DEF TakeCamera
    <3>2. pc = "field" /\ offset + 10 + Size <= Len(event)
      BY <2>5 DEF TakeCamera, AtManufacturer
    <3> QED
      BY <2>5, <3>1, <3>2 DEF TakeCamera
  <2>6. CASE OtherManufacturer
    BY <2>6, ManufacturerInside DEF OtherManufacturer, AtManufacturer
  <2> QED
    BY <2>1, <2>2, <2>3, <2>4, <2>5, <2>6 DEF Next, Done
<1>2. Inside /\ [Next]_vars => [
        /\ reads' \subseteq 0..(Len(event) - 1)
        /\ pc = "field" => reads' \subseteq (offset + 1)..(offset + 8 + Size)]_vars
  BY <1>1
<1> QED
  BY <1>2, InitInside, NextInside, PTL DEF Spec, NoReadOutside
-----------------------------------------------------------------------------
(* RecognisesCameras.  The parser goes from the start of one report to the   *)
(* start of the next, and in a report from one field to the next, and has    *)
(* met no camera, and no manufacturer data in the report, before.            *)

Current(a) == a.reports[index + 1]

AtReport(a) ==
    /\ index \in 0..Len(a.reports) /\ offset = a.starts[index + 1]
    /\ \A i \in 1..index : ~OfCamera(a.reports[i])
    /\ found = {}

AtField(a) ==
    /\ index < Len(a.reports)
    /\ \E j \in 1..(Len(Current(a).fields) + 1) :
          /\ field = Current(a).places[j]
          /\ \A k \in 1..(j - 1) : k \notin Makers(Current(a))

Cameras(a) == {i \in DOMAIN a.reports : OfCamera(a.reports[i])}
FirstFound(a) ==
    found = {[address |-> a.reports[i].address, pairing |-> a.reports[i].pairing] :
                i \in {c \in Cameras(a) : \A d \in Cameras(a) : c <= d}}

\* The types of what is on the air.
LEMMA AirTypes ==
    ASSUME NEW a \in Airs
    PROVE  /\ a.bytes \in Seq(Byte) /\ Len(a.bytes) \in Nat /\ Len(a.reports) \in Nat
           /\ a.starts[1] = 1 /\ a.bytes[1] = Len(a.reports) /\ Len(a.bytes) > 0
           /\ \A i \in 1..Len(a.reports) :
                 /\ a.starts[i] \in Nat /\ ReportAt(a.bytes, a.starts[i], a.reports[i])
                 /\ a.starts[i + 1] = a.starts[i] + 10 + Len(a.reports[i].ad)
                 /\ a.reports[i] \in Report /\ FieldsIn(a.reports[i]) /\ Truthful(a.reports[i])
<1>1. a \in Air /\ LaidOut(a) /\ \A i \in DOMAIN a.reports : Truthful(a.reports[i])
  BY AdvertisementAssumption
<1>2. a.reports \in Seq(Report) /\ a.bytes \in Seq(Byte) /\ a.starts \in Seq(Nat)
  BY <1>1 DEF Air
<1>3. \A i \in 1..Len(a.reports) : a.reports[i] \in Report
  BY <1>2
<1>4. Len(a.reports) \in Nat /\ Len(a.bytes) \in Nat /\ DOMAIN a.reports = 1..Len(a.reports)
  BY <1>2
<1>5. Len(a.starts) = Len(a.reports) + 1
  BY <1>1 DEF LaidOut
<1>6. \A i \in 1..Len(a.reports) : i \in 1..(Len(a.reports) + 1)
  BY <1>4
<1>7. \A i \in 1..Len(a.starts) : a.starts[i] \in Nat
  BY <1>2
<1>8. \A i \in 1..Len(a.reports) : a.starts[i] \in Nat
  BY <1>5, <1>6, <1>7
<1> QED
  BY <1>1, <1>2, <1>3, <1>4, <1>8 DEF LaidOut

LEMMA ReportTypes ==
    ASSUME NEW r \in Report, FieldsIn(r)
    PROVE  /\ r.ad \in Seq(Byte) /\ Len(r.ad) \in Nat
           /\ r.fields \in Seq(Field) /\ Len(r.fields) \in Nat /\ r.places[1] = 0
           /\ DOMAIN r.address = 1..6 /\ r.pairing \in BOOLEAN
           /\ r.places[Len(r.fields) + 1] \in Nat
           /\ \A j \in 1..Len(r.fields) :
                 /\ r.places[j] \in Nat /\ FieldAt(r.ad, r.places[j], r.fields[j])
                 /\ r.places[j + 1] = r.places[j] + 2 + Len(r.fields[j].data)
                 /\ r.fields[j].data \in Seq(Byte) /\ Len(r.fields[j].data) \in Nat
<1>1. /\ r.ad \in Seq(Byte) /\ r.fields \in Seq(Field) /\ r.places \in Seq(Nat)
      /\ r.address \in [1..6 -> Byte] /\ r.pairing \in BOOLEAN
  BY DEF Report
<1>2. /\ Len(r.fields) \in Nat /\ DOMAIN r.fields = 1..Len(r.fields) /\ Len(r.ad) \in Nat
      /\ DOMAIN r.address = 1..6
  BY <1>1
<1>4. \A j \in 1..Len(r.fields) : r.fields[j] \in Field
  BY <1>1
<1>5. \A j \in 1..Len(r.fields) : r.fields[j].data \in Seq(Byte)
  BY <1>4 DEF Field
<1>6. \A j \in 1..Len(r.fields) : Len(r.fields[j].data) \in Nat
  BY <1>5
<1>7. Len(r.places) = Len(r.fields) + 1
  BY DEF FieldsIn
<1>8. \A j \in 1..Len(r.places) : r.places[j] \in Nat
  BY <1>1
<1>9. \A j \in 1..(Len(r.fields) + 1) : r.places[j] \in Nat
  BY <1>7, <1>8
<1>10. Len(r.fields) + 1 \in 1..(Len(r.fields) + 1)
       /\ \A j \in 1..Len(r.fields) : j \in 1..(Len(r.fields) + 1)
  BY <1>2
<1>11. \A j \in 1..Len(r.fields) : r.places[j] \in Nat
  BY <1>9, <1>10
<1> QED
  BY <1>1, <1>2, <1>5, <1>6, <1>9, <1>10, <1>11 DEF FieldsIn

\* What is at the start of a report.
LEMMA ReportRead ==
    ASSUME NEW r \in Report, NEW ad \in Seq(Byte), ad = r.ad, event \in Seq(Byte), offset \in Nat,
           ReportAt(event, offset, r)
    PROVE  /\ Size = Len(ad) /\ offset + 10 + Size <= Len(event)
           /\ \A k \in 1..6 : At(offset + 1 + k) = r.address[k]
           /\ \A k \in Nat : k < Size => Ad(k) = ad[k + 1]
<1>0. Len(event) \in Nat /\ Len(ad) \in Nat
  OBVIOUS
<1>1. PICK n \in Nat : n = Len(ad)
  BY <1>0
<1>2. /\ offset + 10 + n <= Len(event)
      /\ \A k \in 1..6 : event[offset + 2 + k] = r.address[k]
      /\ event[offset + 9] = n
      /\ \A k \in DOMAIN ad : event[offset + 9 + k] = ad[k]
  BY <1>1, Zenon DEF ReportAt
<1>3. DOMAIN ad = 1..n
  BY <1>1
<1>4. \A k \in Nat : k < Len(event) => At(k) = event[k + 1]
  BY <1>0 DEF At
<1>5. Size = n
  <2>1. offset + 8 \in Nat /\ offset + 8 < Len(event) /\ (offset + 8) + 1 = offset + 9
    BY <1>0, <1>2
  <2>2. At(offset + 8) = event[(offset + 8) + 1]
    BY <1>4, <2>1
  <2> QED
    BY <1>2, <2>1, <2>2 DEF Size
<1>6. ASSUME NEW k \in 1..6 PROVE At(offset + 1 + k) = r.address[k]
  <2>1. offset + 1 + k \in Nat /\ offset + 1 + k < Len(event) /\ (offset + 1 + k) + 1 = offset + 2 + k
    BY <1>0, <1>2
  <2>2. At(offset + 1 + k) = event[(offset + 1 + k) + 1]
    BY <1>4, <2>1
  <2> QED
    BY <1>2, <2>1, <2>2
<1>7. ASSUME NEW k \in Nat, k < n PROVE Ad(k) = ad[k + 1]
  <2>1. /\ offset + 9 + k \in Nat /\ offset + 9 + k < Len(event)
        /\ (offset + 9 + k) + 1 = offset + 9 + (k + 1) /\ k + 1 \in 1..n
    BY <1>0, <1>2, <1>7
  <2>2. At(offset + 9 + k) = event[(offset + 9 + k) + 1]
    BY <1>4, <2>1
  <2>3. event[offset + 9 + (k + 1)] = ad[k + 1]
    BY <1>2, <1>3, <2>1
  <2> QED
    BY <2>1, <2>2, <2>3 DEF Ad
<1> QED
  BY <1>1, <1>2, <1>5, <1>6, <1>7

\* What is at the place of a field.
LEMMA FieldRead ==
    ASSUME NEW ad \in Seq(Byte), NEW f \in Field, NEW d \in Seq(Byte), d = f.data,
           Size = Len(ad), \A k \in Nat : k < Size => Ad(k) = ad[k + 1],
           field \in Nat, FieldAt(ad, field, f)
    PROVE  /\ FieldFits /\ FieldSize = 1 + Len(d) /\ DataSize = Len(d)
           /\ Ad(field + 1) = f.type
           /\ \A k \in Nat : k < Len(d) => Data(k) = d[k + 1]
<1>0. Len(d) \in Nat /\ Len(ad) \in Nat
  OBVIOUS
<1>1. PICK n \in Nat : n = Len(d)
  BY <1>0
<1>2. PICK s \in Nat : s = Len(ad)
  BY <1>0
<1>3. /\ field + 2 + n <= s /\ ad[field + 1] = 1 + n /\ ad[field + 2] = f.type
      /\ \A k \in DOMAIN d : ad[field + 2 + k] = d[k]
  BY <1>1, <1>2, Zenon DEF FieldAt
<1>4. Size = s /\ DOMAIN d = 1..n
  BY <1>1, <1>2
<1>a. field + 2 + n <= s
  BY <1>3, Zenon
<1>5. \A k \in Nat : k < s => Ad(k) = ad[k + 1]
  BY <1>4
<1>6. FieldSize = 1 + n
  <2>1. field < s
    BY <1>3
  <2> QED
    BY <1>3, <1>5, <2>1 DEF FieldSize
<1>7. Ad(field + 1) = f.type
  <2>1. field + 1 \in Nat /\ field + 1 < s /\ (field + 1) + 1 = field + 2
    BY <1>3
  <2>2. Ad(field + 1) = ad[(field + 1) + 1]
    BY <1>5, <2>1
  <2> QED
    BY <1>3, <2>1, <2>2
<1>8. FieldFits /\ DataSize = n
  BY <1>3, <1>4, <1>6 DEF FieldFits, DataSize
<1>9. ASSUME NEW k \in Nat, k < n PROVE Data(k) = d[k + 1]
  <2>1. /\ field + 2 + k \in Nat /\ field + 2 + k < s
        /\ (field + 2 + k) + 1 = field + 2 + (k + 1) /\ k + 1 \in 1..n
    BY <1>a, <1>9
  <2>2. Ad(field + 2 + k) = ad[(field + 2 + k) + 1]
    BY <1>5, <2>1
  <2>3. ad[field + 2 + (k + 1)] = d[k + 1]
    BY <1>3, <1>4, <2>1
  <2> QED
    BY <2>1, <2>2, <2>3 DEF Data
<1> QED
  BY <1>1, <1>6, <1>7, <1>8, <1>9

\* Behind the fields there is none.
LEMMA EndRead ==
    ASSUME NEW r \in Report, NEW ad \in Seq(Byte), ad = r.ad, FieldsIn(r), Size = Len(ad),
           \A k \in Nat : k < Size => Ad(k) = ad[k + 1],
           field \in Nat, field = r.places[Len(r.fields) + 1]
    PROVE  ~FieldFits
<1>0. Len(ad) \in Nat
  OBVIOUS
<1>1. PICK s \in Nat : s = Len(ad)
  BY <1>0
<1>2. field < s => ad[field + 1] = 0 \/ field + ad[field + 1] >= s
  BY <1>1, Zenon DEF FieldsIn
<1>3. ASSUME field < s PROVE FieldSize = ad[field + 1] /\ FieldSize \in Nat
  <2>1. field + 1 \in 1..s
    BY <1>3
  <2>2. FieldSize = ad[field + 1]
    BY <1>1, <1>3 DEF FieldSize
  <2>3. ad[field + 1] \in Byte
    BY <1>1, <2>1
  <2> QED
    BY <2>2, <2>3, ByteNat, Zenon
<1>4. Size = s
  BY <1>1
<1> QED
  BY <1>2, <1>3, <1>4 DEF FieldFits

\* The first manufacturer data of a report decides.
LEMMA OneFirst ==
    ASSUME NEW r, Makers(r) \subseteq Nat, NEW j \in Makers(r),
           \A k \in 1..(j - 1) : k \notin Makers(r), 0 \notin Makers(r)
    PROVE  FirstMaker(r) = {j}
<1>1. j \in Nat
  OBVIOUS
<1>2. ASSUME NEW m \in Makers(r) PROVE j <= m
  <2>1. m \in Nat /\ m # 0
    OBVIOUS
  <2>2. m \notin 1..(j - 1)
    OBVIOUS
  <2> QED
    BY <1>1, <2>1, <2>2
<1>3. ASSUME NEW n \in FirstMaker(r) PROVE n = j
  <2>1. n \in Makers(r) /\ n <= j
    BY <1>3 DEF FirstMaker
  <2>2. n \in Nat /\ j <= n
    BY <1>2, <2>1
  <2> QED
    BY <1>1, <2>1, <2>2
<1>4. j \in FirstMaker(r)
  BY <1>2 DEF FirstMaker
<1> QED
  BY <1>3, <1>4, Zenon

\* Sony's prefix, read in the event and in the data.
LEMMA SonyRead ==
    ASSUME NEW d \in Seq(Byte), DataSize = Len(d),
           \A k \in Nat : k < Len(d) => Data(k) = d[k + 1]
    PROVE  IsSony <=> Len(d) >= 4 /\ SubSeq(d, 1, 4) = Prefix
<1>1. PICK l \in Nat : l = Len(d)
  OBVIOUS
<1>2. Prefix \in Seq(Nat) /\ Len(Prefix) = 4
  BY DEF Prefix
<1>3. CASE l >= 4
  <2>1. SubSeq(d, 1, 4) \in Seq(Byte) /\ Len(SubSeq(d, 1, 4)) = 4
        /\ \A n \in 1..4 : SubSeq(d, 1, 4)[n] = d[n]
    BY <1>1, <1>3
  <2>2. SubSeq(d, 1, 4) = Prefix <=> \A n \in 1..4 : d[n] = Prefix[n]
    <3>1. ASSUME \A n \in 1..4 : d[n] = Prefix[n] PROVE SubSeq(d, 1, 4) = Prefix
      BY <1>2, <2>1, <3>1, SeqEqual
    <3> QED
      BY <2>1, <3>1
  <2>3. Data(0) = d[1] /\ Data(1) = d[2] /\ Data(2) = d[3] /\ Data(3) = d[4]
    BY <1>1, <1>3
  <2>4. (\A n \in 0..3 : Data(n) = Prefix[n + 1])
        <=> Data(0) = Prefix[1] /\ Data(1) = Prefix[2] /\ Data(2) = Prefix[3] /\ Data(3) = Prefix[4]
    <3>1. \A n \in 0..3 : n = 0 \/ n = 1 \/ n = 2 \/ n = 3
      OBVIOUS
    <3> QED
      BY <3>1
  <2>5. (\A n \in 1..4 : d[n] = Prefix[n])
        <=> d[1] = Prefix[1] /\ d[2] = Prefix[2] /\ d[3] = Prefix[3] /\ d[4] = Prefix[4]
    <3>1. \A n \in 1..4 : n = 1 \/ n = 2 \/ n = 3 \/ n = 4
      OBVIOUS
    <3> QED
      BY <3>1
  <2>6. IsSony <=> \A n \in 0..3 : Data(n) = Prefix[n + 1]
    BY <1>1, <1>3 DEF IsSony
  <2> QED
    BY <1>1, <1>3, <2>2, <2>3, <2>4, <2>5, <2>6
<1>4. CASE ~(l >= 4)
  BY <1>1, <1>4 DEF IsSony
<1> QED
  BY <1>3, <1>4

\* What the flags say.
LEMMA PairingRead ==
    ASSUME NEW d \in Seq(Byte), DataSize = Len(d),
           \A k \in Nat : k < Len(d) => Data(k) = d[k + 1]
    PROVE  Pairing <=> OffersPairing(d)
<1>1. PICK l \in Nat : l = Len(d)
  OBVIOUS
<1>2. \A k \in Nat : k < l => Data(k) = d[k + 1]
  BY <1>1
<1>3. Marks = {n \in 4..(l - 2) : d[n + 1] = 34}
  <2>1. \A n \in 4..(l - 2) : n \in Nat /\ n < l
    OBVIOUS
  <2>2. Marks = {n \in 4..(l - 2) : Data(n) = 34}
    BY <1>1 DEF Marks
  <2>3. \A n \in 4..(l - 2) : Data(n) = d[n + 1]
    BY <1>2, <2>1, Zenon
  <2> QED
    BY <2>2, <2>3, Zenon
<1>4. ASSUME NEW n \in 4..(l - 2)
      PROVE  n \in First <=> d[n + 1] = 34 /\ \A m \in 5..((n + 1) - 1) : d[m] # 34
  <2>1. ASSUME n \in First PROVE d[n + 1] = 34 /\ \A m \in 5..((n + 1) - 1) : d[m] # 34
    <3>1. n \in Marks /\ \A m \in Marks : n <= m
      BY <2>1 DEF First
    <3>2. ASSUME NEW m \in 5..((n + 1) - 1), d[m] = 34 PROVE FALSE
      <4>1. m - 1 \in 4..(l - 2) /\ (m - 1) + 1 = m /\ ~(n <= m - 1)
        OBVIOUS
      <4>2. m - 1 \in Marks
        BY <1>3, <3>2, <4>1
      <4> QED
        BY <3>1, <4>1, <4>2
    <3> QED
      BY <1>3, <3>1, <3>2
  <2>2. ASSUME d[n + 1] = 34, \A m \in 5..((n + 1) - 1) : d[m] # 34 PROVE n \in First
    <3>1. n \in Marks
      BY <1>3, <2>2
    <3>2. ASSUME NEW m \in Marks PROVE n <= m
      <4>1. m \in 4..(l - 2) /\ d[m + 1] = 34
        BY <1>3
      <4>2. m + 1 \notin 5..((n + 1) - 1)
        BY <2>2, <4>1
      <4> QED
        BY <4>1, <4>2
    <3> QED
      BY <3>1, <3>2 DEF First
  <2> QED
    BY <2>1, <2>2
<1>5. First \subseteq 4..(l - 2)
  BY <1>3 DEF First
<1>6. ASSUME NEW n \in 4..(l - 2) PROVE Data(n + 1) = d[(n + 1) + 1]
  BY <1>2
<1>7. ASSUME Pairing PROVE OffersPairing(d)
  <2>1. PICK n \in First : Bit(Data(n + 1), 64) /\ Bit(Data(n + 1), 2)
    BY <1>7 DEF Pairing
  <2>2. n \in 4..(l - 2)
    BY <1>5
  <2>3. n + 1 \in 5..(l - 1)
    BY <2>2
  <2>4. d[n + 1] = 34 /\ \A m \in 5..((n + 1) - 1) : d[m] # 34
    BY <1>4, <2>2
  <2>5. Bit(d[(n + 1) + 1], 64) /\ Bit(d[(n + 1) + 1], 2)
    BY <1>6, <2>1, <2>2, Zenon
  <2> QED
    BY <1>1, <2>3, <2>4, <2>5, Zenon DEF OffersPairing
<1>8. ASSUME OffersPairing(d) PROVE Pairing
  <2>1. PICK n \in 5..(l - 1) :
          /\ d[n] = 34 /\ \A m \in 5..(n - 1) : d[m] # 34
          /\ Bit(d[n + 1], 64) /\ Bit(d[n + 1], 2)
    BY <1>1, <1>8, Zenon DEF OffersPairing
  <2>2. n - 1 \in 4..(l - 2) /\ (n - 1) + 1 = n
    OBVIOUS
  <2>3. n - 1 \in First
    BY <1>4, <2>1, <2>2
  <2>4. Data((n - 1) + 1) = d[n + 1]
    BY <1>6, <2>2
  <2>5. Bit(Data((n - 1) + 1), 64) /\ Bit(Data((n - 1) + 1), 2)
    BY <2>1, <2>4, Zenon
  <2> QED
    BY <2>3, <2>5, Zenon DEF Pairing
<1> QED
  BY <1>7, <1>8

\* The parser reads the advertisement ad of this report.
Reading(a, r, ad) ==
    /\ r = Current(a) /\ ad = r.ad /\ FieldsIn(r) /\ Size = Len(ad)
    /\ \A k \in Nat : k < Size => Ad(k) = ad[k + 1]

\* What the parser reads of the report it is at.
LEMMA CurrentRead ==
    ASSUME NEW a \in Airs, event = a.bytes, AtReport(a), index < Len(a.reports)
    PROVE  \E r \in Report : \E ad \in Seq(Byte) :
              /\ Reading(a, r, ad) /\ Truthful(r)
              /\ index + 1 \in 1..Len(a.reports) /\ index \in Nat /\ offset \in Nat
              /\ Size = Len(ad) /\ offset + 10 + Size <= Len(event)
              /\ \A k \in 1..6 : At(offset + 1 + k) = r.address[k]
              /\ a.starts[(index + 1) + 1] = offset + 10 + Size
<1>1. Len(a.reports) \in Nat
  BY AirTypes
<1>2. PICK n \in Nat : n = Len(a.reports)
  BY <1>1
<1>3. index \in 0..n /\ offset = a.starts[index + 1] /\ index < n
  BY <1>2 DEF AtReport
<1>4. PICK i \in 1..n : i = index + 1
  BY <1>3
<1>5. PICK r \in Report : r = a.reports[i]
  BY <1>2, AirTypes
<1>6. /\ a.bytes \in Seq(Byte) /\ a.starts[i] \in Nat /\ ReportAt(a.bytes, a.starts[i], r)
      /\ a.starts[i + 1] = a.starts[i] + 10 + Len(r.ad)
      /\ FieldsIn(r) /\ Truthful(r)
  BY <1>2, <1>5, AirTypes
<1>7. PICK ad \in Seq(Byte) : ad = r.ad
  BY <1>6, ReportTypes
<1>8. event \in Seq(Byte) /\ offset \in Nat /\ ReportAt(event, offset, r)
  BY <1>3, <1>4, <1>6, Zenon
<1>9. /\ Size = Len(ad) /\ offset + 10 + Size <= Len(event)
      /\ \A k \in 1..6 : At(offset + 1 + k) = r.address[k]
      /\ \A k \in Nat : k < Size => Ad(k) = ad[k + 1]
  BY <1>7, <1>8, ReportRead, Zenon
<1>10. a.starts[(index + 1) + 1] = offset + 10 + Size
  BY <1>3, <1>4, <1>6, <1>7, <1>9, Zenon
<1>11. r = Current(a) /\ index \in Nat /\ index + 1 \in 1..Len(a.reports)
  BY <1>2, <1>3, <1>4, <1>5 DEF Current
<1>12. Reading(a, r, ad)
  BY <1>6, <1>7, <1>9, <1>11, Zenon DEF Reading
<1> QED
  BY <1>6, <1>7, <1>8, <1>9, <1>10, <1>11, <1>12, Zenon

LEMMA CountRead == ASSUME NEW a \in Airs, event = a.bytes PROVE At(0) = Len(a.reports)
<1>1. a.bytes[1] = Len(a.reports) /\ 0 < Len(a.bytes)
  BY AirTypes
<1> QED
  BY <1>1 DEF At

\* A field that fits is one of the report, and none of manufacturer data came before.
LEMMA FieldThere ==
    ASSUME NEW a \in Airs, NEW r \in Report, NEW ad \in Seq(Byte),
           Reading(a, r, ad), AtField(a), FieldFits
    PROVE  \E j \in 1..Len(r.fields) : \E d \in Seq(Byte) :
              /\ d = r.fields[j].data /\ \A k \in 1..(j - 1) : k \notin Makers(r)
              /\ field = r.places[j] /\ r.places[j + 1] = field + 2 + Len(d)
              /\ FieldSize = 1 + Len(d) /\ DataSize = Len(d)
              /\ Ad(field + 1) = r.fields[j].type
              /\ \A k \in Nat : k < Len(d) => Data(k) = d[k + 1]
<1>0. /\ r = Current(a) /\ ad = r.ad /\ FieldsIn(r) /\ Size = Len(ad)
      /\ \A k \in Nat : k < Size => Ad(k) = ad[k + 1]
  BY DEF Reading
<1>1. PICK m \in Nat : m = Len(r.fields)
  BY <1>0, ReportTypes
<1>2. PICK j \in 1..(m + 1) : field = r.places[j] /\ \A k \in 1..(j - 1) : k \notin Makers(r)
  BY <1>1, <1>0, Zenon DEF AtField
<1>3. j # m + 1
  <2>1. SUFFICES ASSUME j = m + 1 PROVE FALSE
    OBVIOUS
  <2>2. field = r.places[Len(r.fields) + 1] /\ field \in Nat
    BY <1>1, <1>2, <2>1, <1>0, ReportTypes, Zenon
  <2> QED
    BY <2>2, <1>0, EndRead, Zenon
<1>4. j \in 1..m
  BY <1>3
<1>5. /\ r.places[j] \in Nat /\ FieldAt(ad, r.places[j], r.fields[j])
      /\ r.places[j + 1] = r.places[j] + 2 + Len(r.fields[j].data)
      /\ r.fields[j].data \in Seq(Byte)
  BY <1>1, <1>4, <1>0, ReportTypes, Zenon
<1>6. PICK d \in Seq(Byte) : d = r.fields[j].data
  BY <1>5, Zenon
<1>7. PICK f \in Field : f = r.fields[j]
  <2>1. r.fields \in Seq(Field) /\ j \in 1..Len(r.fields)
    BY <1>0, <1>1, <1>4, ReportTypes
  <2> QED
    BY <2>1
<1>8. field \in Nat /\ FieldAt(ad, field, f) /\ d = f.data
  BY <1>2, <1>5, <1>6, <1>7, Zenon
<1>9. /\ FieldSize = 1 + Len(d) /\ DataSize = Len(d)
      /\ Ad(field + 1) = f.type
      /\ \A k \in Nat : k < Len(d) => Data(k) = d[k + 1]
  BY <1>0, <1>8, FieldRead, Zenon
<1>10. /\ j \in 1..Len(r.fields) /\ r.places[j + 1] = field + 2 + Len(d)
       /\ Ad(field + 1) = r.fields[j].type
  BY <1>1, <1>2, <1>4, <1>5, <1>6, <1>7, <1>9, Zenon
<1> QED
  BY <1>2, <1>6, <1>9, <1>10, Zenon

\* Where no field is left, the report has no manufacturer data.
LEMMA NoneLeft ==
    ASSUME NEW a \in Airs, NEW r \in Report, NEW ad \in Seq(Byte),
           Reading(a, r, ad), AtField(a), ~FieldFits
    PROVE  ~OfCamera(r)
<1>0. /\ r = Current(a) /\ ad = r.ad /\ FieldsIn(r) /\ Size = Len(ad)
      /\ \A k \in Nat : k < Size => Ad(k) = ad[k + 1]
  BY DEF Reading
<1>1. PICK m \in Nat : m = Len(r.fields)
  BY <1>0, ReportTypes
<1>2. PICK j \in 1..(m + 1) : field = r.places[j] /\ \A k \in 1..(j - 1) : k \notin Makers(r)
  BY <1>1, <1>0, Zenon DEF AtField
<1>3. ASSUME j \in 1..m PROVE FALSE
  <2>1. /\ r.places[j] \in Nat /\ FieldAt(ad, r.places[j], r.fields[j])
        /\ r.fields[j].data \in Seq(Byte)
    BY <1>1, <1>3, <1>0, ReportTypes, Zenon
  <2>2. PICK d \in Seq(Byte) : d = r.fields[j].data
    BY <2>1, Zenon
  <2>3. PICK f \in Field : f = r.fields[j]
    <3>1. r.fields \in Seq(Field) /\ j \in 1..Len(r.fields)
      BY <1>0, <1>1, <1>3, ReportTypes
    <3> QED
      BY <3>1
  <2>4. field \in Nat /\ FieldAt(ad, field, f) /\ d = f.data
    BY <1>2, <2>1, <2>2, <2>3, Zenon
  <2> QED
    BY <1>0, <2>4, FieldRead, Zenon
<1>4. \A k \in 1..m : k \in 1..(j - 1)
  BY <1>3
<1>5. DOMAIN r.fields = 1..m
  <2>1. r.fields \in Seq(Field)
    BY <1>0, ReportTypes
  <2> QED
    BY <1>1, <2>1
<1>6. ASSUME NEW k \in Makers(r) PROVE FALSE
  <2>1. k \in 1..m
    BY <1>5, Zenon DEF Makers
  <2> QED
    BY <1>2, <1>4, <2>1, Zenon
<1> QED
  BY <1>6, Zenon DEF OfCamera, FirstMaker

\* A field of manufacturer data that fits decides.
LEMMA Decided ==
    ASSUME NEW a \in Airs, NEW r \in Report, NEW ad \in Seq(Byte),
           Reading(a, r, ad), AtField(a), FieldFits
    PROVE  Ad(field + 1) = 255 =>
              /\ OfCamera(r) <=> IsSony
              /\ Truthful(r) /\ IsSony => r.pairing = Pairing
<1>0. /\ r = Current(a) /\ ad = r.ad /\ FieldsIn(r) /\ Size = Len(ad)
      /\ \A k \in Nat : k < Size => Ad(k) = ad[k + 1]
  BY DEF Reading
<1>1. PICK j \in 1..Len(r.fields) : \E d \in Seq(Byte) :
              /\ d = r.fields[j].data /\ \A k \in 1..(j - 1) : k \notin Makers(r)
              /\ field = r.places[j] /\ r.places[j + 1] = field + 2 + Len(d)
              /\ FieldSize = 1 + Len(d) /\ DataSize = Len(d)
              /\ Ad(field + 1) = r.fields[j].type
              /\ \A k \in Nat : k < Len(d) => Data(k) = d[k + 1]
  BY FieldThere, Zenon
<1>2. PICK d \in Seq(Byte) :
              /\ d = r.fields[j].data /\ \A k \in 1..(j - 1) : k \notin Makers(r)
              /\ DataSize = Len(d) /\ Ad(field + 1) = r.fields[j].type
              /\ \A k \in Nat : k < Len(d) => Data(k) = d[k + 1]
  BY <1>1
<1>3. Makers(r) \subseteq Nat /\ 0 \notin Makers(r) /\ DOMAIN r.fields = 1..Len(r.fields)
  <2>1. r.fields \in Seq(Field)
    BY <1>0, ReportTypes
  <2> QED
    BY <2>1 DEF Makers
<1> SUFFICES ASSUME Ad(field + 1) = 255
             PROVE  /\ OfCamera(r) <=> IsSony
                    /\ Truthful(r) /\ IsSony => r.pairing = Pairing
  OBVIOUS
<1>4. j \in Makers(r)
  BY <1>2, <1>3, Zenon DEF Makers
<1>5. FirstMaker(r) = {j}
  BY <1>2, <1>3, <1>4, OneFirst, Zenon
<1>6. IsSony <=> Len(d) >= 4 /\ SubSeq(d, 1, 4) = Prefix
  BY <1>2, SonyRead, Zenon
<1>7. OfCamera(r) <=> Len(d) >= 4 /\ SubSeq(d, 1, 4) = Prefix
  BY <1>2, <1>5, Zenon DEF OfCamera
<1>8. Pairing <=> OffersPairing(d)
  BY <1>2, PairingRead, Zenon
<1>9. ASSUME Truthful(r), IsSony PROVE r.pairing = Pairing
  <2>1. r.pairing = OffersPairing(d)
    BY <1>2, <1>5, <1>6, <1>7, <1>9, Zenon DEF Truthful
  <2>2. Pairing \in BOOLEAN /\ OffersPairing(d) \in BOOLEAN
    BY Zenon DEF Pairing, OffersPairing
  <2> QED
    BY <1>8, <2>1, <2>2, Zenon
<1> QED
  BY <1>6, <1>7, <1>9, Zenon

(* One lemma for each step of the parser.                                   *)

Parse(a) ==
    /\ a \in Airs /\ event = a.bytes
    /\ pc = "event" => index = 0 /\ offset = 1 /\ found = {}
    /\ pc \in {"report", "field"} => AtReport(a)
    /\ pc = "field" => AtField(a)
    /\ pc = "done" => FirstFound(a)

LEMMA BeginParse == ASSUME NEW a, Parse(a), Begin PROVE Parse(a)'
<1>1. a \in Airs /\ event = a.bytes /\ index = 0 /\ offset = 1 /\ found = {}
  BY DEF Parse, Begin
<1>2. Len(event) > 0 /\ Len(event) \in Nat /\ a.starts[1] = 1 /\ Len(a.reports) \in Nat
  BY <1>1, AirTypes
<1>3. pc' = "report" /\ UNCHANGED <<event, index, offset, found>>
  BY <1>2 DEF Begin
<1>4. AtReport(a)'
  <2>1. 0 \in 0..Len(a.reports) /\ 0 + 1 = 1 /\ 1..0 = {}
    BY <1>2
  <2> QED
    BY <1>1, <1>2, <1>3, <2>1, Zenon DEF AtReport
<1> QED
  BY <1>1, <1>3, <1>4 DEF Parse

LEMMA ReadReportParse == ASSUME NEW a, Parse(a), ReadReport PROVE Parse(a)'
<1>1. a \in Airs /\ event = a.bytes /\ AtReport(a)
  BY DEF Parse, ReadReport
<1>2. pc' = "field" /\ field' = 0 /\ UNCHANGED <<event, index, offset, found>>
  BY DEF ReadReport
<1>3. AtReport(a)'
  BY <1>1, <1>2, Zenon DEF AtReport
<1>4. index < Len(a.reports)
  BY <1>1, CountRead DEF ReadReport, ReportFits, MoreReports
<1>5. PICK r \in Report : r = Current(a) /\ FieldsIn(r)
  BY <1>1, <1>4, CurrentRead, Zenon DEF Reading
<1>6. r.places[1] = 0 /\ Len(r.fields) \in Nat
  BY <1>5, ReportTypes
<1>7. AtField(a)'
  <2>1. 1 \in 1..(Len(r.fields) + 1) /\ 1..(1 - 1) = {}
    BY <1>6
  <2>2. Current(a)' = r
    BY <1>2, <1>5, Zenon DEF Current
  <2> QED
    BY <1>2, <1>4, <1>6, <2>1, <2>2, Zenon DEF AtField
<1> QED
  BY <1>1, <1>2, <1>3, <1>7 DEF Parse

LEMMA NoMoreReportsParse == ASSUME NEW a, Parse(a), NoMoreReports PROVE Parse(a)'
<1>1. a \in Airs /\ event = a.bytes /\ AtReport(a)
  BY DEF Parse, NoMoreReports
<1>2. pc' = "done" /\ UNCHANGED <<event, index, offset, found>>
  BY DEF NoMoreReports
<1>3. PICK n \in Nat : n = Len(a.reports)
  BY <1>1, AirTypes
<1>4. ASSUME index < n PROVE FALSE
  <2>1. index < At(0)
    BY <1>1, <1>3, <1>4, CountRead, Zenon
  <2>2. offset \in Nat /\ Size \in Nat /\ offset + 10 + Size <= Len(event) /\ Len(event) \in Nat
    <3>1. PICK ad \in Seq(Byte) : Size = Len(ad) /\ offset \in Nat /\ offset + 10 + Size <= Len(event)
      BY <1>1, <1>3, <1>4, CurrentRead, Zenon
    <3>2. Len(event) \in Nat
      BY <1>1, AirTypes
    <3> QED
      BY <3>1, <3>2
  <2>3. ReportFits
    BY <2>1, <2>2 DEF ReportFits, MoreReports
  <2> QED
    BY <2>3 DEF NoMoreReports
<1>5. index = n
  <2>1. index \in 0..n
    BY <1>1, <1>3, Zenon DEF AtReport
  <2> QED
    BY <1>4, <2>1
<1>6. FirstFound(a)
  <2>1. DOMAIN a.reports = 1..index
    <3>1. a.reports \in Seq(Report)
      BY <1>1, AdvertisementAssumption DEF Air
    <3> QED
      BY <1>3, <1>5, <3>1
  <2>2. Cameras(a) = {} /\ found = {}
    BY <1>1, <2>1, Zenon DEF Cameras, AtReport
  <2> QED
    BY <2>2, Zenon DEF FirstFound
<1>7. FirstFound(a)'
  BY <1>2, <1>6, Zenon DEF FirstFound
<1> QED
  BY <1>1, <1>2, <1>7 DEF Parse

LEMMA SkipFieldParse ==
    ASSUME NEW a, event \in Seq(Byte), Parse(a), SkipField PROVE Parse(a)'
<1>1. a \in Airs /\ event = a.bytes /\ AtReport(a) /\ AtField(a)
  BY DEF Parse, SkipField
<1>2. /\ FieldFits /\ Ad(field + 1) # 255 /\ field' = field + FieldSize + 1
      /\ UNCHANGED <<event, pc, index, offset, found>> /\ pc = "field"
  BY DEF SkipField
<1>3. AtReport(a)'
  BY <1>1, <1>2, Zenon DEF AtReport
<1>4. index < Len(a.reports)
  BY <1>1, Zenon DEF AtField
<1>5. PICK r \in Report : \E ad \in Seq(Byte) :
        Reading(a, r, ad) /\ r = Current(a) /\ FieldsIn(r)
  BY <1>1, <1>4, CurrentRead, Zenon DEF Reading
<1>6. PICK j \in 1..Len(r.fields) : \E d \in Seq(Byte) :
              /\ d = r.fields[j].data /\ \A k \in 1..(j - 1) : k \notin Makers(r)
              /\ field = r.places[j] /\ r.places[j + 1] = field + 2 + Len(d)
              /\ FieldSize = 1 + Len(d) /\ DataSize = Len(d)
              /\ Ad(field + 1) = r.fields[j].type
              /\ \A k \in Nat : k < Len(d) => Data(k) = d[k + 1]
  BY <1>1, <1>2, <1>5, FieldThere, Zenon
<1>7. Len(r.fields) \in Nat
  BY <1>5, ReportTypes
<1>8. /\ j + 1 \in 1..(Len(r.fields) + 1)
      /\ \A k \in 1..((j + 1) - 1) : k \in 1..(j - 1) \/ k = j
  BY <1>7
<1>9. field' = r.places[j + 1]
  <2>1. r.places[j] \in Nat
    BY <1>5, ReportTypes
  <2>2. PICK l \in Nat : r.places[j + 1] = field + 2 + l /\ FieldSize = 1 + l
    <3>1. PICK d \in Seq(Byte) : r.places[j + 1] = field + 2 + Len(d) /\ FieldSize = 1 + Len(d)
      BY <1>6, Zenon
    <3>2. Len(d) \in Nat
      OBVIOUS
    <3> QED
      BY <3>1, <3>2, Zenon
  <2>3. field \in Nat
    BY <1>6, <2>1
  <2> QED
    BY <1>2, <2>2, <2>3
<1>10. j \notin Makers(r)
  BY <1>2, <1>6, Zenon DEF Makers
<1>11. \A k \in 1..((j + 1) - 1) : k \notin Makers(r)
  BY <1>6, <1>8, <1>10, Zenon
<1>12. Current(a)' = r
  BY <1>2, <1>5, Zenon DEF Current
<1>13. AtField(a)'
  BY <1>2, <1>4, <1>8, <1>9, <1>11, <1>12, Zenon DEF AtField
<1> QED
  BY <1>1, <1>2, <1>3, <1>13 DEF Parse

\* From a report that is no camera's, the parser goes on with the next.
LEMMA NextReportParse ==
    ASSUME NEW a \in Airs, event = a.bytes, AtReport(a), index < Len(a.reports),
           ~OfCamera(Current(a)), NextReport
    PROVE  Parse(a)'
<1>1. /\ index + 1 \in 1..Len(a.reports) /\ index \in Nat
      /\ a.starts[(index + 1) + 1] = offset + 10 + Size
  BY CurrentRead, Zenon
<1>2. /\ pc' = "report" /\ index' = index + 1 /\ offset' = offset + 10 + Size
      /\ UNCHANGED <<event, found>>
  BY DEF NextReport
<1>3. /\ index + 1 \in 0..Len(a.reports)
      /\ \A i \in 1..(index + 1) : i \in 1..index \/ i = index + 1
  BY <1>1
<1>4. \A i \in 1..(index + 1) : ~OfCamera(a.reports[i])
  BY <1>3, Zenon DEF AtReport, Current
<1>5. AtReport(a)'
  BY <1>1, <1>2, <1>3, <1>4, Zenon DEF AtReport
<1> QED
  BY <1>2, <1>5 DEF Parse

LEMMA NoMoreFieldsParse == ASSUME NEW a, Parse(a), NoMoreFields PROVE Parse(a)'
<1>1. a \in Airs /\ event = a.bytes /\ AtReport(a) /\ AtField(a)
  BY DEF Parse, NoMoreFields
<1>2. ~FieldFits /\ NextReport
  BY DEF NoMoreFields
<1>3. index < Len(a.reports)
  BY <1>1, Zenon DEF AtField
<1>4. ~OfCamera(Current(a))
  <2>1. PICK r \in Report : \E ad \in Seq(Byte) : Reading(a, r, ad) /\ r = Current(a)
    BY <1>1, <1>3, CurrentRead, Zenon DEF Reading
  <2> QED
    BY <1>1, <1>2, <2>1, NoneLeft, Zenon
<1> QED
  BY <1>1, <1>2, <1>3, <1>4, NextReportParse

LEMMA OtherManufacturerParse == ASSUME NEW a, Parse(a), OtherManufacturer PROVE Parse(a)'
<1>1. a \in Airs /\ event = a.bytes /\ AtReport(a) /\ AtField(a)
  BY DEF Parse, OtherManufacturer, AtManufacturer
<1>2. FieldFits /\ Ad(field + 1) = 255 /\ ~IsSony /\ NextReport
  BY DEF OtherManufacturer, AtManufacturer
<1>3. index < Len(a.reports)
  BY <1>1, Zenon DEF AtField
<1>4. ~OfCamera(Current(a))
  <2>1. PICK r \in Report : \E ad \in Seq(Byte) : Reading(a, r, ad) /\ r = Current(a)
    BY <1>1, <1>3, CurrentRead, Zenon DEF Reading
  <2> QED
    BY <1>1, <1>2, <2>1, Decided, Zenon
<1> QED
  BY <1>1, <1>2, <1>3, <1>4, NextReportParse

LEMMA TakeCameraParse == ASSUME NEW a, Parse(a), TakeCamera PROVE Parse(a)'
<1>1. a \in Airs /\ event = a.bytes /\ AtReport(a) /\ AtField(a)
  BY DEF Parse, TakeCamera, AtManufacturer
<1>a. FieldFits /\ Ad(field + 1) = 255 /\ IsSony
  BY DEF TakeCamera, AtManufacturer
<1>2. /\ found' = {[address |-> [n \in 1..6 |-> At(offset + 1 + n)], pairing |-> Pairing]}
      /\ pc' = "done" /\ event' = event
  BY DEF TakeCamera, AtManufacturer
<1>3. index < Len(a.reports)
  BY <1>1, Zenon DEF AtField
<1>4. PICK r \in Report : \E ad \in Seq(Byte) :
              /\ Reading(a, r, ad) /\ Truthful(r)
              /\ index + 1 \in 1..Len(a.reports) /\ index \in Nat /\ offset \in Nat
              /\ Size = Len(ad) /\ offset + 10 + Size <= Len(event)
              /\ \A k \in 1..6 : At(offset + 1 + k) = r.address[k]
              /\ a.starts[(index + 1) + 1] = offset + 10 + Size
  BY <1>1, <1>3, CurrentRead, Zenon
<1>5. OfCamera(r) /\ r.pairing = Pairing
  <2>1. PICK ad \in Seq(Byte) : Reading(a, r, ad) /\ Truthful(r)
    BY <1>4, Zenon
  <2>2. Ad(field + 1) = 255 =>
           /\ OfCamera(r) <=> IsSony
           /\ Truthful(r) /\ IsSony => r.pairing = Pairing
    <3>1. a \in Airs /\ AtField(a) /\ FieldFits /\ Reading(a, r, ad)
      BY <1>1, <1>a, <2>1
    <3> QED
      BY <3>1, Decided
  <2> QED
    BY <1>a, <2>1, <2>2, Zenon
<1>6. [n \in 1..6 |-> At(offset + 1 + n)] = r.address
  <2>1. r.address \in [1..6 -> Byte]
    BY DEF Report
  <2> QED
    BY <1>4, <2>1
<1>7. PICK c \in 1..Len(a.reports) : c = index + 1
  BY <1>4
<1>8. r = a.reports[c]
  BY <1>4, <1>7, Zenon DEF Current, Reading
<1>9. DOMAIN a.reports = 1..Len(a.reports) /\ Len(a.reports) \in Nat
  <2>1. a.reports \in Seq(Report)
    BY <1>1, AdvertisementAssumption DEF Air
  <2> QED
    BY <2>1
<1>10. c \in Cameras(a)
  BY <1>5, <1>8, <1>9, Zenon DEF Cameras
<1>11. ASSUME NEW d \in Cameras(a) PROVE c <= d
  <2>1. d \in 1..Len(a.reports) /\ OfCamera(a.reports[d])
    BY <1>9, Zenon DEF Cameras
  <2>2. d \notin 1..index
    BY <1>1, <2>1, Zenon DEF AtReport
  <2> QED
    BY <1>4, <1>7, <1>9, <2>1, <2>2
<1>12. ASSUME NEW i \in Cameras(a), \A d \in Cameras(a) : i <= d PROVE i = c
  <2>1. i <= c /\ c <= i
    BY <1>10, <1>11, <1>12, Zenon
  <2>2. i \in Nat /\ c \in Nat
    BY <1>9 DEF Cameras
  <2> QED
    BY <2>1, <2>2
<1>13. {i \in Cameras(a) : \A d \in Cameras(a) : i <= d} = {c}
  BY <1>10, <1>11, <1>12, Zenon
<1>14. found' = {[address |-> a.reports[c].address, pairing |-> a.reports[c].pairing]}
  BY <1>2, <1>5, <1>6, <1>8, Zenon
<1>15. FirstFound(a)'
  BY <1>13, <1>14, Zenon DEF FirstFound
<1> QED
  BY <1>1, <1>2, <1>15 DEF Parse

\* Every air that the event came from, the parser has read so far.
ParseInv == \A a \in aired : Parse(a)

LEMMA InitParse == Init => ParseInv
<1> SUFFICES ASSUME Init, NEW a \in aired PROVE Parse(a)
  BY DEF ParseInv
<1>1. a \in Airs /\ event = a.bytes
  BY DEF Init
<1> QED
  BY <1>1 DEF Init, Parse

LEMMA NextParse == Inside /\ ParseInv /\ [Next]_vars => ParseInv'
<1> SUFFICES ASSUME Inside, ParseInv, [Next]_vars PROVE ParseInv'
  OBVIOUS
<1>1. aired' = aired
  BY DEF Next, vars, Begin, ReadReport, NoMoreReports, SkipField, NoMoreFields,
         TakeCamera, OtherManufacturer, NextReport, Done
<1>2. ASSUME NEW a \in aired PROVE Parse(a)'
  <2>1. Parse(a) /\ event \in Seq(Byte)
    BY <1>2 DEF ParseInv, Inside
  <2>2. CASE UNCHANGED vars
    BY <2>1, <2>2 DEF vars, Parse, AtReport, AtField, Current, FirstFound
  <2> QED
    BY <2>1, <2>2, BeginParse, ReadReportParse, NoMoreReportsParse, SkipFieldParse,
       NoMoreFieldsParse, OtherManufacturerParse, TakeCameraParse, Zenon
       DEF Next, Done
<1> QED
  BY <1>1, <1>2, Zenon DEF ParseInv

\* The camera the transport connects to is the first one on the air, with its
\* address and its pairing mode, whatever advertisements, fields and bytes are
\* around it; where there is none, it connects to none.
THEOREM FirstCameraIsTaken == Spec => []RecognisesCameras
<1>1. ParseInv => RecognisesCameras
  BY Zenon DEF ParseInv, Parse, RecognisesCameras, FirstFound, Cameras
<1> QED
  BY <1>1, InitInside, NextInside, InitParse, NextParse, PTL DEF Spec
=============================================================================
