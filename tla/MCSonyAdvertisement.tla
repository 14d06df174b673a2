------------------------- MODULE MCSonyAdvertisement -------------------------
(* An instance of SonyAdvertisement for TLC: events of none to two reports *)
(* with none to two fields each, and what can become of such events.       *)
EXTENDS SonyAdvertisement, SequencesExt

AField(t, d) == [type |-> t, data |-> d]

\* Fields with Sony's prefix and what may follow it, pairing or not.
Asking == {AField(255, Prefix \o d) :
              d \in {<<34, 66>>, <<49, 0, 34, 239, 33>>, <<34, 66, 34, 0>>}}
Silent == {AField(255, Prefix \o d) :
              d \in {<<>>, <<34>>, <<34, 64>>, <<34, 0, 34, 66>>}}
\* Flags, an empty field of each kind, other makers.
Others == {AField(1, <<6>>), AField(9, <<>>), AField(255, <<>>), AField(255, <<45, 1, 3>>),
           AField(255, <<76, 0, 45, 1, 3, 0>>), AField(1, Prefix \o <<34, 66>>)}

Bytes(f) == <<1 + Len(f.data), f.type>> \o f.data

\* Where each of a sequence of sequences begins in their concatenation, and where
\* that ends.
Begins(s) == [i \in 1..(Len(s) + 1) |-> Len(FlattenSeq(SubSeq(s, 1, i - 1)))]

AReport(n, fields, padding) ==
    LET parts == [i \in DOMAIN fields |-> Bytes(fields[i])]
    IN [address |-> <<n, 7, 7, 7, 7, 7>>,
        pairing |-> \E i \in DOMAIN fields :
                       /\ fields[i] \in Asking
                       /\ \A j \in 1..(i - 1) : fields[j].type # 255,
        fields |-> fields,
        places |-> Begins(parts),
        ad |-> FlattenSeq(parts) \o padding]

Lists(S) == {<<>>} \cup {<<f>> : f \in S} \cup {<<f, g>> : f, g \in S}
Reports(n) ==
    {AReport(n, l, p) : l \in Lists(Asking \cup Silent \cup Others), p \in {<<>>, <<0>>}}
\* After a field of size 0 nothing counts.
Early(n) == {AReport(n, <<>>, <<0>> \o Bytes(f)) : f \in Asking}
Few(n) == {AReport(n, l, <<>>) : l \in Lists({AField(255, Prefix), AField(1, <<6>>)})}

AnAir(reports) ==
    LET parts == [i \in DOMAIN reports |->
                     <<0, 1>> \o reports[i].address \o <<Len(reports[i].ad)>>
                              \o reports[i].ad \o <<200>>]
    IN [reports |-> reports,
        starts |-> [i \in 1..(Len(reports) + 1) |-> 1 + Begins(parts)[i]],
        bytes |-> <<Len(reports)>> \o FlattenSeq(parts)]

MCAirs ==
    {AnAir(<<>>)}
    \cup {AnAir(<<r>>) : r \in Reports(1) \cup Early(1)}
    \cup {AnAir(<<r, s>>) : r \in Reports(1) \cup Early(1), s \in Few(2)}

\* Truncated at any byte, or with any byte replaced.
Clean == {AnAir(<<r, s>>).bytes : r \in {AReport(1, l, <<>>) :
              l \in Lists({AField(1, <<6>>), AField(255, Prefix \o <<34, 66>>),
                           AField(255, Prefix \o <<34>>)})}, s \in Few(2)}
MCGarbled ==
    UNION {{SubSeq(e, 1, n) : n \in 0..(Len(e) - 1)} : e \in Clean}
    \cup UNION {{[e EXCEPT ![n] = b] : n \in 1..Len(e), b \in {0, 2, 7, 34, 255}}
                : e \in Clean}
=============================================================================
