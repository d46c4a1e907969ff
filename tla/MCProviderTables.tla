---------------------------- MODULE MCProviderTables ----------------------------
EXTENDS ProviderTables, TLC

\* Two nameservers share a domain, and the bars in their names make the keys of
\* the first two rows the same; one of them goes to either of two providers.
TwoNameServers == {"ns1", "ns1|x"}
RowsInOrder == <<<<"ns1", "x|d">>, <<"ns1|x", "d">>, <<"ns1", "d">>>>
ThreeRows   == {RowsInOrder[i] : i \in DOMAIN RowsInOrder}
InTheirOrder == [row \in ThreeRows |-> CHOOSE i \in DOMAIN RowsInOrder : RowsInOrder[i] = row]
JoinedByBar == [row \in ThreeRows |-> row[1] \o "|" \o row[2]]
InScanOrder == <<"A", "B">>
EitherOrB   == ("ns1" :> {"A", "B"}) @@ ("ns1|x" :> {"B"})

\* What uploads left behind: a provider that no row has any more, wrong counts.
LeftoverNS    == [p \in {"A", "B"} |->
                     [n \in TwoNameServers |-> IF n = "ns1|x" THEN 3 ELSE 0]]
LeftoverStats == [p \in {"A", "B"} |-> IF p = "B" THEN 3 ELSE 0]
=================================================================================
