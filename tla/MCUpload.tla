------------------------------- MODULE MCUpload -------------------------------
(***************************************************************************)
(* Small files: a header, a row without columns enough and one or two rows *)
(* of data.                                                                *)
(***************************************************************************)
EXTENDS UploadRefines

CONSTANTS u1, u2, f1, f2, p1, p2

OneUpload  == {u1}
TwoUploads == {u1, u2}
TwoFiles   == {f1, f2}
TwoProviders == {p1, p2}

OwnFile  == [u \in Uploads |-> IF u = u1 THEN f1 ELSE f2]

\* Records 1 and 3 are of the one provider, 2 of the other.
ThreeRecords == 1 .. 3
ByParity == [r \in 1 .. 3 |-> IF r % 2 = 1 THEN p1 ELSE p2]

Header == [kind |-> "header", recs |-> <<>>]
Bad    == [kind |-> "bad", recs |-> <<>>]
Data(recs) == [kind |-> "data", recs |-> recs]

\* One file; its last row has two nameservers and repeats a record.
LongFile == [u \in Uploads |-> <<Header, Data(<<1>>), Bad, Data(<<2>>), Data(<<3, 1>>)>>]

\* Two short files that share the provider p1; the second has no header.
ShortFiles == [u \in Uploads |->
    IF u = u1 THEN <<Header, Bad, Data(<<1, 2, 1>>)>> ELSE <<Data(<<1>>)>>]
=============================================================================
