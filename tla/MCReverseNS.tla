------------------------------ MODULE MCReverseNS ------------------------------
(* Small nameservers: three domains, pages of one domain. *)
EXTENDS ReverseNS

CONSTANTS r1, r2

TwoReqs == {r1, r2}

Window(offset, limit) == [offset |-> offset, limit |-> limit]
SecondPage == {Window(1, 1)}
Pages      == {Window(0, 1), Window(1, 1)}

ThreeDomains == {1, 2, 3}
FirstOnly    == {1}
SecondOnly   == {2}
TwoLast      == {2, 3}
=============================================================================
