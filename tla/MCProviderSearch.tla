-------------------------- MODULE MCProviderSearch --------------------------
(***************************************************************************)
(* Two nameservers that share a domain.  Uploads give the second one its   *)
(* rows and its place in provider_ns, and the first one a row that its     *)
(* legacy rows hide.                                                       *)
(***************************************************************************)
EXTENDS ProviderSearch, TLC

CONSTANTS r1, r2, n1, n2, d1, d2, d3

TwoReqs == {r1, r2}
TwoNameServers == {n1, n2}
ThreeDomains == {d1, d2, d3}
OldRows == (n1 :> {d1}) @@ (n2 :> {})
NoRows  == [n \in Servers |-> {}]
OneKnown == {n1}
NewRows == {<<n1, d2>>, <<n2, d1>>, <<n2, d3>>}
TwoLimits == {1, 2}
=============================================================================
