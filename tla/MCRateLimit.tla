----------------------------- MODULE MCRateLimit -----------------------------
(* Three requests for the API and one for /health/live, of one or two addresses. *)
EXTENDS RateLimit, TLC

CONSTANTS r1, r2, r3, r4, l1, l2, l3, l4, a, b

FourReqs == {r1, r2, r3, r4}
ButLive == {r1, r2, r3}
OneIP == {a}
TwoIPs == {a, b}
SameIP == [r \in Reqs |-> a]
OtherIP == [r \in Reqs |-> IF r = r3 THEN b ELSE a]
ThreeLimiters == {l1, l2, l3}
FourLimiters == {l1, l2, l3, l4}
Symmetry == Permutations(Limiters)
=============================================================================
