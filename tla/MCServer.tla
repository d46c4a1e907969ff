------------------------------- MODULE MCServer -------------------------------
(* Two checks at a time beside a request of the API; the circuit opens on the *)
(* second failure.                                                           *)
EXTENDS Server
CONSTANTS p1, p2, r1
TwoCallers == {p1, p2}
OneRequest == {r1}
===============================================================================
