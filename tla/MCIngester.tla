------------------------------ MODULE MCIngester ------------------------------
(***************************************************************************)
(* Two records of one nameserver between two workers, a row that cannot be *)
(* read and one that has nothing to insert.  The nameserver matches two    *)
(* keywords, and the run before left rows of both providers and of another *)
(* nameserver.                                                             *)
(***************************************************************************)
EXTENDS Ingester

CONSTANTS w1, w2, n1, n2, p1, p2

TwoWorkers == {w1, w2}
TwoNameServers == {n1, n2}
TwoProviders == {p1, p2}
Ambiguous == [n \in NameServers |-> IF n = n1 THEN {p1, p2} ELSE {p2}]
SmallFile == <<n1, Bad, Blank, n1>>
LastRun == [k \in Pairs |-> IF k = <<p1, n1>> THEN 2 ELSE IF k[1] = p2 THEN 1 ELSE 0]
=============================================================================
