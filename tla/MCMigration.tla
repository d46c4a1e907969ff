----------------------------- MODULE MCMigration -----------------------------
EXTENDS Migration, TLC

\* Two nameservers whose names differ in a dot and a dash, and so share a table.
\* Batches of two, of one to four domains: less than one, exactly one, one with
\* the extra row of the first, and one row more, which makes a multiple; five
\* domains in all, for a last batch of metadata that is not full.
FourNameServers == {"a-b", "a.b", "c", "d"}
SharedTable == ("a-b" :> "a_b") @@ ("a.b" :> "a_b") @@ ("c" :> "c") @@ ("d" :> "d")
OneToFour == ("a-b" :> <<"d1">>) @@ ("a.b" :> <<"d1", "d2">>)
             @@ ("c" :> <<"d2", "d3", "d1">>) @@ ("d" :> <<"d4", "d5", "d3", "d1">>)
TwoProviders == {<<"P", "a-b">>, <<"P", "a.b">>, <<"Q", "c">>, <<"Q", "d">>}
==============================================================================
