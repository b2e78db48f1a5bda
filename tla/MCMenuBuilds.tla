---------------------------- MODULE MCMenuBuilds ----------------------------
(* Two requests at once, two tables of the bank and the entries.             *)
EXTENDS MenuBuilds

MCTables == <<"items", "sizes", "entries">>
=============================================================================
