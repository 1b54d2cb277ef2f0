------------------------ MODULE MCDbApiSignalStore ------------------------
(* DbApiDeletes for TLC: two signals, the second of which may depend on *)
(* the first, and the three kinds of database.                              *)
EXTENDS DbApiDeletes

CONSTANTS a, b

SomePairs == {<<a, b>>}
PostgreSQL == [snapshots |-> FALSE, aborts |-> TRUE]
MySQL == [snapshots |-> TRUE, aborts |-> FALSE]
SQLite == [snapshots |-> FALSE, aborts |-> FALSE]
ThreeEngines == {PostgreSQL, MySQL, SQLite}
=============================================================================
