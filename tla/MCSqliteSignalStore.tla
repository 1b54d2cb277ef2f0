------------------------ MODULE MCSqliteSignalStore ------------------------
(* SqliteSignalStore for TLC: three keys, dependencies that form a diamond  *)
(* without its fourth corner, and one that closes a cycle.                  *)
EXTENDS SqliteSignalStore

CONSTANTS a, b, d

ThreeKeys == {a, b, d}
SomePairs == {<<a, b>>, <<b, a>>, <<a, d>>, <<b, d>>}
=============================================================================
