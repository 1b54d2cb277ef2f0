-------------------------- MODULE MCSqlTaskGroup --------------------------
(* SqlTaskGroup for TLC: a chain of two groups, the second of which gets two *)
(* runs, or one group alone.                                                 *)
EXTENDS SqlTaskGroup

CONSTANTS upstream, downstream, c1, c2, r1, r2

Chain == {upstream, downstream}
ChainRuns == [t \in Chain |-> IF t = downstream THEN {r1, r2} ELSE {r1}]
ChainDeclared == [t \in Chain |-> IF t = downstream THEN NotGiven ELSE {}]
ChainLineage == [t \in Chain |-> IF t = downstream
                                 THEN [sources |-> {upstream}, sinks |-> {downstream}]
                                 ELSE NotGiven]
ChainOnFailure == [t \in Chain |-> IF t = downstream THEN "stop" ELSE "continue"]
ChainChecks == [t \in Chain |-> {c1}]

Alone == {upstream}
AloneRuns == [t \in Alone |-> {r1, r2}]
AloneDeclared == [t \in Alone |-> {}]
AloneLineage == [t \in Alone |-> NotGiven]
AloneOnFailure == [t \in Alone |-> "stop"]
AloneChecks == [t \in Alone |-> {c1}]
=============================================================================
