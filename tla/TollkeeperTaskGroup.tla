------------------------ MODULE TollkeeperTaskGroup ------------------------
(***************************************************************************)
(* airflow_tollkeeper/task_group.py: tollkeeper_task_group, which puts a   *)
(* sensor for every source of the SQL above a TollkeeperOperator.          *)
(*                                                                         *)
(*   Lineage  -->  group  -->  sensors  -->  TollkeeperOperator            *)
(*                                                                         *)
(* The DAG file is parsed, the group is built or raises, and the tasks run *)
(* over the signals that other jobs write and delete meanwhile.            *)
(***************************************************************************)
EXTENDS Lineage, TollkeeperOperator

CONSTANTS
    Table,          \* the group's table
    Upstreams,      \* the stored tables that other jobs signal
    Declarations,   \* the values of the sources argument
    NotGiven        \* None

ASSUME TaskGroupAssumption ==
    /\ Table \in Names /\ Upstreams \subseteq Names \ {Table}
    /\ <<>> \in Scripts
    /\ Declarations \subseteq {NotGiven} \cup SUBSET Names

VARIABLES
    sql,        \* "parses"; "none" if there is none, it is empty, a template
                \* or no SQL (ValueError); "breaks" the parser with any other
                \* error (a TokenError, an operator whose sql is a list)
    declared,   \* the sources argument
    group,      \* "open", "built", "refused" (it raised) or "timedOut"
    waiting,    \* the sources whose sensor has not succeeded
    signalled,  \* the upstream tables that have a signal
    seen        \* history: the tables whose signal a sensor has seen

groupVars == <<sql, declared, group, waiting, signalled, seen>>
vars == <<lineageVars, operatorVars, groupVars>>

Texts == {"parses", "none", "breaks"}

TypeOK ==
    /\ LineageTypeOK /\ OperatorTypeOK
    /\ sql \in Texts /\ declared \in Declarations
    /\ group \in {"open", "built", "refused", "timedOut"}
    /\ waiting \subseteq Names \ {Table} /\ seen \subseteq Upstreams
    /\ signalled \subseteq Upstreams
    /\ try > 0 => group = "built"

Init ==
    /\ LineageInit /\ OperatorInit
    /\ sql \in Texts /\ declared \in Declarations
    /\ declared # NotGiven \/ sql # "parses" => todo = <<>>
    /\ group = "open"
    /\ waiting = {} /\ seen = {}
    /\ signalled = {}

---------------------------------------------------------------------------
(* _resolve_sources *)

Inferred == declared = NotGiven /\ sql = "parses"

Parse ==
    /\ group = "open" /\ Inferred
    /\ ParseStatement
    /\ UNCHANGED <<operatorVars, groupVars>>

Resolved ==
    CASE declared # NotGiven -> declared
      [] Inferred -> sources
      [] declared = NotGiven /\ sql # "parses" -> {}

\* Slip: a group may wait for its own table.
SinkMatches ==
    /\ declared = NotGiven => sql # "breaks"
    /\ Inferred => sinks = {} \/ Table \in sinks

Buildable ==
    /\ declared = NotGiven => sql # "breaks"
    /\ Table \notin Resolved
    /\ Inferred => sinks = {} \/ Table \in sinks

(* tollkeeper_task_group *)
Build ==
    /\ group = "open" /\ (Inferred => todo = <<>>)
    /\ IF Buildable
       THEN group' = "built" /\ waiting' = Resolved
       ELSE group' = "refused" /\ UNCHANGED waiting
    /\ UNCHANGED <<lineageVars, operatorVars, sql, declared, signalled, seen>>

---------------------------------------------------------------------------
(* TollkeeperSensor *)

Poke(n) ==
    /\ group = "built"
    /\ n \in waiting \cap signalled
    /\ waiting' = waiting \ {n} /\ seen' = seen \cup {n}
    /\ UNCHANGED <<lineageVars, operatorVars, sql, declared, group, signalled>>

SensorTimesOut ==
    /\ group = "built" /\ waiting # {}
    /\ group' = "timedOut"
    /\ UNCHANGED <<lineageVars, operatorVars, sql, declared, waiting, signalled, seen>>

\* Other jobs signal their tables, and audit them again.  What happens to the
\* signals once the operator has begun is of no more concern to the group.
Upstream ==
    /\ group = "built" /\ try = 0
    /\ \E n \in Upstreams : signalled' \in {signalled \cup {n}, signalled \ {n}}
    /\ UNCHANGED <<lineageVars, operatorVars, sql, declared, group, waiting, seen>>

(* sensor >> tk_op, for all sensors *)
\* Slip: the operator runs once one sensor has succeeded.
OneSensor == waiting = {} \/ seen # {}

SensorsDone == waiting = {}

RunOperator ==
    /\ group = "built" /\ SensorsDone
    /\ OperatorNext
    /\ UNCHANGED <<lineageVars, groupVars>>

Next ==
    \/ Parse \/ Build
    \/ \E n \in Upstreams : Poke(n)
    \/ SensorTimesOut \/ Upstream
    \/ RunOperator

Spec == Init /\ [][Next]_vars

\* Airflow parses the file, pokes, and starts what is ready.
Fairness ==
    /\ WF_vars(Parse) /\ WF_vars(Build) /\ WF_vars(RunOperator)
    /\ \A n \in Upstreams : WF_vars(Poke(n))
FairSpec == Spec /\ Fairness

---------------------------------------------------------------------------
(* Properties *)

\* The wrapped operator never starts before the signal of every table that
\* its SQL reads, or that was declared, has been seen: from the text of the
\* SQL to the sensors.  A table read under the name of a CTE is not waited
\* for, nor is anything if the SQL cannot be parsed.
GatedBySignals ==
    try > 0 => /\ declared # NotGiven => declared \subseteq seen
               /\ Inferred => needed \subseteq seen

\* A group that could be built does start, once the upstream tables stay
\* signalled and if what it reads or declares are such tables: no sensor
\* waits for what is no table (a CTE, a table that the script itself makes),
\* unless the SQL refers to a CTE in another case or changes a table that has
\* no signal.
OverUpstreams ==
    /\ needed \cup stray \subseteq Upstreams
    /\ declared # NotGiven => declared \subseteq Upstreams

GroupStarts ==
    <>[](Upstreams \subseteq signalled) =>
        ((group = "built" /\ OverUpstreams) ~> (try > 0 \/ group = "timedOut"))
=============================================================================
