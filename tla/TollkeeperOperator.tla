------------------------- MODULE TollkeeperOperator -------------------------
(***************************************************************************)
(* airflow_tollkeeper/operator.py: execute(), which wraps an operator into *)
(* a session of its table, as Airflow tries it again and again; with the   *)
(* strategies (strategy.py), the engine (engine.py), the checks (DqChecks) *)
(* and both kinds of backend: one that stages versions, and               *)
(* SqlPassthroughBackend, whose version reference is the table itself.     *)
(*                                                                         *)
(* Each try has its own session; one runs at a time.  A version is the try *)
(* that wrote it, its rows, and whether they are what a copy that was cut  *)
(* short has left.  at says where execute() is:                            *)
(*   queued     Airflow is about to start a try                            *)
(*   redirect, execute, audit, check, judge, publish, push                 *)
(*              the step of execute() that comes next                      *)
(*   unwinding  an exception is on its way to the session's __exit__       *)
(*   success, failed                                                       *)
(***************************************************************************)
EXTENDS DqChecks

CONSTANTS
    Setups,     \* how the operator was constructed, see Setup
    Data,       \* what the wrapped operator may write: sequences of rows
    Nothing,    \* no version
    MaxTries    \* bound: how often Airflow starts the task

(* The arguments of the operator and what surrounds them:                  *)
(*   inPlace    the backend is SqlPassthroughBackend                       *)
(*   atomic     the backend replaces production in one step; CsvBackend    *)
(*              with its directories on two devices copies the file        *)
(*   strategy   what is registered for the wrapped operator's class:       *)
(*              nothing, PassThroughStrategy or one that redirects         *)
(*   engine, connId, known                                                 *)
(*              the engine keyword, whether a connection id was given, and *)
(*              whether Airflow knows the connection                       *)
(*   checks, mode, store                                                   *)
(*              the checks, on_failure, and whether there is a signal store*)
Setup ==
    [inPlace: BOOLEAN, atomic: BOOLEAN, strategy: {"none", "passThrough", "redirect"},
     engine: {"unset", "local", "remote"}, connId: BOOLEAN, known: BOOLEAN,
     checks: SUBSET Check, mode: {"stop", "continue", "other"}, store: BOOLEAN]

ASSUME OperatorAssumption ==
    /\ \A u \in Setups :
         /\ u.inPlace \in BOOLEAN /\ u.atomic \in BOOLEAN /\ u.store \in BOOLEAN
         /\ u.strategy \in {"none", "passThrough", "redirect"}
         /\ u.mode \in {"stop", "continue", "other"}
         /\ u.checks \subseteq Check
    /\ Data \subseteq Seq(Row)
    /\ Nothing \notin [by: Nat, rows: Data, torn: BOOLEAN]
    /\ MaxTries \in Nat

Tries == 1..MaxTries
Version == [by: 0..MaxTries, rows: Data, torn: BOOLEAN]

VARIABLES
    conf,       \* the setup
    at, try,    \* where execute() is, and in which try (0: none yet)
    prod,       \* the production table
    staged,     \* [Tries -> {Nothing} \cup Version]: what each reference names
    report,     \* the outcomes of the checks of this try
    signal,     \* the try that wrote the table's signal: {}, or {0} for one
                \* of an earlier job
    xcom,       \* tollkeeper_version_ref
    audited     \* history: the tries that have deleted the old signal

operatorVars == <<conf, at, try, prod, staged, report, signal, xcom, audited>>

Steps == {"redirect", "execute", "audit", "check", "judge", "publish", "push", "unwinding"}

OperatorTypeOK ==
    /\ conf \in Setups
    /\ at \in Steps \cup {"queued", "success", "failed"}
    /\ try \in 0..MaxTries /\ xcom \in 0..MaxTries
    /\ prod \in Version
    /\ staged \in [Tries -> {Nothing} \cup Version]
    /\ report \subseteq BOOLEAN
    /\ signal = {} \/ \E s \in 0..MaxTries : signal = {s}
    /\ audited \subseteq Tries
    /\ at \in Steps => try \in Tries

OperatorInit ==
    /\ conf \in Setups
    /\ at = "queued" /\ try = 0
    /\ prod \in [by: {0}, rows: Data, torn: {FALSE}]
    /\ staged = [t \in Tries |-> Nothing]
    /\ report = {}
    /\ signal \in {{}, {0}}
    /\ xcom = 0
    /\ audited = {}

---------------------------------------------------------------------------
\* Where the wrapped operator writes, and what the version reference names.
WritesTable == conf.inPlace \/ conf.strategy = "passThrough"
Subject == IF conf.inPlace THEN prod ELSE staged[try]

EngineResolves == IF conf.connId THEN conf.known
                  ELSE conf.engine = "local" \/ (conf.engine = "remote" /\ conf.known)

\* A try that raised: Airflow tries again, or gives the task up.
TryFails == at' \in {"queued", "failed"}
Unwind == at' = "unwinding"

Written(rows) == [by |-> try, rows |-> rows, torn |-> FALSE]
Wrote(rows) ==
    IF WritesTable
    THEN prod' = Written(rows) /\ UNCHANGED staged
    ELSE staged' = [staged EXCEPT ![try] = Written(rows)] /\ UNCHANGED prod

\* rollback_version: of SqlPassthroughBackend, only a warning.
Discarded == IF conf.inPlace THEN staged ELSE [staged EXCEPT ![try] = Nothing]
RolledBack == staged' = Discarded \/ UNCHANGED staged

---------------------------------------------------------------------------
(* The try begins: the strategy, the engine, the session.                  *)
Start ==
    /\ at = "queued" /\ try < MaxTries
    /\ conf.strategy # "none" /\ EngineResolves
    /\ at' = "redirect" /\ try' = try + 1
    /\ \E v \in (IF conf.inPlace \/ ~conf.atomic THEN {Nothing} ELSE {Nothing, prod}) :
         staged' = [staged EXCEPT ![try + 1] = v]
    /\ report' = {} /\ xcom' = 0
    /\ UNCHANGED <<conf, prod, signal, audited>>

\* TypeError, ValueError, AirflowNotFoundException, or create_version raises.
StartRaises ==
    /\ at = "queued" /\ try < MaxTries
    /\ try' = try + 1
    /\ TryFails
    /\ report' = {} /\ xcom' = 0
    /\ UNCHANGED <<conf, prod, staged, signal, audited>>

(* strategy.redirect is inside the session, but outside the try/finally.   *)
Redirect ==
    /\ at = "redirect"
    /\ at' = "execute" \/ (conf.strategy = "redirect" /\ Unwind)
    /\ UNCHANGED <<conf, try, prod, staged, report, signal, xcom, audited>>

(* The wrapped operator, with the restore after it.                        *)
Execute ==
    /\ at = "execute"
    /\ \E rows \in Data : Wrote(rows)
    /\ at' = "audit"
    /\ UNCHANGED <<conf, try, report, signal, xcom, audited>>

ExecuteRaises ==      \* it may have written, all or in part
    /\ at = "execute"
    /\ (\E rows \in Data : Wrote(rows)) \/ UNCHANGED <<prod, staged>>
    /\ Unwind
    /\ UNCHANGED <<conf, try, report, signal, xcom, audited>>

---------------------------------------------------------------------------
(* session.audit *)

AuditRejected ==
    /\ at = "audit" /\ conf.mode = "other"
    /\ Unwind
    /\ UNCHANGED <<conf, try, prod, staged, report, signal, xcom, audited>>

\* Slip: the audit leaves the old signal.
SignalKept == UNCHANGED signal /\ audited' = audited \cup {try}

SignalDeleted ==
    /\ signal' = IF conf.store THEN {} ELSE signal
    /\ audited' = audited \cup {try}

DeleteSignal ==
    /\ at = "audit" /\ conf.mode # "other"
    /\ SignalDeleted
    /\ at' = "check"
    /\ UNCHANGED <<conf, try, prod, staged, report, xcom>>

DeleteSignalRaises ==
    /\ at = "audit" /\ conf.mode # "other" /\ conf.store
    /\ SignalDeleted \/ UNCHANGED <<signal, audited>>
    /\ Unwind
    /\ UNCHANGED <<conf, try, prod, staged, report, xcom>>

RunChecks ==
    /\ at = "check" /\ (conf.checks # {} => Subject # Nothing)
    /\ report' = {Passed(c, Subject.rows) : c \in conf.checks}
    /\ at' = "judge"
    /\ UNCHANGED <<conf, try, prod, staged, signal, xcom, audited>>

CheckRaises ==        \* also if there is nothing at the reference
    /\ at = "check" /\ conf.checks # {}
    /\ Unwind
    /\ UNCHANGED <<conf, try, prod, staged, report, signal, xcom, audited>>

\* Slip: a failed audit never stops.
NeverStops == FALSE

Stops == conf.mode = "stop"

Refuse ==             \* marked as rolled back, __exit__ does nothing more
    /\ at = "judge" /\ FALSE \in report /\ Stops
    /\ RolledBack
    /\ TryFails
    /\ UNCHANGED <<conf, try, prod, report, signal, xcom, audited>>

Waive ==
    /\ at = "judge" /\ FALSE \in report /\ ~Stops
    /\ at' = "publish"
    /\ UNCHANGED <<conf, try, prod, staged, report, signal, xcom, audited>>

EmitSignal ==
    /\ at = "judge" /\ FALSE \notin report
    /\ signal' = IF conf.store THEN {try} ELSE signal
    /\ at' = "publish"
    /\ UNCHANGED <<conf, try, prod, staged, report, xcom, audited>>

EmitRaises ==
    /\ at = "judge" /\ FALSE \notin report /\ conf.store
    /\ signal' = {try} \/ UNCHANGED signal
    /\ Unwind
    /\ UNCHANGED <<conf, try, prod, staged, report, xcom, audited>>

---------------------------------------------------------------------------
(* session.publish, __exit__, xcom_push *)

Publish ==
    /\ at = "publish"
    /\ \/ conf.inPlace /\ UNCHANGED <<prod, staged>>
       \/ /\ ~conf.inPlace /\ staged[try] # Nothing
          /\ prod' = staged[try] /\ staged' = Discarded
    /\ at' = "push"
    /\ UNCHANGED <<conf, try, report, signal, xcom, audited>>

\* What a publish_version that does not return leaves: production as it was,
\* replaced, or, if it is copied, cut short anywhere.
HalfPublished ==
    \/ UNCHANGED prod
    \/ ~conf.inPlace /\ staged[try] # Nothing /\ prod' = staged[try]
    \/ /\ ~conf.inPlace /\ ~conf.atomic /\ staged[try] # Nothing
       /\ \E rows \in Data : prod' = [Written(rows) EXCEPT !.torn = TRUE]

PublishRaises ==
    /\ at = "publish" /\ ~conf.inPlace
    /\ HalfPublished
    /\ Unwind
    /\ UNCHANGED <<conf, try, staged, report, signal, xcom, audited>>

Exit ==
    /\ at = "unwinding"
    /\ RolledBack
    /\ TryFails
    /\ UNCHANGED <<conf, try, prod, report, signal, xcom, audited>>

Push ==
    /\ at = "push"
    /\ xcom' = try
    /\ at' = "success"
    /\ UNCHANGED <<conf, try, prod, staged, report, signal, audited>>

PushRaises ==
    /\ at = "push"
    /\ TryFails
    /\ UNCHANGED <<conf, try, prod, staged, report, signal, xcom, audited>>

---------------------------------------------------------------------------
(* Airflow *)

WorkerDies ==         \* no finally, no __exit__; Airflow notices
    /\ at \in Steps
    /\ IF at = "publish" THEN HalfPublished ELSE UNCHANGED prod
    /\ TryFails
    /\ UNCHANGED <<conf, try, staged, report, signal, xcom, audited>>

Clear ==              \* a user has the task run again
    /\ at \in {"success", "failed"} /\ try < MaxTries
    /\ at' = "queued"
    /\ UNCHANGED <<conf, try, prod, staged, report, signal, xcom, audited>>

OperatorNext ==
    \/ Start \/ StartRaises \/ Redirect \/ Execute \/ ExecuteRaises
    \/ AuditRejected \/ DeleteSignal \/ DeleteSignalRaises
    \/ RunChecks \/ CheckRaises
    \/ Refuse \/ Waive \/ EmitSignal \/ EmitRaises
    \/ Publish \/ PublishRaises \/ Exit \/ Push \/ PushRaises
    \/ WorkerDies \/ Clear

OperatorSpec == OperatorInit /\ [][OperatorNext]_operatorVars

---------------------------------------------------------------------------
(* Properties *)

\* The wrapped operator writes where the session looks.  register_defaults
\* gives SQL operators PassThroughStrategy whatever the backend: with one
\* that stages, their SQL writes the table and the session audits and
\* publishes something else.
Matched == conf.inPlace \/ conf.strategy = "redirect"

\* Of rows of which a condition is unknown the checks let pass what the
\* docstrings refuse: the properties are of rows that contradict a check, and
\* of rows that meet them all.
AllMeet(rows) == \A c \in conf.checks : Meets(c, rows)
NoneViolated(rows) == \A c \in conf.checks : ~Violates(c, rows)

\* A task that Airflow shows as successful has done what it says: the table
\* holds, whole, what its last try wrote; no row contradicts a check, unless
\* on_failure="continue" let it through; the signal stands if the rows meet the
\* checks, and does not if one contradicts them; through all retries, deaths,
\* clears, and errors during and after the publication.
SuccessTellsTruth ==
    at = "success" /\ Matched =>
        /\ prod.by = try /\ ~prod.torn /\ xcom = try
        /\ conf.mode = "continue" \/ NoneViolated(prod.rows)
        /\ conf.store => /\ AllMeet(prod.rows) => signal = {try}
                         /\ ~NoneViolated(prod.rows) => signal = {}

\* With a backend that stages, the table never holds rows that contradict a
\* check, unless on_failure="continue" let them through: whatever a try wrote
\* before it was refused, raised or died, and whatever a later try found at
\* its own reference, no reader of the table sees it.  Only a publication that
\* copies, and is cut short, leaves what nobody has checked.
TableWasChecked ==
    Matched /\ ~conf.inPlace =>
        \/ prod.by = 0 \/ conf.mode = "continue" \/ NoneViolated(prod.rows)
        \/ prod.torn /\ ~conf.atomic

\* A signal is of what the table holds, and that contradicts no check; but for
\* windows that retries can stretch: a try of a staging backend has signalled
\* and not published, or its copy into the table was cut short, or the SQL has
\* replaced the table in place and no audit has deleted the old signal yet (it
\* has not begun, or the store raises).
SignalMatchesTable ==
    Matched /\ conf.store =>
        \A s \in signal :
            \/ s = prod.by /\ (s = 0 \/ NoneViolated(prod.rows))
            \/ s = prod.by /\ prod.torn /\ ~conf.atomic
            \/ ~conf.inPlace /\ s > prod.by
            \/ conf.inPlace /\ s < prod.by /\ prod.by \notin audited
=============================================================================
