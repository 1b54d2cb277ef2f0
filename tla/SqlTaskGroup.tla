---------------------------- MODULE SqlTaskGroup ----------------------------
(***************************************************************************)
(* airflow_tollkeeper: the task groups of tollkeeper_sql_task_group, one   *)
(* per table, chained through the signal store they share.                 *)
(*                                                                         *)
(*   [sensors] >> sql_operator >> [dq checks] >> signal_emitter            *)
(*                                                                         *)
(* The SQL writes the production table in place; only the signal keeps the *)
(* readers of the table from what the checks have not seen.  A DAG run     *)
(* instantiates the tasks of a group; Airflow runs a task when all tasks   *)
(* upstream of it succeeded, and retries one that raises.  All runs have   *)
(* the same execution_ctx: a reload of the partition, or the default None. *)
(* What a table holds is abstracted to the checks it violates.             *)
(***************************************************************************)
EXTENDS Integers

CONSTANTS
    Tables, Runs,
    RunsOf,      \* bound: [Tables -> SUBSET Runs], the DAG runs each group gets
    Declared,    \* [Tables -> SUBSET Tables \cup {NotGiven}]: the sources argument
    Lineage,     \* [Tables -> lineage]: what extract_lineage says of the SQL
    NotGiven,    \* None
    CheckNames,  \* every check ever attached to a table
    Checks,      \* [Tables -> SUBSET CheckNames]: dq_checks, as deployed now
    OnFailure,   \* [Tables -> {"stop", "continue"}]: the emitter's on_failure
    MaxTries,    \* bound: how often Airflow starts a task (1 + retries)
    Overlap      \* may two DAG runs of one group be active at once?

ASSUME GroupAssumption ==
    /\ RunsOf \in [Tables -> SUBSET Runs]
    /\ Declared \in [Tables -> (SUBSET Tables) \cup {NotGiven}]
    /\ Lineage \in [Tables -> [sources: SUBSET Tables, sinks: SUBSET Tables] \cup {NotGiven}]
    /\ Checks \in [Tables -> SUBSET CheckNames]
    /\ OnFailure \in [Tables -> {"stop", "continue"}]
    /\ MaxTries \in Nat \ {0} /\ Overlap \in BOOLEAN

VARIABLES
    bad,        \* [Tables -> SUBSET CheckNames]: the checks the table violates
    dq,         \* tollkeeper_dq_results: [Tables -> [CheckNames -> Results]]
    signalled,  \* the tables that have a signal
    active,     \* the <<table, run>> that Airflow has started and not ended
    ended,      \* ... and ended
    task,       \* [Tables \X Runs -> [Ids -> TaskStates]]
    tries,      \* [Tables \X Runs -> [Ids -> 0..MaxTries]]
    got,        \* what a task has read: the results an emitter or a check saw
    tainted     \* history: tables whose SQL ran over a source that was bad

storeVars == <<dq, signalled>>
dataVars == <<bad, tainted>>
airflowVars == <<active, ended, task, tries, got>>
vars == <<storeVars, dataVars, airflowVars>>

Results == {"none", "pass", "fail"}
TaskStates == {"none", "read", "success", "failed", "upstream_failed"}
Done == {"success", "failed", "upstream_failed"}
Ids == ({"wait"} \X Tables) \cup ({"dq"} \X CheckNames) \cup {<<"sql", "">>, <<"emit", "">>}
Sql == <<"sql", "">>
Emit == <<"emit", "">>

\* _resolve_sources: what was declared, else what the SQL reads; a group
\* without SQL, or with SQL that cannot be parsed, waits for nothing.  (SQL that
\* makes the parser raise anything but ValueError builds no group: no table.)
Sources(t) ==
    CASE Declared[t] # NotGiven -> Declared[t]
      [] Declared[t] = NotGiven /\ Lineage[t] # NotGiven -> Lineage[t].sources
      [] OTHER -> {}

\* The groups that could be built: a table is not among its own sources, and
\* is what its SQL writes if its sources are taken from the SQL.
Built ==
    {t \in Tables :
        /\ t \notin Sources(t)
        /\ Declared[t] = NotGiven /\ Lineage[t] # NotGiven =>
             Lineage[t].sinks = {} \/ t \in Lineage[t].sinks}

\* The tasks of a group and their dependencies, as the group wires them: the
\* emitter hangs below the checks only.
Tasks(t) == ({"wait"} \X Sources(t)) \cup ({"dq"} \X Checks[t]) \cup {Sql, Emit}

(* Slips: no sensor above the SQL; the emitter below the SQL only.         *)
Ungated(t) == {}
NoVerdicts(t) == {Sql}

Gates(t) == {"wait"} \X Sources(t)
Verdicts(t) == {"dq"} \X Checks[t]

Upstream(t, id) ==
    CASE id = Sql -> Gates(t)
      [] id = Emit -> Verdicts(t)
      [] id[1] = "dq" -> {Sql}
      [] id[1] = "wait" -> {}

Bad(t) == bad[t] \cap Checks[t] # {}
Obsolete(t) == \E c \in CheckNames \ Checks[t] : dq[t][c] = "fail"
Nothing == [c \in CheckNames |-> "none"]

TypeOK ==
    /\ bad \in [Tables -> SUBSET CheckNames]
    /\ dq \in [Tables -> [CheckNames -> Results]]
    /\ signalled \subseteq Tables
    /\ active \subseteq Tables \X Runs /\ ended \subseteq Tables \X Runs
    /\ task \in [Tables \X Runs -> [Ids -> TaskStates]]
    /\ tries \in [Tables \X Runs -> [Ids -> 0..MaxTries]]
    /\ got \in [Tables \X Runs -> [Ids -> [CheckNames -> Results]]]
    /\ tainted \subseteq Tables
    /\ \A g \in Tables \X Runs : \A id \in Ids : task[g][id] # "none" => g \in active \cup ended

\* Failed results of checks that are no longer deployed may be left in the
\* store (passed ones make no difference).
Init ==
    /\ bad \in [Tables -> {{}}]
    /\ dq \in {results \in [Tables -> [CheckNames -> {"none", "fail"}]] :
                 \A t \in Tables : \A c \in Checks[t] : results[t][c] = "none"}
    /\ signalled = {}
    /\ active = {} /\ ended = {}
    /\ task = [g \in Tables \X Runs |-> [id \in Ids |-> "none"]]
    /\ tries = [g \in Tables \X Runs |-> [id \in Ids |-> 0]]
    /\ got = [g \in Tables \X Runs |-> [id \in Ids |-> Nothing]]
    /\ tainted = {}

---------------------------------------------------------------------------
(* Airflow: DAG runs, scheduling, retries *)

BeginRun(t, r) ==
    /\ t \in Built /\ r \in RunsOf[t]
    /\ <<t, r>> \notin active \cup ended
    /\ Overlap \/ \A q \in Runs : <<t, q>> \notin active
    /\ active' = active \cup {<<t, r>>}
    /\ UNCHANGED <<storeVars, dataVars, ended, task, tries, got>>

EndRun(t, r) ==      \* its try counts are dropped
    /\ <<t, r>> \in active
    /\ \A id \in Tasks(t) : task[<<t, r>>][id] \in Done
    /\ active' = active \ {<<t, r>>}
    /\ ended' = ended \cup {<<t, r>>}
    /\ tries' = [tries EXCEPT ![<<t, r>>] = [id \in Ids |-> 0]]
    /\ UNCHANGED <<storeVars, dataVars, task, got>>

Set(t, r, id, s) == task' = [task EXCEPT ![<<t, r>>][id] = s]

Ready(t, r, id) ==
    /\ <<t, r>> \in active /\ id \in Tasks(t)
    /\ task[<<t, r>>][id] = "none"
    /\ \A u \in Upstream(t, id) : task[<<t, r>>][u] = "success"

UpstreamFailed(t, r, id) ==
    /\ <<t, r>> \in active /\ id \in Tasks(t)
    /\ task[<<t, r>>][id] = "none"
    /\ \E u \in Upstream(t, id) : task[<<t, r>>][u] \in {"failed", "upstream_failed"}
    /\ Set(t, r, id, "upstream_failed")
    /\ UNCHANGED <<storeVars, dataVars, active, ended, tries, got>>

Forgets(t, r, id) == got' = [got EXCEPT ![<<t, r>>][id] = Nothing]

\* The task raises: it is tried again from the start, or has failed.
Raises(t, r, id) ==
    /\ tries' = [tries EXCEPT ![<<t, r>>][id] = @ + 1]
    /\ Set(t, r, id, IF tries[<<t, r>>][id] + 1 < MaxTries THEN "none" ELSE "failed")
    /\ Forgets(t, r, id)
    /\ UNCHANGED <<active, ended>>

Succeeds(t, r, id) ==
    /\ Set(t, r, id, "success")
    /\ tries' = [tries EXCEPT ![<<t, r>>][id] = 0]
    /\ Forgets(t, r, id)
    /\ UNCHANGED <<active, ended>>

\* The connection, the store or the worker fails before or between the calls
\* of a task.
TaskFails(t, r, id) ==
    /\ Ready(t, r, id) \/ (<<t, r>> \in active /\ task[<<t, r>>][id] = "read")
    /\ Raises(t, r, id)
    /\ UNCHANGED <<storeVars, dataVars>>

---------------------------------------------------------------------------
(* TollkeeperSensor.poke *)
Poke(t, r, s) ==
    /\ Ready(t, r, <<"wait", s>>)
    /\ s \in signalled
    /\ Set(t, r, <<"wait", s>>, "success")
    /\ UNCHANGED <<storeVars, dataVars, active, ended, tries, got>>

(* The user's SQL. Like the writes of checks and emitter, it may be        *)
(* committed and the task still fail.                                      *)
RunSql(t, r) ==
    /\ Ready(t, r, Sql)
    /\ \E violations \in SUBSET Checks[t] : bad' = [bad EXCEPT ![t] = violations]
    /\ tainted' = IF \E s \in Sources(t) : Bad(s) THEN tainted \cup {t} ELSE tainted
    /\ Succeeds(t, r, Sql) \/ Raises(t, r, Sql)
    /\ UNCHANGED storeVars

(* TollkeeperDqOperator.execute: the query, then the result's upsert.      *)
RunCheck(t, r, c) ==
    /\ Ready(t, r, <<"dq", c>>)
    /\ got' = [got EXCEPT ![<<t, r>>][<<"dq", c>>][c] = IF c \in bad[t] THEN "fail" ELSE "pass"]
    /\ Set(t, r, <<"dq", c>>, "read")
    /\ UNCHANGED <<storeVars, dataVars, active, ended, tries>>

WriteDqResult(t, r, c) ==
    /\ <<t, r>> \in active /\ task[<<t, r>>][<<"dq", c>>] = "read"
    /\ dq' = [dq EXCEPT ![t][c] = got[<<t, r>>][<<"dq", c>>][c]]
    /\ Succeeds(t, r, <<"dq", c>>) \/ Raises(t, r, <<"dq", c>>)
    /\ UNCHANGED <<signalled, dataVars>>

(* TollkeeperSignalEmitter.execute: all results of the table, then the     *)
(* signal.                                                                 *)
GetDqResults(t, r) ==
    /\ Ready(t, r, Emit)
    /\ got' = [got EXCEPT ![<<t, r>>][Emit] = dq[t]]
    /\ Set(t, r, Emit, "read")
    /\ UNCHANGED <<storeVars, dataVars, active, ended, tries>>

Reading(t, r) == <<t, r>> \in active /\ task[<<t, r>>][Emit] = "read"
Missing(t, r) == \E c \in Checks[t] : got[<<t, r>>][Emit][c] = "none"
FailedResults(t, r) == {c \in CheckNames : got[<<t, r>>][Emit][c] = "fail"}

\* Slips: the signals are named after the checks; on_failure is looked at
\* before the results, so "continue" returns "failed" over passed ones, too.
CheckedNames(t) == Checks[t]
HandledFirst(t, r) ==
    Missing(t, r) \/ FailedResults(t, r) # {} \/ OnFailure[t] = "continue"

SignalName(t) == {t}
Handled(t, r) == Missing(t, r) \/ FailedResults(t, r) # {}

EmitSignal(t, r) ==
    /\ Reading(t, r) /\ ~Missing(t, r) /\ FailedResults(t, r) = {}
    /\ signalled' = signalled \cup SignalName(t)
    /\ Succeeds(t, r, Emit) \/ Raises(t, r, Emit)
    /\ UNCHANGED <<dq, dataVars>>

RefuseSignal(t, r) ==
    /\ Reading(t, r) /\ Handled(t, r)
    /\ IF Missing(t, r) \/ OnFailure[t] = "stop"
       THEN Raises(t, r, Emit)
       ELSE Succeeds(t, r, Emit)
    /\ UNCHANGED <<storeVars, dataVars>>

---------------------------------------------------------------------------
Work(t, r) ==
    \/ BeginRun(t, r) \/ EndRun(t, r)
    \/ \E id \in Tasks(t) : UpstreamFailed(t, r, id)
    \/ \E s \in Sources(t) : Poke(t, r, s)
    \/ RunSql(t, r)
    \/ \E c \in Checks[t] : RunCheck(t, r, c) \/ WriteDqResult(t, r, c)
    \/ GetDqResults(t, r) \/ EmitSignal(t, r) \/ RefuseSignal(t, r)

Next == \E t \in Tables, r \in Runs : Work(t, r) \/ \E id \in Tasks(t) : TaskFails(t, r, id)

Spec == Init /\ [][Next]_vars

---------------------------------------------------------------------------
(* Properties *)

\* When a signal is written, the table passes every deployed check: the SQL,
\* the checks and the emitter of a run are tried again, and runs follow runs,
\* but what the emitter read is about what the table holds
\* (docs/sql-strategy-flow.md:185).
EmissionEarned ==
    [][\A t \in Tables, r \in Runs : EmitSignal(t, r) => ~Bad(t)]_vars

\* A run all of whose tasks succeeded over a table that passes the deployed
\* checks leaves the signal its readers wait for, whatever was tried again
\* before and whichever on_failure its emitter has.  One failed result keeps
\* the signal back although nothing is wrong with the table: that of a check
\* which is not deployed any more (signal_operator.py:47 judges all results of
\* the store).
PassingRunsSignal ==
    [][\A t \in Tables, r \in Runs :
         /\ EndRun(t, r) /\ \A id \in Tasks(t) : task[<<t, r>>][id] = "success"
         /\ ~Bad(t) /\ ~Obsolete(t)
         => t \in signalled]_vars

\* No SQL ever runs over a source that violates its checks: sensor, checks
\* and emitter keep bad data from propagating down a chain of groups, where a
\* source gets one DAG run in the context (the second one finds the first
\* one's signal, see FailedChecksNoSignal).
NothingTainted == tainted = {}

\* docs/sql-strategy-flow.md:168: if checks fail, no signal is emitted and
\* tasks that depend on the table's signal never run.  Stated of tables none
\* of whose runs is active, after runs in which every check ended and stored
\* its result.
FailedChecksNoSignal ==
    \A t \in signalled :
        (\A r \in Runs : <<t, r>> \notin active
                       /\ (<<t, r>> \in ended =>
                             \A id \in Verdicts(t) : task[<<t, r>>][id] = "success"))
        => \A c \in Checks[t] : dq[t][c] # "fail"

\* ... and of what the table holds instead of what a check has stored.
NoSignalOverBadData ==
    \A t \in signalled : (\A r \in Runs : <<t, r>> \notin active) => ~Bad(t)
=============================================================================
