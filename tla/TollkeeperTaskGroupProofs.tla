---------------------- MODULE TollkeeperTaskGroupProofs ----------------------
(* Safety of the wrapping task group: of its checks, its parser, its operator *)
(* and all together, for all scripts, setups, tables and numbers of tries.    *)
EXTENDS TollkeeperTaskGroup, FiniteSetTheorems, TLAPS

---------------------------------------------------------------------------
(* The checks *)

\* The rows of a table, and any part of them, can be counted (DataFrame.height).
LEMMA RowsFinite ==
    ASSUME NEW rows \in Seq(Row), NEW S \in SUBSET DOMAIN rows
    PROVE  IsFiniteSet(DOMAIN rows) /\ IsFiniteSet(S)
<1>1. DOMAIN rows = 1..Len(rows) /\ Len(rows) \in Int
    OBVIOUS
<1>2. IsFiniteSet(DOMAIN rows)
    BY <1>1, FS_Interval
<1> QED
    BY <1>2, FS_Subset

\* No part of the table is counted as zero unless it is empty (NullCheck,
\* ExpressionCheck, SqlCheck: violations == 0).
LEMMA NoneCounted ==
    ASSUME NEW rows \in Seq(Row), NEW S \in SUBSET DOMAIN rows
    PROVE  Cardinality(S) = 0 <=> S = {}
<1>1. IsFiniteSet(S)
    BY RowsFinite
<1> QED
    BY <1>1, FS_EmptySet

\* No group has more than one row exactly if no two rows agree on the columns
\* (UniqueCheck: group_by, len, filter).
LEMMA DuplicatesArePairs ==
    ASSUME NEW rows \in Seq(Row), NEW columns \in SUBSET Columns
    PROVE  Cardinality(Duplicates(rows, columns)) = 0 <=>
             \A i, j \in DOMAIN rows : i # j => \E c \in columns : rows[i][c] # rows[j][c]
<1>1. \A i, j \in DOMAIN rows :
        j \in Members(rows, columns, i) <=> \A c \in columns : rows[i][c] = rows[j][c]
  BY DEF Members, KeyOf
<1>2. \A i \in DOMAIN rows :
        /\ Members(rows, columns, i) \in SUBSET DOMAIN rows
        /\ i \in Members(rows, columns, i)
        /\ IsFiniteSet(Members(rows, columns, i))
        /\ Cardinality(Members(rows, columns, i)) \in Nat
  <2>1. SUFFICES ASSUME NEW i \in DOMAIN rows
                 PROVE  /\ Members(rows, columns, i) \in SUBSET DOMAIN rows
                        /\ i \in Members(rows, columns, i)
                        /\ IsFiniteSet(Members(rows, columns, i))
                        /\ Cardinality(Members(rows, columns, i)) \in Nat
    OBVIOUS
  <2>2. Members(rows, columns, i) \in SUBSET DOMAIN rows /\ i \in Members(rows, columns, i)
    BY DEF Members
  <2>3. IsFiniteSet(Members(rows, columns, i))
    BY <2>2, RowsFinite
  <2> QED
    BY <2>2, <2>3, FS_CardinalityType
<1>3. \A i \in DOMAIN rows :
        Cardinality(Members(rows, columns, i)) > 1 <=>
          \E j \in Members(rows, columns, i) : j # i
  <2>1. SUFFICES ASSUME NEW i \in DOMAIN rows
                 PROVE  Cardinality(Members(rows, columns, i)) > 1 <=>
                          \E j \in Members(rows, columns, i) : j # i
    OBVIOUS
  <2> DEFINE M == Members(rows, columns, i)
  <2>2. i \in M /\ IsFiniteSet(M) /\ Cardinality(M) \in Nat
    BY <1>2
  <2>3. Cardinality(M) # 0
    BY <2>2, FS_EmptySet
  <2>4. Cardinality(M) = 1 <=> \E x : M = {x}
    BY <2>2, FS_Singleton
  <2>5. ASSUME NEW x, M = {x} PROVE ~ \E j \in M : j # i
    BY <2>2, <2>5
  <2>6. ASSUME ~ \E j \in M : j # i PROVE M = {i}
    BY <2>2, <2>6
  <2>7. Cardinality(M) = 1 <=> ~ \E j \in M : j # i
    BY <2>4, <2>5, <2>6
  <2>8. Cardinality(M) > 1 <=> Cardinality(M) # 1
    BY <2>2, <2>3
  <2> QED
    BY <2>7, <2>8
<1>4. Cardinality(Duplicates(rows, columns)) = 0 <=> Duplicates(rows, columns) = {}
  <2>1. IsFiniteSet(SUBSET DOMAIN rows)
    BY RowsFinite, FS_SUBSET
  <2>2. Duplicates(rows, columns) \in SUBSET SUBSET DOMAIN rows
    BY <1>2 DEF Duplicates, Groups
  <2>3. IsFiniteSet(Duplicates(rows, columns))
    BY <2>1, <2>2, FS_Subset
  <2> QED
    BY <2>3, FS_EmptySet
<1>5. Duplicates(rows, columns) = {} <=>
        \A i \in DOMAIN rows : ~ (Cardinality(Members(rows, columns, i)) > 1)
  BY DEF Duplicates, Groups
<1> QED
  BY <1>1, <1>2, <1>3, <1>4, <1>5

\* A check answers yes or no (CheckResult.passed).
LEMMA ChecksAnswer ==
    ASSUME NEW check \in Check, NEW rows \in Seq(Row)
    PROVE  Passed(check, rows) \in BOOLEAN
<1>1. check.kind \in {"null", "count", "condition", "unique"}
  BY DEF Check
<1>2. check.kind = "count" => check.min \in Nat /\ Len(rows) \in Nat
  BY DEF Check
<1>3. CASE check.kind = "count"
  BY <1>2, <1>3 DEF Passed
<1>4. CASE check.kind = "null"
  BY <1>4 DEF Passed
<1>5. CASE check.kind = "condition"
  BY <1>5 DEF Passed
<1>6. CASE check.kind = "unique"
  BY <1>6 DEF Passed
<1> QED
  BY <1>1, <1>3, <1>4, <1>5, <1>6

\* Rows that meet a check do not contradict it; rows of which no condition is
\* unknown do the one or the other.
LEMMA MeetOrViolate ==
    ASSUME NEW check \in Check, NEW rows \in Seq(Row)
    PROVE  /\ Meets(check, rows) => ~Violates(check, rows)
           /\ \/ check.kind # "condition"
              \/ \A i \in DOMAIN rows : check.holds[rows[i]] # "unknown"
              => (~Violates(check, rows) => Meets(check, rows))
<1>1. CASE check.kind # "condition"
  BY <1>1 DEF Violates
<1>2. CASE check.kind = "condition"
  <2>1. check.holds \in Condition
    BY <1>2 DEF Check
  <2>2. \A i \in DOMAIN rows : check.holds[rows[i]] \in {"true", "false", "unknown"}
    BY <2>1 DEF Condition, Truth
  <2> QED
    BY <1>2, <2>2 DEF Meets, Violates
<1> QED
  BY <1>1, <1>2

\* A check passes exactly if no row contradicts it: what polars.py computes by
\* filtering, grouping and counting is what a row-by-row reading says, for
\* every table, with NULL wherever it likes.  So it passes all rows that meet
\* it, and no others if no condition is unknown of a row; rows of which one is
\* unknown pass, though the docstrings of ExpressionCheck and SqlCheck say that
\* the check fails if any row does not satisfy it.
THEOREM ChecksDecide ==
    ASSUME NEW check \in Check, NEW rows \in Seq(Row)
    PROVE  /\ Passed(check, rows) <=> ~Violates(check, rows)
           /\ Meets(check, rows) => Passed(check, rows)
           /\ \/ check.kind # "condition"
              \/ \A i \in DOMAIN rows : check.holds[rows[i]] # "unknown"
              => (Passed(check, rows) => Meets(check, rows))
<1>0. SUFFICES Passed(check, rows) <=> ~Violates(check, rows)
  BY MeetOrViolate
<1>1. CASE check.kind = "null"
  <2> DEFINE S == {i \in DOMAIN rows : rows[i][check.column] = NullValue}
  <2>1. Cardinality(S) = 0 <=> S = {}
    BY NoneCounted
  <2> QED
    BY <1>1, <2>1 DEF Passed, Violates, Meets
<1>2. CASE check.kind = "count"
  <2>1. check.min \in Nat /\ Len(rows) \in Nat
    BY <1>2 DEF Check
  <2> QED
    BY <1>2, <2>1 DEF Passed, Violates, Meets
<1>3. CASE check.kind = "condition"
  <2>1. Cardinality(FilterNot(rows, check.holds)) = 0 <=> FilterNot(rows, check.holds) = {}
    BY NoneCounted DEF FilterNot
  <2>2. \A i \in DOMAIN rows : check.holds[rows[i]] \in Truth
    <3>1. check.holds \in Condition
      BY <1>3 DEF Check
    <3> QED
      BY <3>1 DEF Condition
  <2>3. \A i \in DOMAIN rows : Not(check.holds[rows[i]]) = "true" <=> check.holds[rows[i]] = "false"
    BY <2>2 DEF Truth, Not
  <2> QED
    BY <1>3, <2>1, <2>3 DEF Passed, Violates, FilterNot
<1>4. CASE check.kind = "unique"
  <2>1. check.columns \in SUBSET Columns
    BY <1>4 DEF Check
  <2> QED
    BY <1>4, <2>1, DuplicatesArePairs DEF Passed, Violates, Meets
<1>5. check.kind \in {"null", "count", "condition", "unique"}
  BY DEF Check
<1> QED
  BY <1>1, <1>2, <1>3, <1>4, <1>5

---------------------------------------------------------------------------
(* extract_lineage *)

\* The sinks are what the script has written so far, and the sources are right.
LineageInv == LineageTypeOK /\ sinks = written /\ SourcesAreReads

\* The parser begins with nothing.
LEMMA LineageBegins == LineageInit => LineageInv
BY LineageAssumption DEF LineageInit, LineageInv, LineageTypeOK, SourcesAreReads

\* Every statement leaves the sources right: a target is known as a sink before
\* the tables of its own statement are looked at.
LEMMA LineageStep == LineageInv /\ [ParseStatement]_lineageVars => LineageInv'
<1>1. ASSUME LineageInv, ParseStatement PROVE LineageInv'
  <2> DEFINE s == Head(todo)
  <2>1. s \in Statements /\ Tail(todo) \in Seq(Statements)
    BY <1>1 DEF LineageInv, LineageTypeOK, ParseStatement
  <2>2. /\ s.writes \in BOOLEAN /\ s.targets \subseteq Names /\ s.reads \subseteq Names
        /\ s.ctes \subseteq Names /\ s.uses \subseteq Names
    BY <2>1, LineageAssumption
  <2>3. /\ sinks' = written'
        /\ sources' = sources \cup {n \in Mentions(s) : n \notin sinks' /\ LastPart[n] \notin s.ctes}
        /\ written' = IF s.writes THEN written \cup s.targets ELSE written
        /\ needed' = needed \cup {n \in s.reads \ written' : LastPart[n] \notin s.ctes}
        /\ stray' = stray \cup {n \in s.uses : LastPart[n] \notin s.ctes}
                          \cup (IF s.writes THEN {} ELSE s.targets)
        /\ todo' = Tail(todo)
    BY <1>1 DEF LineageInv, ParseStatement, SinksWith, KnownSinks, CteNames, Means
  <2> HIDE DEF s
  <2>4. LineageTypeOK'
    BY <1>1, <2>1, <2>2, <2>3 DEF LineageInv, LineageTypeOK, Mentions
  <2>5. needed' \subseteq sources'
    BY <1>1, <2>3 DEF LineageInv, SourcesAreReads, Mentions
  <2>6. sources' \subseteq (needed \cup stray)'
    BY <1>1, <2>2, <2>3 DEF LineageInv, SourcesAreReads, Mentions
  <2> QED
    BY <2>3, <2>4, <2>5, <2>6 DEF LineageInv, SourcesAreReads
<1>2. ASSUME LineageInv, UNCHANGED lineageVars PROVE LineageInv'
  BY <1>2 DEF LineageInv, LineageTypeOK, SourcesAreReads, lineageVars, codeVars, meaning
<1> QED
  BY <1>1, <1>2

\* For every script: each table that a statement reads before the script has
\* written it is a source, unless a CTE of that statement has its name; and a
\* source is such a table, or the target of an UPDATE or DELETE, or a CTE
\* referred to in another case (extract_lineage).
THEOREM LineageIsRight == LineageSpec => []SourcesAreReads
<1>1. LineageInv => SourcesAreReads
  BY DEF LineageInv
<1> QED
  BY <1>1, LineageBegins, LineageStep, PTL DEF LineageSpec

---------------------------------------------------------------------------
(* TollkeeperOperator *)

\* What the audit has decided of a version, and the signal that goes with it.
Judged(version) ==
    \/ NoneViolated(version.rows) /\ (conf.store => signal = {try})
    \/ ~NoneViolated(version.rows) /\ conf.mode = "continue" /\ (conf.store => signal = {})

\* Tries audit before they signal.
AuditOrder ==
    /\ signal \subseteq 0..try /\ signal \ {0} \subseteq audited
    /\ \A t \in audited : t <= try
    /\ at \in {"redirect", "execute", "audit"} => try \notin audited
    /\ at \in {"check", "judge", "publish"} => try \in audited
    /\ at \in {"check", "judge"} => conf.mode # "other" /\ (conf.store => signal = {})

\* Where production and the version of this try are on the way through
\* execute(), if the wrapped operator writes where the session looks.
Progress ==
    /\ prod.by <= try
    /\ at \in {"redirect", "execute", "audit", "check", "judge", "publish"} /\ ~conf.inPlace =>
           prod.by < try
    /\ at \in {"audit", "check", "judge", "publish"} =>
           Subject # Nothing /\ Subject.by = try /\ ~Subject.torn
    /\ at = "judge" => report = {Passed(c, Subject.rows) : c \in conf.checks}
    /\ at = "publish" => Judged(Subject)
    /\ at \in {"push", "success"} => prod.by = try /\ ~prod.torn /\ Judged(prod)
    /\ at = "success" => xcom = try

OperatorInv ==
    /\ OperatorTypeOK
    /\ AuditOrder
    /\ Matched => Progress
    /\ SignalMatchesTable

\* The arguments of the operator stay what they are, and are as assumed.
LEMMA SetupTypes ==
    ASSUME OperatorTypeOK
    PROVE  /\ conf.inPlace \in BOOLEAN /\ conf.atomic \in BOOLEAN /\ conf.store \in BOOLEAN
           /\ conf.strategy \in {"none", "passThrough", "redirect"}
           /\ conf.mode \in {"stop", "continue", "other"}
           /\ conf.checks \subseteq Check
           /\ MaxTries \in Nat /\ try \in Nat
           /\ prod.by \in 0..MaxTries /\ prod.rows \in Data
BY OperatorAssumption DEF OperatorTypeOK, Version

\* What the wrapped operator writes is a version of this try.
LEMMA WriteTypes ==
    ASSUME OperatorTypeOK, at \in Steps, NEW rows \in Data, Wrote(rows)
    PROVE  /\ prod' \in Version
           /\ staged' \in [Tries -> {Nothing} \cup Version]
<1>1. try \in Tries /\ try \in 0..MaxTries
  BY DEF OperatorTypeOK
<1>2. Written(rows) \in Version
  BY <1>1 DEF Version, Written
<1> QED
  BY <1>1, <1>2 DEF OperatorTypeOK, Wrote

\* So is what a publication leaves that does not return.
LEMMA HalfPublishedTypes ==
    ASSUME OperatorTypeOK, at \in Steps, HalfPublished
    PROVE  prod' \in Version
<1>1. try \in Tries /\ try \in 0..MaxTries
  BY DEF OperatorTypeOK
<1>2. \A rows \in Data : [Written(rows) EXCEPT !.torn = TRUE] \in Version
  BY <1>1 DEF Version, Written
<1>3. staged[try] # Nothing => staged[try] \in Version
  BY <1>1 DEF OperatorTypeOK
<1> QED
  BY <1>2, <1>3 DEF HalfPublished, OperatorTypeOK

\* What it leaves is production, what was audited, or torn.
LEMMA HalfPublishedIs ==
    ASSUME HalfPublished
    PROVE  \/ UNCHANGED prod
           \/ ~conf.inPlace /\ prod' = Subject
           \/ ~conf.inPlace /\ ~conf.atomic /\ prod'.by = try /\ prod'.torn
BY DEF HalfPublished, Subject, Written

\* A rolled back version is nothing, or is left.
LEMMA RollbackTypes ==
    ASSUME OperatorTypeOK, RolledBack \/ staged' = Discarded
    PROVE  staged' \in [Tries -> {Nothing} \cup Version]
BY DEF OperatorTypeOK, RolledBack, Discarded

\* Each action of the operator keeps the types.
LEMMA OperatorTypes == OperatorTypeOK /\ [OperatorNext]_operatorVars => OperatorTypeOK'
<1> SUFFICES ASSUME OperatorTypeOK, [OperatorNext]_operatorVars PROVE OperatorTypeOK'
  OBVIOUS
<1>0. MaxTries \in Nat
  BY OperatorAssumption
<1>1. CASE Start \/ StartRaises
  <2>1. try < MaxTries /\ try' = try + 1 /\ try' \in Tries /\ try' \in 0..MaxTries
    BY <1>0, <1>1 DEF Start, StartRaises, OperatorTypeOK, Tries
  <2>2. staged' \in [Tries -> {Nothing} \cup Version]
    BY <1>1, <2>1 DEF Start, StartRaises, OperatorTypeOK
  <2>3. xcom' \in 0..MaxTries /\ report' \subseteq BOOLEAN
    BY <1>0, <1>1 DEF Start, StartRaises
  <2>4. at' \in Steps \cup {"queued", "success", "failed"}
    BY <1>1 DEF Start, StartRaises, TryFails, Steps
  <2>5. UNCHANGED <<conf, prod, signal, audited>>
    BY <1>1 DEF Start, StartRaises
  <2> QED
    BY <2>1, <2>2, <2>3, <2>4, <2>5 DEF OperatorTypeOK
<1>2. CASE Execute \/ ExecuteRaises
  <2>1. prod' \in Version /\ staged' \in [Tries -> {Nothing} \cup Version]
    BY <1>2, WriteTypes DEF Execute, ExecuteRaises, Steps, OperatorTypeOK
  <2> QED
    BY <1>2, <2>1 DEF Execute, ExecuteRaises, Unwind, Steps, OperatorTypeOK
<1>3. CASE DeleteSignal \/ DeleteSignalRaises \/ EmitSignal \/ EmitRaises
  <2>1. try \in Tries /\ try \in 0..MaxTries
    BY <1>3 DEF DeleteSignal, DeleteSignalRaises, EmitSignal, EmitRaises, Steps, OperatorTypeOK
  <2>2. audited' \subseteq Tries
    BY <1>3, <2>1 DEF DeleteSignal, DeleteSignalRaises, EmitSignal, EmitRaises, SignalDeleted,
                      OperatorTypeOK
  <2>3. (signal = {} \/ \E s \in 0..MaxTries : signal = {s})'
    BY <1>3, <2>1 DEF DeleteSignal, DeleteSignalRaises, EmitSignal, EmitRaises, SignalDeleted,
                      OperatorTypeOK
  <2> QED
    BY <1>3, <2>2, <2>3 DEF DeleteSignal, DeleteSignalRaises, EmitSignal, EmitRaises, Unwind,
                            Steps, OperatorTypeOK
<1>4. CASE RunChecks
  <2>1. ASSUME NEW c \in conf.checks PROVE Passed(c, Subject.rows) \in BOOLEAN
    <3>1. c \in Check /\ Subject # Nothing /\ try \in Tries
      BY <1>4, <2>1, SetupTypes DEF RunChecks, Steps, OperatorTypeOK
    <3>2. Subject.rows \in Seq(Row)
      BY <3>1, OperatorAssumption DEF Subject, OperatorTypeOK, Version
    <3> QED
      BY <3>1, <3>2, ChecksAnswer
  <2>2. report' \subseteq BOOLEAN
    BY <1>4, <2>1 DEF RunChecks
  <2> QED
    BY <1>4, <2>2 DEF RunChecks, Steps, OperatorTypeOK
<1>5. CASE Refuse \/ Exit
  <2>1. staged' \in [Tries -> {Nothing} \cup Version]
    BY <1>5, RollbackTypes DEF Refuse, Exit
  <2> QED
    BY <1>5, <2>1 DEF Refuse, Exit, TryFails, Steps, OperatorTypeOK
<1>6. CASE Publish \/ PublishRaises
  <2>1. staged' \in [Tries -> {Nothing} \cup Version]
    BY <1>6, RollbackTypes DEF Publish, PublishRaises, OperatorTypeOK
  <2>2. prod' \in Version
    BY <1>6, HalfPublishedTypes DEF Publish, PublishRaises, Steps, OperatorTypeOK
  <2> QED
    BY <1>6, <2>1, <2>2 DEF Publish, PublishRaises, Unwind, Steps, OperatorTypeOK
<1>7. CASE Push
  BY <1>7 DEF Push, Steps, OperatorTypeOK
<1>8. CASE Redirect \/ AuditRejected \/ CheckRaises \/ Waive
  BY <1>8 DEF Redirect, AuditRejected, CheckRaises, Waive, Unwind, Steps, OperatorTypeOK
<1>9. CASE PushRaises \/ WorkerDies \/ Clear
  <2>1. prod' \in Version
    BY <1>9, HalfPublishedTypes DEF PushRaises, WorkerDies, Clear, OperatorTypeOK
  <2> QED
    BY <1>9, <2>1 DEF PushRaises, WorkerDies, Clear, TryFails, Steps, OperatorTypeOK
<1>10. CASE UNCHANGED operatorVars
  BY <1>10 DEF operatorVars, OperatorTypeOK
<1> QED
  BY <1>1, <1>2, <1>3, <1>4, <1>5, <1>6, <1>7, <1>8, <1>9, <1>10 DEF OperatorNext

\* A try deletes the old signal before it judges and signals (session.audit).
LEMMA AuditSteps ==
    OperatorTypeOK /\ AuditOrder /\ [OperatorNext]_operatorVars => AuditOrder'
<1> SUFFICES ASSUME OperatorTypeOK, AuditOrder, [OperatorNext]_operatorVars PROVE AuditOrder'
  OBVIOUS
<1>0. try \in Nat /\ audited \subseteq Tries /\ MaxTries \in Nat
  BY SetupTypes DEF OperatorTypeOK
<1>1. CASE Start \/ StartRaises
  <2>1. try' = try + 1 /\ UNCHANGED <<signal, audited>> /\ at' \in {"redirect", "queued", "failed"}
    BY <1>1 DEF Start, StartRaises, TryFails
  <2>2. try' \notin audited /\ \A t \in audited : t <= try'
    BY <1>0, <2>1 DEF AuditOrder, Tries
  <2>3. signal \subseteq 0..try'
    BY <1>0, <2>1 DEF AuditOrder
  <2> QED
    BY <2>1, <2>2, <2>3 DEF AuditOrder
<1>2. CASE Redirect \/ Execute \/ ExecuteRaises \/ AuditRejected
  <2>1. /\ UNCHANGED <<conf, try, signal, audited>> /\ at \in {"redirect", "execute", "audit"}
        /\ at' \in {"execute", "audit", "unwinding"}
    BY <1>2 DEF Redirect, Execute, ExecuteRaises, AuditRejected, Unwind
  <2> QED
    BY <2>1 DEF AuditOrder
<1>3. CASE DeleteSignal \/ DeleteSignalRaises
  <2>1. /\ UNCHANGED <<conf, try>> /\ conf.mode # "other"
        /\ signal' \subseteq signal
        /\ audited' = audited \cup {try} \/ (UNCHANGED audited /\ at' = "unwinding")
        /\ at' \in {"check", "unwinding"}
        /\ at' = "check" /\ conf.store => signal' = {}
    BY <1>3 DEF DeleteSignal, DeleteSignalRaises, SignalDeleted, Unwind
  <2>2. /\ signal' \subseteq 0..try' /\ signal' \ {0} \subseteq audited'
        /\ \A t \in audited' : t <= try'
    BY <1>0, <2>1 DEF AuditOrder
  <2>3. at' = "check" => try' \in audited' /\ conf'.mode # "other" /\ (conf'.store => signal' = {})
    BY <2>1
  <2> QED
    BY <2>1, <2>2, <2>3 DEF AuditOrder
<1>4. CASE RunChecks \/ CheckRaises \/ Waive
  <2>1. /\ UNCHANGED <<conf, try, signal, audited>>
        /\ \/ at = "check" /\ at' = "judge"
           \/ at = "judge" /\ at' = "publish"
           \/ at' = "unwinding"
    BY <1>4 DEF RunChecks, CheckRaises, Waive, Unwind
  <2> QED
    BY <2>1 DEF AuditOrder
<1>5. CASE EmitSignal \/ EmitRaises
  <2>1. /\ UNCHANGED <<conf, try, audited>> /\ at = "judge" /\ at' \in {"publish", "unwinding"}
        /\ signal' \subseteq signal \cup {try}
    BY <1>5 DEF EmitSignal, EmitRaises, Unwind
  <2>2. try \in audited /\ signal \subseteq 0..try /\ signal \ {0} \subseteq audited
    BY <2>1 DEF AuditOrder
  <2>3. signal' \subseteq 0..try' /\ signal' \ {0} \subseteq audited'
    BY <1>0, <2>1, <2>2
  <2> QED
    BY <2>1, <2>3 DEF AuditOrder
<1>6. CASE Refuse \/ Exit \/ Publish \/ PublishRaises \/ Push \/ PushRaises \/ WorkerDies \/ Clear
  <2>1. /\ UNCHANGED <<conf, try, signal, audited>>
        /\ at' \in {"queued", "push", "unwinding", "success", "failed"}
    BY <1>6 DEF Refuse, Exit, Publish, PublishRaises, Push, PushRaises, WorkerDies, Clear, TryFails,
                Unwind
  <2> QED
    BY <2>1 DEF AuditOrder
<1>7. CASE UNCHANGED operatorVars
  BY <1>7 DEF operatorVars, AuditOrder
<1> QED
  BY <1>1, <1>2, <1>3, <1>4, <1>5, <1>6, <1>7 DEF OperatorNext

\* What the checks report of the version is what they say of its rows.
LEMMA ReportIsVerdict ==
    ASSUME OperatorTypeOK, Subject # Nothing, try \in Tries,
           report = {Passed(c, Subject.rows) : c \in conf.checks}
    PROVE  FALSE \notin report <=> NoneViolated(Subject.rows)
<1>1. Subject.rows \in Seq(Row)
  BY OperatorAssumption DEF Subject, OperatorTypeOK, Version
<1>2. ASSUME NEW c \in conf.checks
      PROVE  /\ Passed(c, Subject.rows) \in BOOLEAN
             /\ Passed(c, Subject.rows) <=> ~Violates(c, Subject.rows)
  <2>1. c \in Check
    BY SetupTypes, <1>2
  <2> QED
    BY <1>1, <2>1, ChecksAnswer, ChecksDecide
<1> QED
  BY <1>2 DEF NoneViolated

\* Every step of execute() leaves production, the version and the signal where
\* Progress says.
LEMMA ProgressSteps ==
    ASSUME OperatorInv, Matched, [OperatorNext]_operatorVars
    PROVE  Progress'
<1>0. /\ try \in Nat /\ MaxTries \in Nat /\ prod.by \in Nat /\ Progress
      /\ conf.inPlace \in BOOLEAN
      /\ ~conf.inPlace => ~WritesTable
      /\ conf.inPlace => WritesTable
      /\ at \in Steps => try \in Tries
      /\ staged \in [Tries -> {Nothing} \cup Version]
  BY SetupTypes DEF OperatorInv, Matched, WritesTable, OperatorTypeOK
<1>00. \A rows \in Data : /\ Written(rows) # Nothing
                          /\ Written(rows).by = try /\ ~Written(rows).torn
  <2>1. \A rows \in Data : Written(rows) \in [by: Nat, rows: Data, torn: BOOLEAN]
    BY <1>0 DEF Written
  <2> QED
    BY <2>1, OperatorAssumption DEF Written
<1>1. CASE Start \/ StartRaises
  <2>1. try' = try + 1 /\ UNCHANGED <<conf, prod>> /\ at' \in {"redirect", "queued", "failed"}
    BY <1>1 DEF Start, StartRaises, TryFails
  <2> QED
    BY <1>0, <2>1 DEF Progress
<1>2. CASE Redirect \/ AuditRejected
  <2>1. /\ UNCHANGED <<conf, try, prod, staged>> /\ at \in {"redirect", "audit"}
        /\ at' \in {"execute", "unwinding"}
    BY <1>2 DEF Redirect, AuditRejected, Unwind
  <2> QED
    BY <1>0, <2>1 DEF Progress
<1>3. CASE Execute \/ ExecuteRaises
  <2>1. /\ UNCHANGED <<conf, try>> /\ at = "execute"
        /\ \/ at' = "audit" /\ \E rows \in Data : Wrote(rows)
           \/ at' = "unwinding" /\ ((\E rows \in Data : Wrote(rows)) \/ UNCHANGED <<prod, staged>>)
    BY <1>3 DEF Execute, ExecuteRaises, Unwind
  <2>2. ASSUME NEW rows \in Data, Wrote(rows)
        PROVE  /\ Subject' = Written(rows)
               /\ conf.inPlace => prod' = Written(rows)
               /\ ~conf.inPlace => prod' = prod
    BY <1>0, <2>1, <2>2 DEF Wrote, Subject, Steps
  <2>3. prod'.by <= try /\ (~conf.inPlace => prod'.by < try)
    BY <1>0, <1>00, <2>1, <2>2 DEF Progress
  <2>4. at' = "audit" => Subject' # Nothing /\ Subject'.by = try /\ ~Subject'.torn
    BY <1>00, <2>1, <2>2
  <2> QED
    BY <2>1, <2>3, <2>4 DEF Progress
<1>4. CASE DeleteSignal \/ CheckRaises \/ DeleteSignalRaises
  <2>1. /\ UNCHANGED <<conf, try, prod, staged>> /\ at \in {"audit", "check"}
        /\ (at = "audit" /\ at' = "check") \/ at' = "unwinding"
    BY <1>4 DEF DeleteSignal, CheckRaises, DeleteSignalRaises, Unwind
  <2> QED
    BY <1>0, <2>1 DEF Progress, Subject
<1>5. CASE RunChecks
  <2>1. /\ UNCHANGED <<conf, try, prod, staged>> /\ at = "check" /\ at' = "judge"
        /\ report' = {Passed(c, Subject.rows) : c \in conf.checks}
    BY <1>5 DEF RunChecks
  <2>2. Subject' = Subject
    BY <2>1 DEF Subject
  <2> QED
    BY <1>0, <2>1, <2>2 DEF Progress
<1>6. CASE Waive \/ EmitSignal
  <2>1. /\ UNCHANGED <<conf, try, prod, staged>> /\ at = "judge" /\ at' = "publish"
    BY <1>6 DEF Waive, EmitSignal
  <2>2. Subject' = Subject /\ Subject # Nothing /\ Subject.by = try /\ ~Subject.torn
    BY <1>0, <2>1 DEF Subject, Progress
  <2>3. FALSE \notin report <=> NoneViolated(Subject.rows)
    BY <1>0, <2>1, <2>2, ReportIsVerdict DEF Progress, OperatorInv, Steps
  <2>4. CASE EmitSignal
    <3>1. NoneViolated(Subject.rows) /\ (conf.store => signal' = {try})
      BY <2>3, <2>4 DEF EmitSignal
    <3>2. Judged(Subject)'
      BY <2>1, <2>2, <3>1 DEF Judged, NoneViolated
    <3> QED
      BY <1>0, <2>1, <2>2, <3>2 DEF Progress
  <2>5. CASE Waive
    <3>1. ~NoneViolated(Subject.rows) /\ conf.mode # "stop" /\ signal' = signal
      BY <2>3, <2>5 DEF Waive, Stops
    <3>2. conf.mode = "continue" /\ (conf.store => signal' = {})
      BY <2>1, <3>1, SetupTypes DEF OperatorInv, AuditOrder
    <3>3. Judged(Subject)'
      BY <2>1, <2>2, <3>1, <3>2 DEF Judged, NoneViolated
    <3> QED
      BY <1>0, <2>1, <2>2, <3>3 DEF Progress
  <2> QED
    BY <1>6, <2>4, <2>5
<1>7. CASE Publish
  <2>1. /\ UNCHANGED <<conf, try, signal>> /\ at = "publish" /\ at' = "push"
        /\ prod' = Subject
    BY <1>7 DEF Publish, Subject
  <2>2. Judged(prod)'
    BY <1>0, <2>1 DEF Progress, Judged, NoneViolated
  <2> QED
    BY <1>0, <2>1, <2>2 DEF Progress
<1>8. CASE PublishRaises
  <2>1. /\ UNCHANGED <<conf, try, signal>> /\ at = "publish" /\ at' = "unwinding"
        /\ prod' = Subject \/ prod' = prod \/ prod'.by = try
        /\ ~conf.inPlace
    BY <1>8, HalfPublishedIs DEF PublishRaises, Unwind
  <2> QED
    BY <1>0, <2>1 DEF Progress
<1>9. CASE Push
  <2>1. /\ UNCHANGED <<conf, try, prod, signal>> /\ at = "push" /\ at' = "success" /\ xcom' = try
    BY <1>9 DEF Push
  <2> QED
    BY <1>0, <2>1 DEF Progress, Judged, NoneViolated
<1>101. CASE WorkerDies
  <2>1. UNCHANGED <<conf, try>> /\ at' \in {"queued", "failed"}
    BY <1>101 DEF WorkerDies, TryFails
  <2>2. prod' = prod \/ (at = "publish" /\ prod' = Subject) \/ prod'.by = try
    BY <1>101, HalfPublishedIs DEF WorkerDies
  <2> QED
    BY <1>0, <2>1, <2>2 DEF Progress
<1>10. CASE EmitRaises \/ Refuse \/ Exit \/ PushRaises \/ Clear
  <2>1. UNCHANGED <<conf, try, prod>> /\ at' \in {"queued", "unwinding", "failed"}
    BY <1>10 DEF EmitRaises, Refuse, Exit, PushRaises, Clear, TryFails, Unwind
  <2> QED
    BY <1>0, <2>1 DEF Progress
<1>11. CASE UNCHANGED operatorVars
  BY <1>0, <1>11 DEF operatorVars, Progress, Subject, Judged, NoneViolated
<1> QED
  BY <1>1, <1>2, <1>3, <1>4, <1>5, <1>6, <1>7, <1>8, <1>9, <1>10, <1>101, <1>11
     DEF OperatorNext

\* The signal keeps to what the table holds, but for the two windows.
LEMMA SignalSteps ==
    ASSUME OperatorInv, Matched, conf.store, [OperatorNext]_operatorVars
    PROVE  SignalMatchesTable'
<1> DEFINE Fits(s) == \/ s = prod.by /\ (s = 0 \/ NoneViolated(prod.rows))
                      \/ s = prod.by /\ prod.torn /\ ~conf.atomic
                      \/ ~conf.inPlace /\ s > prod.by
                      \/ conf.inPlace /\ s < prod.by /\ prod.by \notin audited
<1>0. /\ try \in Nat /\ prod.by \in Nat /\ conf.inPlace \in BOOLEAN /\ signal \subseteq Nat
      /\ Progress /\ AuditOrder /\ \A s \in signal : Fits(s)
  BY SetupTypes DEF OperatorInv, AuditOrder, SignalMatchesTable
<1>1. SUFFICES \A s \in signal' : Fits(s)'
  BY DEF SignalMatchesTable
<1>2. ASSUME UNCHANGED <<conf, prod, audited>>, signal' \subseteq signal
      PROVE  \A s \in signal' : Fits(s)'
  BY <1>0, <1>2 DEF NoneViolated
<1>3. CASE Execute \/ ExecuteRaises
  <2>1. /\ UNCHANGED <<conf, signal, audited>> /\ at = "execute"
        /\ (\E rows \in Data : Wrote(rows)) \/ UNCHANGED <<prod, staged>>
    BY <1>3 DEF Execute, ExecuteRaises
  <2>2. CASE UNCHANGED prod
    BY <1>2, <2>1, <2>2
  <2>3. CASE ~conf.inPlace
    <3>1. UNCHANGED prod
      BY <2>1, <2>3 DEF Wrote, WritesTable, Matched
    <3> QED
      BY <2>2, <3>1
  <2>4. CASE conf.inPlace /\ \E rows \in Data : Wrote(rows)
    <3>1. prod'.by = try /\ conf'.inPlace
      BY <2>1, <2>4 DEF Wrote, Written, WritesTable
    <3>2. try \notin audited' /\ try \notin audited /\ signal \subseteq 0..try
          /\ signal \ {0} \subseteq audited
      BY <1>0, <2>1 DEF AuditOrder
    <3>3. try # 0
      BY <2>1 DEF OperatorInv, OperatorTypeOK, Steps, Tries
    <3>4. ASSUME NEW s \in signal' PROVE s < try
      BY <1>0, <2>1, <3>2, <3>3
    <3> QED
      BY <3>1, <3>2, <3>4
  <2> QED
    BY <1>0, <2>1, <2>2, <2>3, <2>4
<1>4. CASE DeleteSignal \/ DeleteSignalRaises
  <2>1. signal' = {} \/ UNCHANGED <<conf, prod, audited, signal>>
    BY <1>4 DEF DeleteSignal, DeleteSignalRaises, SignalDeleted
  <2> QED
    BY <1>2, <2>1
<1>5. CASE EmitSignal \/ EmitRaises
  <2>1. /\ UNCHANGED <<conf, try, prod, audited>> /\ at = "judge" /\ FALSE \notin report
        /\ signal' \subseteq signal \/ signal' = {try}
    BY <1>5 DEF EmitSignal, EmitRaises
  <2>2. Subject # Nothing /\ Subject.by = try /\ NoneViolated(Subject.rows)
    BY <1>0, <2>1, ReportIsVerdict DEF Progress, OperatorInv, OperatorTypeOK, Steps
  <2>3. \/ ~conf.inPlace /\ try > prod.by
        \/ try = prod.by /\ NoneViolated(prod.rows)
    BY <1>0, <2>1, <2>2 DEF Progress, Subject
  <2>4. Fits(try)'
    BY <1>0, <2>1, <2>3 DEF NoneViolated
  <2>5. CASE signal' = {try}
    BY <2>1, <2>4, <2>5
  <2> QED
    BY <1>2, <2>1, <2>5
<1>6. CASE Publish \/ PublishRaises \/ (WorkerDies /\ at = "publish")
  <2>1. /\ UNCHANGED <<conf, try, signal, audited>> /\ at = "publish"
        /\ \/ prod' = Subject \/ prod' = prod
           \/ ~conf.inPlace /\ ~conf.atomic /\ prod'.by = try /\ prod'.torn
    BY <1>6, HalfPublishedIs DEF Publish, PublishRaises, WorkerDies, Subject
  <2>2. Subject.by = try /\ Judged(Subject)
    BY <1>0, <2>1 DEF Progress
  <2>4. CASE ~conf.inPlace /\ ~conf.atomic /\ prod'.by = try /\ prod'.torn
    <3>1. \A s \in signal : s = try
      BY <2>2 DEF Judged
    <3> QED
      BY <2>1, <2>4, <3>1
  <2>3. CASE prod' = Subject
    <3>1. \A s \in signal : s = try /\ NoneViolated(Subject.rows)
      BY <2>2 DEF Judged
    <3> QED
      BY <2>1, <2>2, <2>3, <3>1 DEF NoneViolated
  <2> QED
    BY <1>2, <2>1, <2>3, <2>4
<1>7. CASE Start \/ StartRaises \/ Redirect \/ AuditRejected \/ RunChecks \/ CheckRaises \/ Refuse
           \/ Waive \/ Exit \/ Push \/ PushRaises \/ (WorkerDies /\ at # "publish") \/ Clear
  <2>1. UNCHANGED <<conf, prod, audited, signal>>
    BY <1>7 DEF Start, StartRaises, Redirect, AuditRejected, RunChecks, CheckRaises, Refuse, Waive,
                Exit, Push, PushRaises, WorkerDies, Clear
  <2> QED
    BY <1>2, <2>1
<1>8. CASE UNCHANGED operatorVars
  BY <1>2, <1>8 DEF operatorVars
<1> QED
  BY <1>3, <1>4, <1>5, <1>6, <1>7, <1>8 DEF OperatorNext

\* The task begins in the invariant, whatever was there before it.
LEMMA OperatorBegins == OperatorInit => OperatorInv
<1> SUFFICES ASSUME OperatorInit PROVE OperatorInv
  OBVIOUS
<1>1. MaxTries \in Nat /\ prod.by = 0 /\ prod \in Version
  <2>1. MaxTries \in Nat /\ 0 \in 0..MaxTries
    BY OperatorAssumption
  <2>2. prod \in [by: {0}, rows: Data, torn: {FALSE}]
    BY DEF OperatorInit
  <2> QED
    BY <2>1, <2>2 DEF Version
<1>2. OperatorTypeOK
  BY <1>1 DEF OperatorInit, OperatorTypeOK, Steps
<1>3. AuditOrder /\ Progress
  BY <1>1 DEF OperatorInit, AuditOrder, Progress
<1>4. SignalMatchesTable
  BY <1>1 DEF OperatorInit, SignalMatchesTable
<1> QED
  BY <1>2, <1>3, <1>4 DEF OperatorInv

\* No step changes how the operator was constructed.
LEMMA SetupStays == [OperatorNext]_operatorVars => conf' = conf
BY DEF OperatorNext, operatorVars, Start, StartRaises, Redirect, Execute, ExecuteRaises,
       AuditRejected, DeleteSignal, DeleteSignalRaises, RunChecks, CheckRaises, Refuse, Waive,
       EmitSignal, EmitRaises, Publish, PublishRaises, Exit, Push, PushRaises, WorkerDies, Clear

\* Every step of the task keeps it.
LEMMA OperatorStep == OperatorInv /\ [OperatorNext]_operatorVars => OperatorInv'
<1> SUFFICES ASSUME OperatorInv, [OperatorNext]_operatorVars PROVE OperatorInv'
  OBVIOUS
<1>1. conf' = conf
  BY SetupStays
<1>2. OperatorTypeOK' /\ AuditOrder'
  BY OperatorTypes, AuditSteps DEF OperatorInv
<1>3. Matched' => Progress'
  BY <1>1, ProgressSteps DEF Matched
<1>4. SignalMatchesTable'
  <2>1. CASE Matched /\ conf.store
    BY <2>1, SignalSteps
  <2>2. CASE ~(Matched /\ conf.store)
    BY <1>1, <2>2 DEF Matched, SignalMatchesTable
  <2> QED
    BY <2>1, <2>2
<1> QED
  BY <1>2, <1>3, <1>4 DEF OperatorInv

\* The invariant implies what a successful task claims.
LEMMA SuccessFollows == OperatorInv => SuccessTellsTruth
<1> SUFFICES ASSUME OperatorInv, at = "success", Matched
             PROVE  /\ prod.by = try /\ ~prod.torn /\ xcom = try
                    /\ conf.mode = "continue" \/ NoneViolated(prod.rows)
                    /\ conf.store => /\ AllMeet(prod.rows) => signal = {try}
                                     /\ ~NoneViolated(prod.rows) => signal = {}
  BY DEF SuccessTellsTruth
<1>1. prod.by = try /\ ~prod.torn /\ xcom = try /\ Judged(prod)
  BY DEF OperatorInv, Progress
<1>2. AllMeet(prod.rows) => NoneViolated(prod.rows)
  <2>1. prod.rows \in Seq(Row) /\ conf.checks \subseteq Check
    BY OperatorAssumption, SetupTypes DEF OperatorInv
  <2> QED
    BY <2>1, MeetOrViolate DEF AllMeet, NoneViolated
<1> QED
  BY <1>1, <1>2 DEF Judged

\* A table that is not written in place changes by publishing only, what is
\* published has been judged, and what a stop audit lets pass meets the checks.
LEMMA TableSteps ==
    OperatorInv /\ TableWasChecked /\ [OperatorNext]_operatorVars => TableWasChecked'
<1> SUFFICES ASSUME OperatorInv, TableWasChecked, [OperatorNext]_operatorVars,
                    Matched', ~conf'.inPlace
             PROVE  (\/ prod.by = 0 \/ conf.mode = "continue" \/ NoneViolated(prod.rows)
                     \/ prod.torn /\ ~conf.atomic)'
  BY DEF TableWasChecked
<1>1. conf' = conf
  BY SetupStays
<1>2. Matched /\ ~conf.inPlace /\ ~WritesTable /\ Progress
  BY <1>1 DEF Matched, WritesTable, OperatorInv
<1>3. CASE prod' = prod
  BY <1>1, <1>2, <1>3 DEF TableWasChecked, NoneViolated
<1>4. CASE at = "publish" /\ prod' = Subject
  <2>1. NoneViolated(Subject.rows) \/ conf.mode = "continue"
    BY <1>2, <1>4 DEF Progress, Judged
  <2> QED
    BY <1>1, <1>4, <2>1 DEF NoneViolated
<1>5. CASE Publish
  <2>1. at = "publish" /\ prod' = Subject
    BY <1>2, <1>5 DEF Publish, Subject
  <2> QED
    BY <2>1, <1>4
<1>9. CASE PublishRaises \/ WorkerDies
  <2>1. CASE at = "publish" /\ HalfPublished
    <3>1. CASE ~conf.atomic /\ prod'.torn
      BY <1>1, <3>1
    <3> QED
      BY <2>1, <3>1, <1>3, <1>4, HalfPublishedIs
  <2>2. CASE at # "publish" /\ WorkerDies
    <3>1. prod' = prod
      BY <2>2 DEF WorkerDies
    <3> QED
      BY <3>1, <1>3
  <2> QED
    BY <1>9, <2>1, <2>2 DEF PublishRaises, WorkerDies
<1>6. CASE Execute \/ ExecuteRaises
  <2>1. prod' = prod
    BY <1>2, <1>6 DEF Execute, ExecuteRaises, Wrote
  <2> QED
    BY <2>1, <1>3
<1>7. CASE Start \/ StartRaises \/ Redirect \/ AuditRejected \/ DeleteSignal \/ DeleteSignalRaises
           \/ RunChecks \/ CheckRaises \/ Refuse \/ Waive \/ EmitSignal \/ EmitRaises \/ Exit
           \/ Push \/ PushRaises \/ Clear
  <2>1. prod' = prod
    BY <1>7 DEF Start, StartRaises, Redirect, AuditRejected, DeleteSignal, DeleteSignalRaises,
                RunChecks, CheckRaises, Refuse, Waive, EmitSignal, EmitRaises, Exit, Push, PushRaises,
                Clear
  <2> QED
    BY <2>1, <1>3
<1>8. CASE UNCHANGED operatorVars
  BY <1>3, <1>8 DEF operatorVars
<1> QED
  BY <1>5, <1>6, <1>7, <1>8, <1>9 DEF OperatorNext

\* The table begins with what was there before the task.
LEMMA TableBegins == OperatorInit => TableWasChecked
BY DEF OperatorInit, TableWasChecked

\* Whatever raises in whichever try, and however often the task is retried,
\* killed and cleared: a task that Airflow shows as successful has published,
\* whole, what its last try wrote, no row of it contradicts a check unless it
\* was told to continue, and the signal stands if the rows meet the checks and
\* does not if one contradicts them (TollkeeperOperator.execute).
THEOREM SuccessIsTrue == OperatorSpec => []SuccessTellsTruth
BY OperatorBegins, OperatorStep, SuccessFollows, PTL DEF OperatorSpec

\* ... and at every moment before, a signal is of what the table holds, but for
\* a try that has signalled and not published, or not in one step and was cut
\* short, or has written in place and not deleted the old signal.
THEOREM SignalsMatchTable == OperatorSpec => []SignalMatchesTable
<1>1. OperatorInv => SignalMatchesTable
  BY DEF OperatorInv
<1> QED
  BY <1>1, OperatorBegins, OperatorStep, PTL DEF OperatorSpec

\* Over a staging backend, for any checks, tables and number of tries: at no
\* moment does the table hold rows of this task that contradict a check, unless
\* it was told to continue or the file was copied to another device and the
\* copy cut short (TollkeeperSession.publish, __exit__, CsvBackend).
THEOREM TableStaysChecked == OperatorSpec => []TableWasChecked
<1>1. OperatorInit => OperatorInv /\ TableWasChecked
  BY OperatorBegins, TableBegins
<1>2. OperatorInv /\ TableWasChecked /\ [OperatorNext]_operatorVars
        => (OperatorInv /\ TableWasChecked)'
  BY OperatorStep, TableSteps
<1> QED
  BY <1>1, <1>2, PTL DEF OperatorSpec

---------------------------------------------------------------------------
(* The group *)

\* What is waited for or has been seen is what was resolved.
GateInv ==
    /\ group \in {"built", "timedOut"} =>
           (Inferred => todo = <<>>) /\ Resolved \subseteq waiting \cup seen
    /\ try > 0 => waiting = {}

GroupInv == TypeOK /\ LineageInv /\ OperatorInv /\ GateInv

\* The group begins with nothing resolved.
LEMMA GroupBegins == Init => GroupInv
<1> SUFFICES ASSUME Init PROVE GroupInv
  OBVIOUS
<1>1. LineageInv /\ OperatorInv
  BY LineageBegins, OperatorBegins DEF Init
<1>2. TypeOK
  BY <1>1 DEF Init, TypeOK, LineageInv, OperatorInv, OperatorInit
<1>3. GateInv
  BY DEF Init, GateInv, OperatorInit
<1> QED
  BY <1>1, <1>2, <1>3 DEF GroupInv

\* What the group resolves are tables, never its own.
LEMMA ResolvedTypes ==
    ASSUME TypeOK
    PROVE  Resolved \subseteq Names
BY TaskGroupAssumption DEF TypeOK, LineageTypeOK, Resolved, Inferred

\* Parsing, building, the sensors and the operator keep the invariant.
LEMMA GroupStep == GroupInv /\ [Next]_vars => GroupInv'
<1> SUFFICES ASSUME GroupInv, [Next]_vars PROVE GroupInv'
  OBVIOUS
<1>0. TypeOK /\ LineageInv /\ OperatorInv /\ GateInv
  BY DEF GroupInv
<1>1. ASSUME UNCHANGED lineageVars PROVE LineageInv'
  BY <1>0, <1>1, LineageStep
<1>2. ASSUME UNCHANGED operatorVars PROVE OperatorInv'
  BY <1>0, <1>2, OperatorStep
<1>3. CASE Parse
  <2>1. LineageInv' /\ OperatorInv'
    BY <1>0, <1>2, <1>3, LineageStep DEF Parse
  <2>2. UNCHANGED groupVars /\ group = "open" /\ try' = try
    BY <1>3 DEF Parse, operatorVars
  <2>3. TypeOK'
    BY <1>0, <2>1, <2>2 DEF TypeOK, LineageInv, OperatorInv, groupVars
  <2>4. GateInv'
    BY <1>0, <2>2 DEF GateInv, groupVars
  <2> QED
    BY <2>1, <2>3, <2>4 DEF GroupInv
<1>4. CASE Build
  <2>1. LineageInv' /\ OperatorInv'
    BY <1>1, <1>2, <1>4 DEF Build
  <2>2. /\ UNCHANGED <<lineageVars, operatorVars, sql, declared, signalled, seen>>
        /\ group = "open" /\ (Inferred => todo = <<>>)
        /\ \/ Buildable /\ group' = "built" /\ waiting' = Resolved
           \/ group' = "refused" /\ UNCHANGED waiting
    BY <1>4 DEF Build
  <2>3. Table \notin Resolved \/ group' = "refused"
    BY <2>2 DEF Buildable
  <2>4. try' = try /\ try = 0 /\ Resolved' = Resolved /\ Inferred' = Inferred /\ todo' = todo
    BY <1>0, <2>2, SetupTypes
       DEF lineageVars, codeVars, operatorVars, Resolved, Inferred, OperatorInv, TypeOK
  <2>5. TypeOK'
    BY <1>0, <2>1, <2>2, <2>3, <2>4, ResolvedTypes DEF TypeOK, LineageInv, OperatorInv
  <2>6. GateInv'
    BY <2>2, <2>4 DEF GateInv
  <2> QED
    BY <2>1, <2>5, <2>6 DEF GroupInv
<1>5. CASE (\E n \in Upstreams : Poke(n)) \/ SensorTimesOut \/ Upstream
  <2>1. LineageInv' /\ OperatorInv'
    BY <1>1, <1>2, <1>5 DEF Poke, SensorTimesOut, Upstream
  <2>2. /\ UNCHANGED <<lineageVars, operatorVars, sql, declared>>
        /\ group = "built" /\ group' \in {"built", "timedOut"}
        /\ group' = "timedOut" => waiting # {}
        /\ waiting' \subseteq waiting /\ waiting \cup seen \subseteq waiting' \cup seen'
        /\ seen' \subseteq seen \cup Upstreams /\ signalled' \subseteq signalled \cup Upstreams
    BY <1>5 DEF Poke, SensorTimesOut, Upstream
  <2>3. try' = try /\ Resolved' = Resolved /\ Inferred' = Inferred /\ todo' = todo
    BY <2>2 DEF lineageVars, codeVars, operatorVars, Resolved, Inferred
  <2>4. TypeOK'
    BY <1>0, <2>1, <2>2, <2>3 DEF TypeOK, GateInv, LineageInv, OperatorInv
  <2>5. GateInv'
    BY <1>0, <2>2, <2>3 DEF GateInv
  <2> QED
    BY <2>1, <2>4, <2>5 DEF GroupInv
<1>6. CASE RunOperator
  <2>1. LineageInv' /\ OperatorInv'
    BY <1>0, <1>1, <1>6, OperatorStep DEF RunOperator
  <2>2. UNCHANGED <<lineageVars, groupVars>> /\ group = "built" /\ waiting = {}
    BY <1>6 DEF RunOperator, SensorsDone
  <2>3. Resolved' = Resolved /\ Inferred' = Inferred /\ todo' = todo
    BY <2>2 DEF lineageVars, codeVars, groupVars, Resolved, Inferred
  <2>4. TypeOK'
    BY <1>0, <2>1, <2>2 DEF TypeOK, groupVars, LineageInv, OperatorInv
  <2>5. GateInv'
    BY <1>0, <2>2, <2>3 DEF GateInv, groupVars
  <2> QED
    BY <2>1, <2>4, <2>5 DEF GroupInv
<1>7. CASE UNCHANGED vars
  <2>1. LineageInv' /\ OperatorInv'
    BY <1>1, <1>2, <1>7 DEF vars
  <2>2. UNCHANGED <<groupVars, operatorVars, lineageVars>>
    BY <1>7 DEF vars
  <2>3. TypeOK'
    BY <1>0, <2>1, <2>2 DEF TypeOK, groupVars, operatorVars, LineageInv, OperatorInv
  <2>4. GateInv'
    BY <1>0, <2>2
       DEF GateInv, groupVars, operatorVars, lineageVars, codeVars, Inferred, Resolved
  <2> QED
    BY <2>1, <2>3, <2>4 DEF GroupInv
<1> QED
  BY <1>3, <1>4, <1>5, <1>6, <1>7 DEF Next

\* The invariant of the group and all that is in it.
LEMMA GroupInvariant == Spec => []GroupInv
BY GroupBegins, GroupStep, PTL DEF Spec

\* The group and its parts keep their types; no sensor waits for the group's
\* own table (tollkeeper_task_group).
THEOREM GroupTypeCorrect == Spec => []TypeOK
<1>1. GroupInv => TypeOK
  BY DEF GroupInv
<1> QED
  BY <1>1, GroupInvariant, PTL

\* For every script, every declaration and any signals: the wrapped operator
\* starts only after the sensor of every table that the SQL reads, or that was
\* declared, has seen its signal (_resolve_sources, sensor >> tk_op).
THEOREM OperatorWaits == Spec => []GatedBySignals
<1>1. GroupInv => GatedBySignals
  <2> SUFFICES ASSUME GroupInv, try > 0
               PROVE  /\ declared # NotGiven => declared \subseteq seen
                      /\ Inferred => needed \subseteq seen
    BY DEF GatedBySignals
  <2>1. Resolved \subseteq seen
    BY DEF GroupInv, GateInv, TypeOK
  <2>2. declared # NotGiven => declared = Resolved
    BY DEF Resolved, Inferred
  <2>3. Inferred => sources = Resolved
    BY DEF Resolved, Inferred
  <2>4. needed \subseteq sources
    BY DEF GroupInv, LineageInv, SourcesAreReads
  <2> QED
    BY <2>1, <2>2, <2>3, <2>4
<1> QED
  BY <1>1, GroupInvariant, PTL

\* What holds of the operator alone holds of the operator under its sensors:
\* each step of the group is one of the operator or leaves it alone.
THEOREM GroupOperatorIsTrue ==
    Spec => [](SuccessTellsTruth /\ SignalMatchesTable /\ TableWasChecked /\ SourcesAreReads)
<1>1. Init => TableWasChecked
  BY TableBegins DEF Init
<1>2. GroupInv /\ TableWasChecked /\ [Next]_vars => TableWasChecked'
  <2>1. ASSUME [Next]_vars PROVE [OperatorNext]_operatorVars
    BY <2>1 DEF Next, vars, Parse, Build, Poke, SensorTimesOut, Upstream, RunOperator
  <2> QED
    BY <2>1, TableSteps DEF GroupInv
<1>3. GroupInv => SuccessTellsTruth /\ SignalMatchesTable /\ SourcesAreReads
  BY SuccessFollows DEF GroupInv, OperatorInv, LineageInv
<1> QED
  BY <1>1, <1>2, <1>3, GroupInvariant, PTL DEF Spec
=============================================================================
