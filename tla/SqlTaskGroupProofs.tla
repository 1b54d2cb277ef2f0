-------------------------- MODULE SqlTaskGroupProofs --------------------------
(* Safety of SqlTaskGroup: what a signal is worth, for any tables, checks and *)
(* numbers of tries, if the DAG runs of a group follow each other.            *)
EXTENDS SqlTaskGroup, TLAPS

Verdict(t, c) == IF c \in bad[t] THEN "fail" ELSE "pass"
Checked(t, r, c) == task[<<t, r>>][<<"dq", c>>]

\* A task that may still be started has a try left.
TryInv ==
    \A g \in Tables \X Runs, id \in Ids :
        task[g][id] \in {"none", "read"} => tries[g][id] < MaxTries

\* The runs of a group are those it gets, one at a time.
RunInv ==
    /\ \A t \in Tables, r \in Runs : <<t, r>> \in active \cup ended => r \in RunsOf[t]
    /\ \A t \in Tables, r, q \in Runs : <<t, r>> \in active /\ <<t, q>> \in active => r = q

\* In the active run: what the checks have read, written and handed to the
\* emitter is about what the table holds, since no check runs before the SQL
\* has succeeded.
CheckPart(t, r, c) ==
    /\ Checked(t, r, c) \in {"read", "success", "failed"} => task[<<t, r>>][Sql] = "success"
    /\ Checked(t, r, c) = "read" => got[<<t, r>>][<<"dq", c>>][c] = Verdict(t, c)
    /\ Checked(t, r, c) = "success" => dq[t][c] = Verdict(t, c)
    /\ task[<<t, r>>][Emit] = "read" =>
         Checked(t, r, c) = "success" /\ got[<<t, r>>][Emit][c] = Verdict(t, c)
CheckInv(t, r) == \A c \in Checks[t] : CheckPart(t, r, c)
VerdictInv == \A t \in Tables, r \in Runs : <<t, r>> \in active => CheckInv(t, r)

\* A sensor that let its group go on saw a signal.
SensorInv ==
    \A t \in Tables, r \in Runs, s \in Tables :
        task[<<t, r>>][<<"wait", s>>] = "success" => s \in signalled

\* A group that gets one run has ended its SQL for good when it signals.
RunsOnce(t) == \A r, q \in RunsOf[t] : r = q
StandInv ==
    \A t \in signalled : RunsOnce(t) /\ Checks[t] # {} =>
        ~Bad(t) /\ \E r \in Runs : <<t, r>> \in active \cup ended /\ task[<<t, r>>][Sql] = "success"

\* In the active run: what the emitter has read of the obsolete checks is what
\* is stored, and an emitter that succeeded without a signal saw a failed
\* result, of an obsolete check or of what the table holds.
EmitPart(t, r) ==
    /\ task[<<t, r>>][Emit] = "read" =>
         \A c \in CheckNames \ Checks[t] : got[<<t, r>>][Emit][c] = dq[t][c]
    /\ task[<<t, r>>][Emit] = "success" =>
         t \in signalled \/ Obsolete(t) \/ (Bad(t) /\ task[<<t, r>>][Sql] = "success")
EmitInv == \A t \in Tables, r \in Runs : <<t, r>> \in active => EmitPart(t, r)

SqlInv == TypeOK /\ TryInv /\ RunInv /\ VerdictInv /\ SensorInv /\ StandInv /\ EmitInv

---------------------------------------------------------------------------
(* What a step of a task changes *)

LEMMA IdFacts ==
    /\ Sql \in Ids /\ Emit \in Ids /\ Sql # Emit
    /\ \A c : <<"dq", c>> # Sql /\ <<"dq", c>> # Emit
    /\ \A s : <<"wait", s>> # Sql /\ <<"wait", s>> # Emit
    /\ \A s, c : <<"wait", s>> # <<"dq", c>>
    /\ \A c \in CheckNames : <<"dq", c>> \in Ids
    /\ \A s \in Tables : <<"wait", s>> \in Ids
BY DEF Ids, Sql, Emit

\* The sources of a group are tables; its tasks are tasks.
LEMMA GroupFacts ==
    ASSUME NEW t \in Tables
    PROVE  /\ Sources(t) \subseteq Tables /\ Checks[t] \subseteq CheckNames
           /\ Tasks(t) \subseteq Ids
<1>1. Sources(t) \subseteq Tables
  <2>1. CASE Declared[t] # NotGiven
    BY <2>1, GroupAssumption DEF Sources
  <2>2. CASE Declared[t] = NotGiven /\ Lineage[t] # NotGiven
    BY <2>2, GroupAssumption DEF Sources
  <2>3. CASE Declared[t] = NotGiven /\ Lineage[t] = NotGiven
    BY <2>3 DEF Sources
  <2> QED
    BY <2>1, <2>2, <2>3
<1>2. Checks[t] \subseteq CheckNames
  BY GroupAssumption
<1>3. ASSUME NEW id \in Tasks(t) PROVE id \in Ids
  <2>1. CASE id \in {"wait"} \X Sources(t)
    BY <1>1, <2>1 DEF Ids
  <2>2. CASE id \in {"dq"} \X Checks[t]
    BY <1>2, <2>2 DEF Ids
  <2>3. CASE id = Sql \/ id = Emit
    BY <2>3, IdFacts
  <2> QED
    BY <2>1, <2>2, <2>3 DEF Tasks
<1> QED
  BY <1>1, <1>2, <1>3

\* One task of one active run moved on, from a state that is not final.
Moved(g, id) ==
    /\ g \in active /\ active' = active /\ ended' = ended
    /\ id \in Ids /\ task[g][id] \in {"none", "read"}
    /\ task' \in [Tables \X Runs -> [Ids -> TaskStates]]
    /\ got' \in [Tables \X Runs -> [Ids -> [CheckNames -> Results]]]
    /\ tries' \in [Tables \X Runs -> [Ids -> 0..MaxTries]]
    /\ TryInv'
    /\ \A h \in Tables \X Runs, i \in Ids :
         h # g \/ i # id => task'[h][i] = task[h][i] /\ got'[h][i] = got[h][i]

\* The effect of an update of one entry.
LEMMA OneEntry ==
    ASSUME NEW G, NEW I, NEW V, NEW f \in [G -> [I -> V]], NEW f1, NEW g \in G, NEW id \in I,
           NEW v \in V, f1 = [f EXCEPT ![g][id] = v]
    PROVE  /\ f1 \in [G -> [I -> V]] /\ f1[g][id] = v
           /\ \A h \in G, i \in I : h # g \/ i # id => f1[h][i] = f[h][i]
OBVIOUS

\* A task ends, well or badly.
LEMMA EndMoves ==
    ASSUME TypeOK, TryInv, NEW t \in Tables, NEW r \in Runs, NEW id \in Ids,
           <<t, r>> \in active, task[<<t, r>>][id] \in {"none", "read"},
           Succeeds(t, r, id) \/ Raises(t, r, id)
    PROVE  /\ Moved(<<t, r>>, id)
           /\ task'[<<t, r>>][id] \in {"success", "none", "failed"}
           /\ Raises(t, r, id) => task'[<<t, r>>][id] # "success"
<1> DEFINE g == <<t, r>>
           G == Tables \X Runs
           tryNow == tries[g][id]
<1>0. g \in G /\ g \in active /\ task[g][id] \in {"none", "read"}
  OBVIOUS
<1>1. Nothing \in [CheckNames -> Results] /\ got' = [got EXCEPT ![g][id] = Nothing]
  BY DEF Nothing, Results, Succeeds, Raises, Forgets
<1>2. active' = active /\ ended' = ended
  BY DEF Succeeds, Raises
<1>3. Succeeds(t, r, id) =>
        task' = [task EXCEPT ![g][id] = "success"] /\ tries' = [tries EXCEPT ![g][id] = 0]
  BY DEF Succeeds, Set
<1>4. Raises(t, r, id) =>
        /\ tries' = [tries EXCEPT ![g][id] = tryNow + 1]
        /\ task' = [task EXCEPT ![g][id] = IF tryNow + 1 < MaxTries THEN "none" ELSE "failed"]
  BY DEF Raises, Set
<1>5. /\ task \in [G -> [Ids -> TaskStates]]
      /\ tries \in [G -> [Ids -> 0..MaxTries]]
      /\ got \in [G -> [Ids -> [CheckNames -> Results]]]
  BY DEF TypeOK
<1>6. \A h \in G, i \in Ids : task[h][i] \in {"none", "read"} => tries[h][i] < MaxTries
  BY DEF TryInv
<1>7. TryInv' = \A h \in G, i \in Ids : task'[h][i] \in {"none", "read"} => tries'[h][i] < MaxTries
  BY DEF TryInv
<1> HIDE DEF g, G
<1>8. /\ got' \in [G -> [Ids -> [CheckNames -> Results]]]
      /\ \A h \in G, i \in Ids : h # g \/ i # id => got'[h][i] = got[h][i]
  BY <1>0, <1>1, <1>5, OneEntry
<1>9. MaxTries \in Nat \ {0} /\ tryNow \in 0..MaxTries /\ tryNow < MaxTries
  BY <1>0, <1>5, <1>6, GroupAssumption
<1>10. ASSUME NEW s \in {"success", "none", "failed"}, NEW k \in 0..MaxTries,
              task' = [task EXCEPT ![g][id] = s], tries' = [tries EXCEPT ![g][id] = k],
              s = "none" => k < MaxTries
       PROVE  Moved(g, id) /\ task'[g][id] = s
  <2>1. s \in TaskStates
    BY DEF TaskStates
  <2>2. /\ task' \in [G -> [Ids -> TaskStates]] /\ task'[g][id] = s
        /\ \A h \in G, i \in Ids : h # g \/ i # id => task'[h][i] = task[h][i]
    BY <1>0, <1>5, <1>10, <2>1, OneEntry
  <2>3. /\ tries' \in [G -> [Ids -> 0..MaxTries]] /\ tries'[g][id] = k
        /\ \A h \in G, i \in Ids : h # g \/ i # id => tries'[h][i] = tries[h][i]
    BY <1>0, <1>5, <1>10, OneEntry
  <2>4. TryInv'
    <3> SUFFICES ASSUME NEW h \in G, NEW i \in Ids, task'[h][i] \in {"none", "read"}
                 PROVE  tries'[h][i] < MaxTries
      BY <1>7
    <3>1. CASE h = g /\ i = id
      BY <1>10, <2>2, <2>3, <3>1
    <3>2. CASE h # g \/ i # id
      BY <1>6, <2>2, <2>3, <3>2
    <3> QED
      BY <3>1, <3>2
  <2> QED
    BY <1>0, <1>2, <1>8, <2>2, <2>3, <2>4 DEF Moved, G
<1>11. CASE Succeeds(t, r, id)
  <2>1. Moved(g, id) /\ task'[g][id] = "success"
    BY <1>3, <1>9, <1>10, <1>11
  <2>2. ~Raises(t, r, id)
    <3>1. ASSUME Raises(t, r, id) PROVE FALSE
      <4> DEFINE s == IF tryNow + 1 < MaxTries THEN "none" ELSE "failed"
      <4>1. task' = [task EXCEPT ![g][id] = s] /\ s \in TaskStates /\ s # "success"
        BY <1>4, <3>1 DEF TaskStates
      <4> HIDE DEF s
      <4>2. task'[g][id] = s
        BY <1>0, <1>5, <4>1, OneEntry
      <4> QED
        BY <2>1, <4>1, <4>2
    <3> QED
      BY <3>1
  <2> QED
    BY <2>1, <2>2 DEF g
<1>12. CASE Raises(t, r, id)
  <2>1. tryNow + 1 \in 0..MaxTries
    BY <1>9
  <2>2. CASE tryNow + 1 < MaxTries
    <3>1. Moved(g, id) /\ task'[g][id] = "none"
      BY <1>4, <1>10, <1>12, <2>1, <2>2
    <3> QED
      BY <3>1 DEF g
  <2>3. CASE ~(tryNow + 1 < MaxTries)
    <3>1. Moved(g, id) /\ task'[g][id] = "failed"
      BY <1>4, <1>10, <1>12, <2>1, <2>3
    <3> QED
      BY <3>1 DEF g
  <2> QED
    BY <2>2, <2>3
<1> QED
  BY <1>11, <1>12

\* A task reads, succeeds without reading, or does not run at all: it keeps
\* its tries.
LEMMA ReadMoves ==
    ASSUME TypeOK, TryInv, NEW g \in active, NEW id \in Ids, task[g][id] = "none",
           NEW s \in {"read", "success", "upstream_failed"}, task' = [task EXCEPT ![g][id] = s],
           NEW v \in [CheckNames -> Results], got' = [got EXCEPT ![g][id] = v],
           UNCHANGED <<active, ended, tries>>
    PROVE  Moved(g, id) /\ task'[g][id] = s /\ got'[g][id] = v
<1>0. s \in TaskStates /\ g \in Tables \X Runs
  BY DEF TaskStates, TypeOK
<1>1. /\ task' \in [Tables \X Runs -> [Ids -> TaskStates]] /\ task'[g][id] = s
      /\ \A h \in Tables \X Runs, i \in Ids : h # g \/ i # id => task'[h][i] = task[h][i]
  BY <1>0, OneEntry DEF TypeOK
<1>2. /\ got' \in [Tables \X Runs -> [Ids -> [CheckNames -> Results]]] /\ got'[g][id] = v
      /\ \A h \in Tables \X Runs, i \in Ids : h # g \/ i # id => got'[h][i] = got[h][i]
  BY <1>0, OneEntry DEF TypeOK
<1>3. tries' \in [Tables \X Runs -> [Ids -> 0..MaxTries]]
  BY DEF TypeOK
<1>4. TryInv'
  <2> SUFFICES ASSUME NEW h \in Tables \X Runs, NEW i \in Ids, task'[h][i] \in {"none", "read"}
               PROVE  tries[h][i] < MaxTries
    BY DEF TryInv
  <2>1. task[h][i] \in {"none", "read"}
    BY <1>0, <1>1
  <2> QED
    BY <2>1 DEF TryInv
<1> QED
  BY <1>1, <1>2, <1>3, <1>4 DEF Moved

---------------------------------------------------------------------------
(* What each action moves *)

LEMMA UpstreamFacts ==
    ASSUME NEW t \in Tables
    PROVE  Upstream(t, Sql) = Gates(t) /\ Upstream(t, Emit) = Verdicts(t)
BY DEF Upstream, Sql, Emit

\* A task that reads nothing.
LEMMA KeepMoves ==
    ASSUME TypeOK, TryInv, NEW g \in active, NEW id \in Ids, task[g][id] = "none",
           NEW s \in {"success", "upstream_failed"}, task' = [task EXCEPT ![g][id] = s],
           UNCHANGED <<active, ended, tries, got>>
    PROVE  Moved(g, id) /\ task'[g][id] = s
<1>1. g \in Tables \X Runs /\ got \in [Tables \X Runs -> [Ids -> [CheckNames -> Results]]]
  BY DEF TypeOK
<1> DEFINE v == got[g][id]
<1>2. v \in [CheckNames -> Results] /\ [got[g] EXCEPT ![id] = v] = got[g]
  BY <1>1
<1>3. [got EXCEPT ![g][id] = v] = got
  BY <1>1, <1>2
<1> HIDE DEF v
<1> QED
  BY <1>2, <1>3, ReadMoves

LEMMA UpstreamFailedMoves ==
    ASSUME TypeOK, TryInv, NEW t \in Tables, NEW r \in Runs, NEW id \in Tasks(t),
           UpstreamFailed(t, r, id)
    PROVE  /\ Moved(<<t, r>>, id) /\ task'[<<t, r>>][id] = "upstream_failed"
           /\ UNCHANGED <<dq, signalled, bad, tainted>>
<1>1. id \in Ids
  BY GroupFacts
<1>2. /\ <<t, r>> \in active /\ task[<<t, r>>][id] = "none"
      /\ task' = [task EXCEPT ![<<t, r>>][id] = "upstream_failed"]
      /\ UNCHANGED <<active, ended, tries, got>>
      /\ UNCHANGED <<dq, signalled, bad, tainted>>
  BY DEF UpstreamFailed, Set, storeVars, dataVars
<1> QED
  BY <1>1, <1>2, KeepMoves

LEMMA TaskFailsMoves ==
    ASSUME TypeOK, TryInv, NEW t \in Tables, NEW r \in Runs, NEW id \in Tasks(t),
           TaskFails(t, r, id)
    PROVE  /\ Moved(<<t, r>>, id) /\ task'[<<t, r>>][id] \in {"none", "failed"}
           /\ \A c : id = <<"dq", c>> => task[<<t, r>>][id] = "read" \/ task[<<t, r>>][Sql] = "success"
           /\ UNCHANGED <<dq, signalled, bad, tainted>>
<1>1. id \in Ids
  BY GroupFacts
<1>2. <<t, r>> \in active /\ task[<<t, r>>][id] \in {"none", "read"} /\ Raises(t, r, id)
  BY DEF TaskFails, Ready
<1>3. ASSUME NEW c, id = <<"dq", c>>, task[<<t, r>>][id] # "read"
      PROVE  task[<<t, r>>][Sql] = "success"
  <2>1. Upstream(t, id) = {Sql}
    BY <1>3, IdFacts DEF Upstream
  <2> QED
    BY <1>3, <2>1 DEF TaskFails, Ready
<1>4. Moved(<<t, r>>, id) /\ task'[<<t, r>>][id] \in {"none", "failed"}
  <2>1. Moved(<<t, r>>, id) /\ task'[<<t, r>>][id] \in {"success", "none", "failed"}
        /\ task'[<<t, r>>][id] # "success"
    BY <1>1, <1>2, EndMoves
  <2> QED
    BY <2>1
<1>5. UNCHANGED <<dq, signalled, bad, tainted>>
  BY DEF TaskFails, storeVars, dataVars
<1> QED
  BY <1>3, <1>4, <1>5

LEMMA PokeMoves ==
    ASSUME TypeOK, TryInv, NEW t \in Tables, NEW r \in Runs, NEW s \in Sources(t), Poke(t, r, s)
    PROVE  /\ Moved(<<t, r>>, <<"wait", s>>) /\ s \in signalled
           /\ UNCHANGED <<dq, signalled, bad, tainted>>
<1> DEFINE id == <<"wait", s>>
<1>1. id \in Ids
  BY GroupFacts, IdFacts
<1>2. /\ <<t, r>> \in active /\ task[<<t, r>>][id] = "none"
      /\ task' = [task EXCEPT ![<<t, r>>][id] = "success"]
      /\ UNCHANGED <<active, ended, tries, got>>
      /\ s \in signalled /\ UNCHANGED <<dq, signalled, bad, tainted>>
  BY DEF Poke, Ready, Set, storeVars, dataVars
<1> HIDE DEF id
<1>3. Moved(<<t, r>>, id)
  BY <1>1, <1>2, KeepMoves
<1> QED
  BY <1>2, <1>3 DEF id

LEMMA RunSqlMoves ==
    ASSUME TypeOK, TryInv, NEW t \in Tables, NEW r \in Runs, RunSql(t, r)
    PROVE  /\ Moved(<<t, r>>, Sql) /\ task[<<t, r>>][Sql] = "none"
           /\ bad' \in [Tables -> SUBSET CheckNames]
           /\ \A u \in Tables : u # t => bad'[u] = bad[u]
           /\ UNCHANGED <<dq, signalled>>
           /\ tainted' = tainted \/ (tainted' = tainted \cup {t} /\ \E s \in Sources(t) : Bad(s))
           /\ \A s \in Sources(t) : task[<<t, r>>][<<"wait", s>>] = "success"
<1>1. /\ <<t, r>> \in active /\ task[<<t, r>>][Sql] = "none"
      /\ \A u \in Gates(t) : task[<<t, r>>][u] = "success"
  BY UpstreamFacts DEF RunSql, Ready
<1>2. Moved(<<t, r>>, Sql)
  BY <1>1, IdFacts, EndMoves DEF RunSql
<1>3. PICK violations \in SUBSET Checks[t] : bad' = [bad EXCEPT ![t] = violations]
  BY DEF RunSql
<1>4. /\ bad' \in [Tables -> SUBSET CheckNames]
      /\ \A u \in Tables : u # t => bad'[u] = bad[u]
  BY <1>3, GroupFacts DEF TypeOK
<1>5. \A s \in Sources(t) : <<"wait", s>> \in Gates(t)
  BY DEF Gates
<1>6. \A s \in Sources(t) : task[<<t, r>>][<<"wait", s>>] = "success"
  BY <1>1, <1>5
<1>7. tainted' = tainted \/ (tainted' = tainted \cup {t} /\ \E s \in Sources(t) : Bad(s))
  <2>1. tainted' = IF \E s \in Sources(t) : Bad(s) THEN tainted \cup {t} ELSE tainted
    BY DEF RunSql
  <2> QED
    BY <2>1
<1>8. UNCHANGED <<dq, signalled>>
  BY DEF RunSql, storeVars
<1> QED
  BY <1>1, <1>2, <1>4, <1>6, <1>7, <1>8

LEMMA RunCheckMoves ==
    ASSUME TypeOK, TryInv, NEW t \in Tables, NEW r \in Runs, NEW c \in Checks[t], RunCheck(t, r, c)
    PROVE  /\ Moved(<<t, r>>, <<"dq", c>>) /\ task'[<<t, r>>][<<"dq", c>>] = "read"
           /\ task[<<t, r>>][<<"dq", c>>] = "none" /\ task[<<t, r>>][Sql] = "success"
           /\ got'[<<t, r>>][<<"dq", c>>][c] = Verdict(t, c)
           /\ UNCHANGED <<dq, signalled, bad, tainted>>
<1> DEFINE id == <<"dq", c>>
           g == <<t, r>>
           v == [got[g][id] EXCEPT ![c] = Verdict(t, c)]
<1>1. id \in Ids /\ c \in CheckNames /\ id # Sql /\ id # Emit
  BY GroupFacts, IdFacts
<1>2. Upstream(t, id) = {Sql}
  BY <1>1 DEF Upstream
<1>3. /\ g \in active /\ task[g][id] = "none" /\ task[g][Sql] = "success"
      /\ task' = [task EXCEPT ![g][id] = "read"]
      /\ UNCHANGED <<active, ended, tries>> /\ UNCHANGED <<dq, signalled, bad, tainted>>
  BY <1>2 DEF RunCheck, Ready, Set, storeVars, dataVars
<1>4. got' = [got EXCEPT ![g][id][c] = Verdict(t, c)]
  BY DEF RunCheck, Verdict
<1>5. g \in Tables \X Runs /\ got \in [Tables \X Runs -> [Ids -> [CheckNames -> Results]]]
      /\ Verdict(t, c) \in Results
  BY DEF Verdict, Results, TypeOK
<1> HIDE DEF id, g
<1>6. v \in [CheckNames -> Results] /\ v[c] = Verdict(t, c) /\ got' = [got EXCEPT ![g][id] = v]
  BY <1>1, <1>4, <1>5
<1> HIDE DEF v
<1>7. Moved(g, id) /\ task'[g][id] = "read" /\ got'[g][id] = v
  BY <1>1, <1>3, <1>6, ReadMoves
<1> QED
  BY <1>3, <1>6, <1>7 DEF g, id

LEMMA WriteDqResultMoves ==
    ASSUME TypeOK, TryInv, NEW t \in Tables, NEW r \in Runs, NEW c \in Checks[t],
           WriteDqResult(t, r, c)
    PROVE  /\ Moved(<<t, r>>, <<"dq", c>>)
           /\ task[<<t, r>>][<<"dq", c>>] = "read"
           /\ task'[<<t, r>>][<<"dq", c>>] \in {"success", "none", "failed"}
           /\ dq' \in [Tables -> [CheckNames -> Results]]
           /\ dq'[t][c] = got[<<t, r>>][<<"dq", c>>][c]
           /\ \A u \in Tables, d \in CheckNames : u # t \/ d # c => dq'[u][d] = dq[u][d]
           /\ \A u \in Tables : u # t => dq'[u] = dq[u]
           /\ UNCHANGED <<signalled, bad, tainted>>
<1> DEFINE id == <<"dq", c>>
           g == <<t, r>>
           v == got[g][id][c]
<1>1. id \in Ids /\ c \in CheckNames
  BY GroupFacts, IdFacts
<1>2. g \in active /\ task[g][id] = "read"
  BY DEF WriteDqResult
<1>3. /\ Moved(g, id) /\ task'[g][id] \in {"success", "none", "failed"}
  BY <1>1, <1>2, EndMoves DEF WriteDqResult
<1>4. v \in Results
  <2>1. g \in Tables \X Runs /\ got \in [Tables \X Runs -> [Ids -> [CheckNames -> Results]]]
    BY DEF TypeOK
  <2> HIDE DEF id, g
  <2> QED
    BY <1>1, <2>1
<1>5. dq' = [dq EXCEPT ![t][c] = v] /\ UNCHANGED <<signalled, bad, tainted>>
  BY DEF WriteDqResult, dataVars
<1> HIDE DEF v
<1>6. /\ dq' \in [Tables -> [CheckNames -> Results]] /\ dq'[t][c] = v
      /\ \A u \in Tables, d \in CheckNames : u # t \/ d # c => dq'[u][d] = dq[u][d]
      /\ \A u \in Tables : u # t => dq'[u] = dq[u]
  BY <1>1, <1>4, <1>5 DEF TypeOK
<1> QED
  BY <1>2, <1>3, <1>5, <1>6 DEF v

LEMMA GetDqResultsMoves ==
    ASSUME TypeOK, TryInv, NEW t \in Tables, NEW r \in Runs, GetDqResults(t, r)
    PROVE  /\ Moved(<<t, r>>, Emit) /\ task'[<<t, r>>][Emit] = "read"
           /\ got'[<<t, r>>][Emit] = dq[t]
           /\ \A c \in Checks[t] : Checked(t, r, c) = "success"
           /\ UNCHANGED <<dq, signalled, bad, tainted>>
<1>1. Upstream(t, Emit) = Verdicts(t)
  BY UpstreamFacts
<1>2. /\ <<t, r>> \in active /\ task[<<t, r>>][Emit] = "none"
      /\ \A u \in Verdicts(t) : task[<<t, r>>][u] = "success"
      /\ task' = [task EXCEPT ![<<t, r>>][Emit] = "read"]
      /\ got' = [got EXCEPT ![<<t, r>>][Emit] = dq[t]]
      /\ UNCHANGED <<active, ended, tries>> /\ UNCHANGED <<dq, signalled, bad, tainted>>
  BY <1>1 DEF GetDqResults, Ready, Set, storeVars, dataVars
<1>3. \A c \in Checks[t] : <<"dq", c>> \in Verdicts(t)
  BY DEF Verdicts
<1>4. dq[t] \in [CheckNames -> Results]
  BY DEF TypeOK
<1>5. Moved(<<t, r>>, Emit) /\ task'[<<t, r>>][Emit] = "read" /\ got'[<<t, r>>][Emit] = dq[t]
  BY <1>2, <1>4, IdFacts, ReadMoves
<1> QED
  BY <1>2, <1>3, <1>5 DEF Checked

LEMMA EmitMoves ==
    ASSUME TypeOK, TryInv, NEW t \in Tables, NEW r \in Runs, EmitSignal(t, r) \/ RefuseSignal(t, r)
    PROVE  /\ Moved(<<t, r>>, Emit) /\ task[<<t, r>>][Emit] = "read"
           /\ task'[<<t, r>>][Emit] # "read"
           /\ EmitSignal(t, r) => signalled' = signalled \cup {t}
           /\ RefuseSignal(t, r) => signalled' = signalled
           /\ RefuseSignal(t, r) /\ task'[<<t, r>>][Emit] = "success" => FailedResults(t, r) # {}
           /\ UNCHANGED <<dq, bad, tainted>>
<1>1. <<t, r>> \in active /\ task[<<t, r>>][Emit] = "read"
  BY DEF EmitSignal, RefuseSignal, Reading
<1>2. Succeeds(t, r, Emit) \/ Raises(t, r, Emit)
  BY DEF EmitSignal, RefuseSignal
<1>3. /\ Moved(<<t, r>>, Emit) /\ task'[<<t, r>>][Emit] \in {"success", "none", "failed"}
      /\ Raises(t, r, Emit) => task'[<<t, r>>][Emit] # "success"
  BY <1>1, <1>2, IdFacts, EndMoves
<1>4. RefuseSignal(t, r) => Raises(t, r, Emit) \/ FailedResults(t, r) # {}
  BY DEF RefuseSignal, Handled
<1> QED
  BY <1>1, <1>3, <1>4 DEF EmitSignal, RefuseSignal, SignalName, storeVars, dataVars

---------------------------------------------------------------------------
(* What every such step keeps *)

\* A run that moved keeps the shape of the state ...
LEMMA MovedTypes ==
    ASSUME TypeOK, TryInv, NEW t \in Tables, NEW r \in Runs, NEW id, Moved(<<t, r>>, id),
           bad' \in [Tables -> SUBSET CheckNames], dq' \in [Tables -> [CheckNames -> Results]],
           signalled' \subseteq Tables, tainted' \subseteq Tables
    PROVE  TypeOK' /\ TryInv'
<1>1. /\ <<t, r>> \in active /\ active' = active /\ ended' = ended
      /\ task' \in [Tables \X Runs -> [Ids -> TaskStates]]
      /\ got' \in [Tables \X Runs -> [Ids -> [CheckNames -> Results]]]
      /\ tries' \in [Tables \X Runs -> [Ids -> 0..MaxTries]] /\ TryInv'
      /\ \A h \in Tables \X Runs, i \in Ids : h # <<t, r>> => task'[h][i] = task[h][i]
  BY DEF Moved
<1>2. \A h \in Tables \X Runs : \A i \in Ids : task'[h][i] # "none" => h \in active \cup ended
  BY <1>1 DEF TypeOK
<1> QED
  BY <1>1, <1>2 DEF TypeOK

\* ... and the number of its runs.
LEMMA MovedKeeps ==
    ASSUME TypeOK, TryInv, RunInv, NEW t \in Tables, NEW r \in Runs, NEW id, Moved(<<t, r>>, id),
           bad' \in [Tables -> SUBSET CheckNames], dq' \in [Tables -> [CheckNames -> Results]],
           signalled' \subseteq Tables, tainted' \subseteq Tables
    PROVE  TypeOK' /\ TryInv' /\ RunInv'
<1>1. TypeOK' /\ TryInv'
  BY MovedTypes
<1>2. active' = active /\ ended' = ended
  BY DEF Moved
<1> QED
  BY <1>1, <1>2 DEF RunInv

\* The verdicts of other groups do not depend on it.
LEMMA MovedVerdicts ==
    ASSUME TypeOK, RunInv, VerdictInv, NEW t \in Tables, NEW r \in Runs, NEW id,
           Moved(<<t, r>>, id), CheckInv(t, r)',
           \A u \in Tables : u # t => bad'[u] = bad[u] /\ dq'[u] = dq[u]
    PROVE  VerdictInv'
<1> SUFFICES ASSUME NEW u \in Tables, NEW q \in Runs, <<u, q>> \in active' PROVE CheckInv(u, q)'
  BY DEF VerdictInv
<1>1. <<t, r>> \in active /\ <<u, q>> \in active
  BY DEF Moved
<1>2. CASE u = t
  <2>1. q = r
    BY <1>1, <1>2 DEF RunInv
  <2> QED
    BY <1>2, <2>1
<1>3. CASE u # t
  <2> DEFINE g == <<u, q>>
  <2>1. g \in Tables \X Runs /\ g # <<t, r>>
    BY <1>3
  <2>2. \A i \in Ids : task'[g][i] = task[g][i] /\ got'[g][i] = got[g][i]
    BY <2>1 DEF Moved
  <2>3. CheckInv(u, q) /\ bad'[u] = bad[u] /\ dq'[u] = dq[u]
    BY <1>1, <1>3 DEF VerdictInv
  <2> SUFFICES ASSUME NEW c \in Checks[u]
               PROVE  /\ task'[g][<<"dq", c>>] \in {"read", "success", "failed"} =>
                           task'[g][Sql] = "success"
                      /\ task'[g][<<"dq", c>>] = "read" => got'[g][<<"dq", c>>][c] = Verdict(u, c)'
                      /\ task'[g][<<"dq", c>>] = "success" => dq'[u][c] = Verdict(u, c)'
                      /\ task'[g][Emit] = "read" =>
                           task'[g][<<"dq", c>>] = "success" /\ got'[g][Emit][c] = Verdict(u, c)'
    BY DEF CheckInv, CheckPart, Checked
  <2>4. <<"dq", c>> \in Ids /\ Sql \in Ids /\ Emit \in Ids
    BY GroupFacts, IdFacts
  <2>5. Verdict(u, c)' = Verdict(u, c)
    BY <2>3 DEF Verdict
  <2>6. /\ task[g][<<"dq", c>>] \in {"read", "success", "failed"} => task[g][Sql] = "success"
        /\ task[g][<<"dq", c>>] = "read" => got[g][<<"dq", c>>][c] = Verdict(u, c)
        /\ task[g][<<"dq", c>>] = "success" => dq[u][c] = Verdict(u, c)
        /\ task[g][Emit] = "read" =>
             task[g][<<"dq", c>>] = "success" /\ got[g][Emit][c] = Verdict(u, c)
    BY <2>3 DEF CheckInv, CheckPart, Checked
  <2> HIDE DEF g
  <2> QED
    BY <2>2, <2>3, <2>4, <2>5, <2>6
<1> QED
  BY <1>2, <1>3

\* What emitters saw stays true, if the moved emitter's part does.
LEMMA MovedEmits ==
    ASSUME TypeOK, RunInv, EmitInv, NEW t \in Tables, NEW r \in Runs, NEW id,
           Moved(<<t, r>>, id), signalled \subseteq signalled',
           \A u \in Tables : \A c \in CheckNames \ Checks[u] : dq'[u][c] = dq[u][c],
           \A u \in Tables : u # t \/ id # Sql => bad'[u] = bad[u],
           id = Emit => EmitPart(t, r)'
    PROVE  EmitInv'
<1> SUFFICES ASSUME NEW u \in Tables, NEW q \in Runs, <<u, q>> \in active' PROVE EmitPart(u, q)'
  BY DEF EmitInv
<1> DEFINE g == <<u, q>>
<1>1. /\ g \in active /\ <<t, r>> \in active /\ g \in Tables \X Runs
      /\ Sql \in Ids /\ Emit \in Ids /\ Sql # Emit
  BY IdFacts DEF Moved
<1>2. CASE g = <<t, r>> /\ id = Emit
  BY <1>2
<1>3. CASE g # <<t, r>> \/ id # Emit
  <2>1. task'[g][Emit] = task[g][Emit] /\ got'[g][Emit] = got[g][Emit]
    BY <1>1, <1>3 DEF Moved
  <2>2. EmitPart(u, q) /\ (Obsolete(u) => Obsolete(u)')
    BY <1>1 DEF EmitInv, Obsolete
  <2>3. CASE g = <<t, r>> /\ id = Sql
    <3>1. task[g][Sql] # "success"
      BY <2>3 DEF Moved
    <3> QED
      BY <2>1, <2>2, <3>1 DEF EmitPart
  <2>4. CASE ~(g = <<t, r>> /\ id = Sql)
    <3>1. u # t \/ id # Sql
      <4>1. ASSUME u = t, q # r PROVE FALSE
        BY <1>1, <4>1 DEF RunInv
      <4> QED
        BY <2>4, <4>1
    <3>2. task'[g][Sql] = task[g][Sql]
      BY <1>1, <2>4 DEF Moved
    <3>3. Bad(u)' = Bad(u)
      BY <3>1 DEF Bad
    <3> QED
      BY <2>1, <2>2, <3>2, <3>3 DEF EmitPart
  <2> QED
    BY <2>3, <2>4
<1> QED
  BY <1>2, <1>3

\* A sensor whose signal was there finds it there still.
LEMMA MovedSensors ==
    ASSUME TypeOK, SensorInv, NEW t \in Tables, NEW r \in Runs, NEW id, Moved(<<t, r>>, id),
           signalled \subseteq signalled',
           \A s \in Tables : id = <<"wait", s>> => s \in signalled' \/ task'[<<t, r>>][id] # "success"
    PROVE  SensorInv'
<1> SUFFICES ASSUME NEW u \in Tables, NEW q \in Runs, NEW s \in Tables,
                    task'[<<u, q>>][<<"wait", s>>] = "success"
             PROVE  s \in signalled'
  BY DEF SensorInv
<1> DEFINE g == <<u, q>>
           w == <<"wait", s>>
<1>1. g \in Tables \X Runs /\ w \in Ids
  BY IdFacts
<1>2. CASE g = <<t, r>> /\ w = id
  BY <1>2
<1>3. CASE g # <<t, r>> \/ w # id
  <2>1. task'[g][w] = task[g][w]
    BY <1>1, <1>3 DEF Moved
  <2> QED
    BY <2>1 DEF SensorInv
<1> QED
  BY <1>2, <1>3

\* What a signal stands for stays, unless the SQL runs once more.
LEMMA MovedStands ==
    ASSUME TypeOK, StandInv, NEW t \in Tables, NEW r \in Runs, NEW id, Moved(<<t, r>>, id),
           NEW u \in signalled, RunsOnce(u), Checks[u] # {}, bad'[u] = bad[u]
    PROVE  ~Bad(u)' /\ \E q \in Runs : <<u, q>> \in active' \cup ended' /\ task'[<<u, q>>][Sql] = "success"
<1>1. PICK q \in Runs : <<u, q>> \in active \cup ended /\ task[<<u, q>>][Sql] = "success"
  BY DEF StandInv
<1>2. ~Bad(u)
  BY DEF StandInv
<1>3. u \in Tables
  BY DEF TypeOK
<1> DEFINE g == <<u, q>>
<1>4. g \in Tables \X Runs /\ task[g][Sql] = "success"
  BY <1>1, <1>3
<1>5. g # <<t, r>> \/ Sql # id
  BY <1>4 DEF Moved
<1>6. task'[g][Sql] = task[g][Sql]
  BY <1>4, <1>5, IdFacts DEF Moved
<1>7. active' = active /\ ended' = ended
  BY DEF Moved
<1> QED
  BY <1>1, <1>2, <1>6, <1>7 DEF Bad

\* What stays of a check's part when another task moves, or the check's own
\* task neither reads nor succeeds.
LEMMA CheckKeeps ==
    ASSUME TypeOK, NEW t \in Tables, NEW r \in Runs, NEW c \in Checks[t], CheckPart(t, r, c),
           NEW id, Moved(<<t, r>>, id), bad'[t] = bad[t],
           id = Emit => task'[<<t, r>>][Emit] # "read",
           id = <<"dq", c>> =>
               /\ task'[<<t, r>>][id] \in {"none", "failed", "upstream_failed"}
               /\ task'[<<t, r>>][id] = "failed" => task[<<t, r>>][Sql] = "success",
           id # <<"dq", c>> => dq'[t][c] = dq[t][c]
    PROVE  CheckPart(t, r, c)'
<1> DEFINE g == <<t, r>>
           w == <<"dq", c>>
<1>1. /\ g \in Tables \X Runs /\ w \in Ids /\ w # Sql /\ w # Emit
      /\ Sql \in Ids /\ Emit \in Ids /\ Sql # Emit
  BY GroupFacts, IdFacts
<1>2. /\ task[g][id] \in {"none", "read"}
      /\ \A i \in Ids : i # id => task'[g][i] = task[g][i] /\ got'[g][i] = got[g][i]
  BY <1>1 DEF Moved
<1>3. Verdict(t, c)' = Verdict(t, c)
  BY DEF Verdict
<1>4. /\ task[g][w] \in {"read", "success", "failed"} => task[g][Sql] = "success"
      /\ task[g][w] = "read" => got[g][w][c] = Verdict(t, c)
      /\ task[g][w] = "success" => dq[t][c] = Verdict(t, c)
      /\ task[g][Emit] = "read" => task[g][w] = "success" /\ got[g][Emit][c] = Verdict(t, c)
  BY DEF CheckPart, Checked
<1> SUFFICES /\ task'[g][w] \in {"read", "success", "failed"} => task'[g][Sql] = "success"
             /\ task'[g][w] = "read" => got'[g][w][c] = Verdict(t, c)'
             /\ task'[g][w] = "success" => dq'[t][c] = Verdict(t, c)'
             /\ task'[g][Emit] = "read" =>
                  task'[g][w] = "success" /\ got'[g][Emit][c] = Verdict(t, c)'
  BY DEF CheckPart, Checked
<1>5. /\ id = Emit => task'[g][Emit] # "read"
      /\ id = w => /\ task'[g][w] \in {"none", "failed", "upstream_failed"}
                   /\ task'[g][w] = "failed" => task[g][Sql] = "success"
      /\ id # w => dq'[t][c] = dq[t][c]
  OBVIOUS
<1> HIDE DEF g, w
<1>6. CASE id = w
  BY <1>1, <1>2, <1>4, <1>5, <1>6
<1>7. CASE id = Sql
  BY <1>1, <1>2, <1>4, <1>7
<1>8. CASE id = Emit
  BY <1>1, <1>2, <1>3, <1>4, <1>5, <1>8
<1>9. CASE id # w /\ id # Sql /\ id # Emit
  BY <1>1, <1>2, <1>3, <1>4, <1>5, <1>9
<1> QED
  BY <1>6, <1>7, <1>8, <1>9

LEMMA RunSqlVerdicts ==
    ASSUME TypeOK, TryInv, RunInv, VerdictInv, NEW t \in Tables, NEW r \in Runs, RunSql(t, r)
    PROVE  VerdictInv'
<1>1. /\ Moved(<<t, r>>, Sql) /\ task[<<t, r>>][Sql] = "none"
      /\ \A u \in Tables : u # t => bad'[u] = bad[u]
      /\ dq' = dq
  BY RunSqlMoves
<1>2. ASSUME NEW c \in Checks[t] PROVE CheckPart(t, r, c)'
  <2> DEFINE g == <<t, r>>
             w == <<"dq", c>>
  <2>1. /\ g \in Tables \X Runs /\ w \in Ids /\ w # Sql /\ Emit \in Ids /\ Sql # Emit
    BY GroupFacts, IdFacts
  <2>2. CheckPart(t, r, c)
    BY <1>1 DEF VerdictInv, CheckInv, Moved
  <2>3. task[g][w] \notin {"read", "success", "failed"} /\ task[g][Emit] # "read"
    BY <1>1, <2>2 DEF CheckPart, Checked
  <2>4. task'[g][w] = task[g][w] /\ task'[g][Emit] = task[g][Emit]
    BY <1>1, <2>1 DEF Moved
  <2> QED
    BY <2>3, <2>4 DEF CheckPart, Checked
<1>3. CheckInv(t, r)'
  BY <1>2 DEF CheckInv
<1> QED
  BY <1>1, <1>3, MovedVerdicts

LEMMA RunCheckVerdicts ==
    ASSUME TypeOK, TryInv, RunInv, VerdictInv, NEW t \in Tables, NEW r \in Runs, NEW c \in Checks[t],
           RunCheck(t, r, c)
    PROVE  VerdictInv'
<1> DEFINE g == <<t, r>>
           w == <<"dq", c>>
<1>1. /\ Moved(g, w) /\ task'[g][w] = "read" /\ task[g][w] = "none" /\ task[g][Sql] = "success"
      /\ got'[g][w][c] = Verdict(t, c) /\ UNCHANGED <<dq, bad>>
  BY RunCheckMoves
<1>2. /\ g \in Tables \X Runs /\ w # Sql /\ w # Emit /\ Emit \in Ids /\ Sql \in Ids
  BY IdFacts
<1>3. ASSUME NEW d \in Checks[t] PROVE CheckPart(t, r, d)
  BY <1>1 DEF VerdictInv, CheckInv, Moved
<1>4. CheckPart(t, r, c)'
  <2>1. task[g][Emit] # "read"
    BY <1>1, <1>3 DEF CheckPart, Checked
  <2>2. task'[g][Sql] = "success" /\ task'[g][Emit] # "read"
    BY <1>1, <1>2, <2>1 DEF Moved
  <2>3. Verdict(t, c)' = Verdict(t, c)
    BY <1>1 DEF Verdict
  <2> QED
    BY <1>1, <2>2, <2>3 DEF CheckPart, Checked
<1>5. ASSUME NEW d \in Checks[t], d # c PROVE CheckPart(t, r, d)'
  <2>1. w # <<"dq", d>>
    BY <1>5
  <2> QED
    BY <1>1, <1>2, <1>3, <2>1, CheckKeeps
<1>6. CheckInv(t, r)'
  BY <1>4, <1>5 DEF CheckInv
<1> QED
  BY <1>1, <1>6, MovedVerdicts

LEMMA WriteDqResultVerdicts ==
    ASSUME TypeOK, TryInv, RunInv, VerdictInv, NEW t \in Tables, NEW r \in Runs, NEW c \in Checks[t],
           WriteDqResult(t, r, c)
    PROVE  VerdictInv'
<1> DEFINE g == <<t, r>>
           w == <<"dq", c>>
<1>1. /\ Moved(g, w) /\ task[g][w] = "read" /\ task'[g][w] \in {"success", "none", "failed"}
      /\ dq'[t][c] = got[g][w][c]
      /\ \A u \in Tables, d \in CheckNames : u # t \/ d # c => dq'[u][d] = dq[u][d]
      /\ \A u \in Tables : u # t => dq'[u] = dq[u]
      /\ bad' = bad
  BY WriteDqResultMoves
<1>2. /\ g \in Tables \X Runs /\ w # Sql /\ w # Emit /\ Emit \in Ids /\ Sql \in Ids
  BY IdFacts
<1>3. ASSUME NEW d \in Checks[t] PROVE CheckPart(t, r, d)
  BY <1>1 DEF VerdictInv, CheckInv, Moved
<1>4. CheckPart(t, r, c)'
  <2>1. task[g][Emit] # "read" /\ task[g][Sql] = "success" /\ got[g][w][c] = Verdict(t, c)
    BY <1>1, <1>3 DEF CheckPart, Checked
  <2>2. task'[g][Sql] = "success" /\ task'[g][Emit] # "read"
    BY <1>1, <1>2, <2>1 DEF Moved
  <2>3. Verdict(t, c)' = Verdict(t, c)
    BY <1>1 DEF Verdict
  <2> QED
    BY <1>1, <2>1, <2>2, <2>3 DEF CheckPart, Checked
<1>5. ASSUME NEW d \in Checks[t], d # c PROVE CheckPart(t, r, d)'
  <2>1. w # <<"dq", d>>
    BY <1>5
  <2>2. dq'[t][d] = dq[t][d]
    BY <1>1, <1>5, GroupFacts
  <2> QED
    BY <1>1, <1>2, <1>3, <2>1, <2>2, CheckKeeps
<1>6. CheckInv(t, r)'
  BY <1>4, <1>5 DEF CheckInv
<1> QED
  BY <1>1, <1>6, MovedVerdicts

LEMMA GetDqResultsVerdicts ==
    ASSUME TypeOK, TryInv, RunInv, VerdictInv, NEW t \in Tables, NEW r \in Runs, GetDqResults(t, r)
    PROVE  VerdictInv'
<1> DEFINE g == <<t, r>>
<1>1. /\ Moved(g, Emit) /\ got'[g][Emit] = dq[t]
      /\ \A c \in Checks[t] : Checked(t, r, c) = "success"
      /\ UNCHANGED <<dq, bad>>
  BY GetDqResultsMoves
<1>2. ASSUME NEW c \in Checks[t] PROVE CheckPart(t, r, c)'
  <2> DEFINE w == <<"dq", c>>
  <2>1. /\ g \in Tables \X Runs /\ w \in Ids /\ w # Emit /\ Sql \in Ids /\ Sql # Emit
    BY GroupFacts, IdFacts
  <2>2. CheckPart(t, r, c)
    BY <1>1 DEF VerdictInv, CheckInv, Moved
  <2>3. task[g][w] = "success" /\ task[g][Sql] = "success" /\ dq[t][c] = Verdict(t, c)
    BY <1>1, <2>2 DEF CheckPart, Checked
  <2>4. task'[g][w] = "success" /\ task'[g][Sql] = "success"
    BY <1>1, <2>1, <2>3 DEF Moved
  <2>5. Verdict(t, c)' = Verdict(t, c)
    BY <1>1 DEF Verdict
  <2> QED
    BY <1>1, <2>3, <2>4, <2>5 DEF CheckPart, Checked
<1>3. CheckInv(t, r)'
  BY <1>2 DEF CheckInv
<1> QED
  BY <1>1, <1>3, MovedVerdicts

\* All other tasks leave the verdicts as they are.
LEMMA OtherVerdicts ==
    ASSUME TypeOK, RunInv, VerdictInv, NEW t \in Tables, NEW r \in Runs, NEW id,
           Moved(<<t, r>>, id), UNCHANGED <<bad, dq>>,
           id = Emit => task'[<<t, r>>][Emit] # "read",
           \A c \in Checks[t] : id = <<"dq", c>> =>
               /\ task'[<<t, r>>][id] \in {"none", "failed", "upstream_failed"}
               /\ task'[<<t, r>>][id] = "failed" =>
                    task[<<t, r>>][id] = "read" \/ task[<<t, r>>][Sql] = "success"
    PROVE  VerdictInv'
<1>1. ASSUME NEW c \in Checks[t] PROVE CheckPart(t, r, c)'
  <2>1. CheckPart(t, r, c)
    BY DEF VerdictInv, CheckInv, Moved
  <2>2. id = <<"dq", c>> /\ task[<<t, r>>][id] = "read" => task[<<t, r>>][Sql] = "success"
    BY <2>1 DEF CheckPart, Checked
  <2> QED
    BY <2>1, <2>2, CheckKeeps
<1>2. CheckInv(t, r)'
  BY <1>1 DEF CheckInv
<1> QED
  BY <1>2, MovedVerdicts

---------------------------------------------------------------------------
(* DAG runs *)

\* The new run has not done anything, and is the only one of its group.
LEMMA BeginRunStep ==
    ASSUME ~Overlap, SqlInv, NEW t \in Tables, NEW r \in Runs, BeginRun(t, r)
    PROVE  SqlInv'
<1> USE DEF SqlInv
<1>1. /\ r \in RunsOf[t] /\ <<t, r>> \notin active \cup ended
      /\ \A q \in Runs : <<t, q>> \notin active
      /\ active' = active \cup {<<t, r>>}
      /\ UNCHANGED <<dq, signalled, bad, tainted, ended, task, tries, got>>
  BY DEF BeginRun, storeVars, dataVars
<1>2. TypeOK' /\ TryInv' /\ SensorInv' /\ RunInv'
  BY <1>1 DEF TypeOK, TryInv, SensorInv, RunInv
<1>3. VerdictInv'
  <2> SUFFICES ASSUME NEW u \in Tables, NEW q \in Runs, <<u, q>> \in active', NEW c \in Checks[u]
               PROVE  CheckPart(u, q, c)'
    BY DEF VerdictInv, CheckInv
  <2>1. CASE <<u, q>> \in active
    <3>1. CheckPart(u, q, c)
      BY <2>1 DEF VerdictInv, CheckInv
    <3> QED
      BY <1>1, <3>1 DEF CheckPart, Checked, Verdict
  <2>2. CASE <<u, q>> \notin active
    <3>1. <<u, q>> = <<t, r>>
      BY <1>1, <2>2
    <3>2. <<"dq", c>> \in Ids /\ Emit \in Ids /\ <<u, q>> \in Tables \X Runs
      BY GroupFacts, IdFacts
    <3>3. task[<<u, q>>][<<"dq", c>>] = "none" /\ task[<<u, q>>][Emit] = "none"
      BY <1>1, <3>1, <3>2 DEF TypeOK
    <3> QED
      BY <1>1, <3>3 DEF CheckPart, Checked
  <2> QED
    BY <2>1, <2>2
<1>4. StandInv'
  BY <1>1 DEF StandInv, Bad, RunsOnce
<1>5. EmitInv'
  <2> SUFFICES ASSUME NEW u \in Tables, NEW q \in Runs, <<u, q>> \in active'
               PROVE  EmitPart(u, q)'
    BY DEF EmitInv
  <2>1. CASE <<u, q>> \in active
    BY <1>1, <2>1 DEF EmitInv, EmitPart, Obsolete, Bad
  <2>2. CASE <<u, q>> \notin active
    <3>1. <<u, q>> = <<t, r>> /\ Emit \in Ids /\ <<u, q>> \in Tables \X Runs
      BY <1>1, <2>2, IdFacts
    <3>2. task[<<u, q>>][Emit] = "none"
      BY <1>1, <3>1 DEF TypeOK
    <3> QED
      BY <1>1, <3>2 DEF EmitPart
  <2> QED
    BY <2>1, <2>2
<1> QED
  BY <1>2, <1>3, <1>4, <1>5

\* A run that ends keeps what its tasks came to, and forgets their tries.
LEMMA EndRunTypes ==
    ASSUME TypeOK, TryInv, NEW t \in Tables, NEW r \in Runs, EndRun(t, r)
    PROVE  TypeOK' /\ TryInv'
<1> DEFINE g == <<t, r>>
<1>1. /\ g \in active /\ active' = active \ {g} /\ ended' = ended \cup {g}
      /\ tries' = [tries EXCEPT ![g] = [id \in Ids |-> 0]]
      /\ UNCHANGED <<dq, signalled, bad, tainted, task, got>>
  BY DEF EndRun, storeVars, dataVars
<1>2. g \in Tables \X Runs
  OBVIOUS
<1>3. active' \cup ended' = active \cup ended
  BY <1>1
<1>4. tries' \in [Tables \X Runs -> [Ids -> 0..MaxTries]] /\ TryInv'
  <2>1. MaxTries \in Nat \ {0}
    BY GroupAssumption
  <2> HIDE DEF g
  <2> QED
    BY <1>1, <1>2, <2>1 DEF TypeOK, TryInv
<1>5. active' \subseteq Tables \X Runs /\ ended' \subseteq Tables \X Runs
  BY <1>1, <1>2 DEF TypeOK
<1> HIDE DEF g
<1> QED
  BY <1>1, <1>3, <1>4, <1>5 DEF TypeOK

LEMMA EndRunStep ==
    ASSUME SqlInv, NEW t \in Tables, NEW r \in Runs, EndRun(t, r)
    PROVE  SqlInv'
<1> USE DEF SqlInv
<1>1. /\ active' = active \ {<<t, r>>} /\ ended' = ended \cup {<<t, r>>} /\ <<t, r>> \in active
      /\ UNCHANGED <<dq, signalled, bad, tainted, task, got>>
  BY DEF EndRun, storeVars, dataVars
<1>3. active' \cup ended' = active \cup ended /\ active' \subseteq active
  BY <1>1
<1>4. TypeOK' /\ TryInv'
  BY EndRunTypes
<1>6. RunInv' /\ SensorInv'
  BY <1>1, <1>3 DEF RunInv, SensorInv
<1>7. VerdictInv'
  <2> SUFFICES ASSUME NEW u \in Tables, NEW q \in Runs, <<u, q>> \in active', NEW c \in Checks[u]
               PROVE  CheckPart(u, q, c)'
    BY DEF VerdictInv, CheckInv
  <2>1. CheckPart(u, q, c)
    BY <1>3 DEF VerdictInv, CheckInv
  <2> QED
    BY <1>1, <2>1 DEF CheckPart, Checked, Verdict
<1>8. StandInv'
  BY <1>1, <1>3 DEF StandInv, Bad, RunsOnce
<1>9. EmitInv'
  BY <1>1, <1>3 DEF EmitInv, EmitPart, Obsolete, Bad
<1> QED
  BY <1>4, <1>6, <1>7, <1>8, <1>9

---------------------------------------------------------------------------
(* Tasks *)

\* Steps that neither change data nor signals.
LEMMA QuietStep ==
    ASSUME SqlInv, NEW t \in Tables, NEW r \in Runs, NEW id, Moved(<<t, r>>, id),
           UNCHANGED <<signalled, bad, tainted>>, dq' \in [Tables -> [CheckNames -> Results]],
           VerdictInv', id = Emit => EmitPart(t, r)',
           \A u \in Tables : \A c \in CheckNames \ Checks[u] : dq'[u][c] = dq[u][c],
           \A s \in Tables : id = <<"wait", s>> => s \in signalled \/ task'[<<t, r>>][id] # "success"
    PROVE  SqlInv'
<1> USE DEF SqlInv
<1>1. TypeOK' /\ TryInv' /\ RunInv'
  <2>1. bad' \in [Tables -> SUBSET CheckNames] /\ signalled' \subseteq Tables /\ tainted' \subseteq Tables
    BY DEF TypeOK
  <2> QED
    BY <2>1, MovedKeeps
<1>2. SensorInv'
  BY MovedSensors
<1>3. StandInv'
  BY MovedStands DEF StandInv, RunsOnce
<1>4. EmitInv'
  BY MovedEmits
<1> QED
  BY <1>1, <1>2, <1>3, <1>4

\* The emitter's own steps.
LEMMA GetDqResultsEmits ==
    ASSUME SqlInv, NEW t \in Tables, NEW r \in Runs, GetDqResults(t, r)
    PROVE  EmitPart(t, r)'
<1>1. task'[<<t, r>>][Emit] = "read" /\ got'[<<t, r>>][Emit] = dq[t] /\ dq' = dq
  BY GetDqResultsMoves DEF SqlInv
<1> QED
  BY <1>1 DEF EmitPart

LEMMA RefuseSignalEmits ==
    ASSUME SqlInv, NEW t \in Tables, NEW r \in Runs, RefuseSignal(t, r)
    PROVE  EmitPart(t, r)'
<1> DEFINE g == <<t, r>>
<1>1. /\ Moved(g, Emit) /\ task[g][Emit] = "read" /\ task'[g][Emit] # "read"
      /\ task'[g][Emit] = "success" => FailedResults(t, r) # {}
      /\ UNCHANGED <<dq, signalled, bad, tainted>>
  BY EmitMoves DEF SqlInv
<1>2. g \in active /\ g \in Tables \X Runs /\ Sql \in Ids /\ Sql # Emit
  BY <1>1, IdFacts DEF Moved
<1>3. ASSUME FailedResults(t, r) # {}
      PROVE  Obsolete(t) \/ (Bad(t) /\ task[g][Sql] = "success")
  <2>1. PICK c \in CheckNames : got[g][Emit][c] = "fail"
    BY <1>3 DEF FailedResults
  <2>2. CASE c \in Checks[t]
    <3>1. CheckPart(t, r, c)
      BY <1>2, <2>2 DEF SqlInv, VerdictInv, CheckInv
    <3>2. Verdict(t, c) = "fail" /\ task[g][Sql] = "success"
      BY <1>1, <2>1, <3>1 DEF CheckPart
    <3> QED
      BY <2>2, <3>2 DEF Verdict, Bad
  <2>3. CASE c \notin Checks[t]
    <3>1. got[g][Emit][c] = dq[t][c]
      BY <1>1, <1>2, <2>3 DEF SqlInv, EmitInv, EmitPart
    <3> QED
      BY <2>1, <2>3, <3>1 DEF Obsolete
  <2> QED
    BY <2>2, <2>3
<1>4. task'[g][Sql] = task[g][Sql]
  BY <1>1, <1>2 DEF Moved
<1> QED
  BY <1>1, <1>3, <1>4 DEF EmitPart, Obsolete, Bad

LEMMA EmitSignalEarned ==
    ASSUME SqlInv, NEW t \in Tables, NEW r \in Runs, EmitSignal(t, r)
    PROVE  /\ ~Bad(t)
           /\ Checks[t] # {} => task[<<t, r>>][Sql] = "success"
<1>1. /\ <<t, r>> \in active /\ task[<<t, r>>][Emit] = "read"
      /\ \A c \in CheckNames : got[<<t, r>>][Emit][c] # "fail"
  BY DEF EmitSignal, Reading, FailedResults
<1>2. ASSUME NEW c \in Checks[t]
      PROVE  c \notin bad[t] /\ task[<<t, r>>][Sql] = "success"
  <2>1. CheckPart(t, r, c)
    BY <1>1 DEF SqlInv, VerdictInv, CheckInv
  <2>2. got[<<t, r>>][Emit][c] = Verdict(t, c) /\ Checked(t, r, c) = "success"
    BY <1>1, <2>1 DEF CheckPart
  <2>3. c \in CheckNames
    BY GroupFacts
  <2> QED
    BY <1>1, <2>1, <2>2, <2>3 DEF Verdict, CheckPart
<1> QED
  BY <1>2 DEF Bad

LEMMA EmitSignalStep ==
    ASSUME SqlInv, NEW t \in Tables, NEW r \in Runs, EmitSignal(t, r)
    PROVE  SqlInv'
<1> USE DEF SqlInv
<1>1. /\ Moved(<<t, r>>, Emit) /\ task'[<<t, r>>][Emit] # "read"
      /\ signalled' = signalled \cup {t} /\ UNCHANGED <<dq, bad, tainted>>
  BY EmitMoves
<1>2. TypeOK' /\ TryInv' /\ RunInv'
  <2>1. bad' \in [Tables -> SUBSET CheckNames] /\ dq' \in [Tables -> [CheckNames -> Results]]
        /\ signalled' \subseteq Tables /\ tainted' \subseteq Tables
    BY <1>1 DEF TypeOK
  <2> QED
    BY <1>1, <2>1, MovedKeeps
<1>3. VerdictInv'
  BY <1>1, IdFacts, OtherVerdicts
<1>4. SensorInv'
  BY <1>1, IdFacts, MovedSensors
<1>5. StandInv'
  <2> SUFFICES ASSUME NEW u \in signalled', RunsOnce(u), Checks[u] # {}
               PROVE  /\ ~Bad(u)'
                      /\ \E q \in Runs : <<u, q>> \in active' \cup ended' /\ task'[<<u, q>>][Sql] = "success"
    BY DEF StandInv, RunsOnce
  <2>1. CASE u \in signalled
    BY <1>1, <2>1, MovedStands
  <2>2. CASE u = t
    <3>1. ~Bad(t) /\ task[<<t, r>>][Sql] = "success"
      BY <2>2, EmitSignalEarned
    <3>2. task'[<<t, r>>][Sql] = "success" /\ <<t, r>> \in active'
      <4>1. <<t, r>> \in Tables \X Runs
        OBVIOUS
      <4> QED
        BY <1>1, <3>1, <4>1, IdFacts DEF Moved
    <3> QED
      BY <1>1, <2>2, <3>1, <3>2 DEF Bad
  <2> QED
    BY <1>1, <2>1, <2>2
<1>6. EmitInv'
  <2>1. EmitPart(t, r)'
    BY <1>1 DEF EmitPart
  <2> QED
    BY <1>1, <2>1, MovedEmits
<1> QED
  BY <1>2, <1>3, <1>4, <1>5, <1>6

LEMMA RunSqlStep ==
    ASSUME SqlInv, NEW t \in Tables, NEW r \in Runs, RunSql(t, r)
    PROVE  SqlInv'
<1> USE DEF SqlInv
<1>1. /\ Moved(<<t, r>>, Sql) /\ task[<<t, r>>][Sql] = "none"
      /\ bad' \in [Tables -> SUBSET CheckNames]
      /\ \A u \in Tables : u # t => bad'[u] = bad[u]
      /\ UNCHANGED <<dq, signalled>>
      /\ tainted' = tainted \/ tainted' = tainted \cup {t}
  BY RunSqlMoves
<1>2. TypeOK' /\ TryInv' /\ RunInv'
  <2>1. dq' \in [Tables -> [CheckNames -> Results]]
        /\ signalled' \subseteq Tables /\ tainted' \subseteq Tables
    BY <1>1 DEF TypeOK
  <2> QED
    BY <1>1, <2>1, MovedKeeps
<1>3. VerdictInv'
  BY RunSqlVerdicts
<1>4. SensorInv'
  BY <1>1, IdFacts, MovedSensors
<1>5. StandInv'
  <2> SUFFICES ASSUME NEW u \in signalled, RunsOnce(u), Checks[u] # {}
               PROVE  /\ ~Bad(u)'
                      /\ \E q \in Runs : <<u, q>> \in active' \cup ended' /\ task'[<<u, q>>][Sql] = "success"
    BY <1>1 DEF StandInv, RunsOnce
  <2>1. u # t
    <3>1. SUFFICES ASSUME u = t PROVE FALSE
      OBVIOUS
    <3>2. PICK q \in Runs : <<t, q>> \in active \cup ended /\ task[<<t, q>>][Sql] = "success"
      BY <3>1 DEF StandInv
    <3>3. q \in RunsOf[t] /\ r \in RunsOf[t]
      BY <1>1, <3>2 DEF RunInv, Moved
    <3>4. q = r
      BY <3>1, <3>3 DEF RunsOnce
    <3> QED
      BY <1>1, <3>2, <3>4
  <2>2. bad'[u] = bad[u]
    BY <1>1, <2>1 DEF TypeOK
  <2> QED
    BY <1>1, <2>2, MovedStands
<1>6. EmitInv'
  BY <1>1, IdFacts, MovedEmits
<1> QED
  BY <1>2, <1>3, <1>4, <1>5, <1>6

\* Types and tries need no assumption on the runs of a group.
LEMMA TypesKept == TypeOK /\ TryInv /\ [Next]_vars => TypeOK' /\ TryInv'
<1> SUFFICES ASSUME TypeOK, TryInv, [Next]_vars PROVE TypeOK' /\ TryInv'
  OBVIOUS
<1>0. /\ bad \in [Tables -> SUBSET CheckNames] /\ dq \in [Tables -> [CheckNames -> Results]]
      /\ signalled \subseteq Tables /\ tainted \subseteq Tables
  BY DEF TypeOK
<1>1. ASSUME NEW t \in Tables, NEW r \in Runs, BeginRun(t, r) PROVE TypeOK' /\ TryInv'
  <2>1. /\ active' = active \cup {<<t, r>>}
        /\ UNCHANGED <<dq, signalled, bad, tainted, ended, task, tries, got>>
    BY <1>1 DEF BeginRun, storeVars, dataVars
  <2> QED
    BY <2>1 DEF TypeOK, TryInv
<1>2. ASSUME NEW t \in Tables, NEW r \in Runs, EndRun(t, r) PROVE TypeOK' /\ TryInv'
  BY <1>2, EndRunTypes
<1>3. ASSUME NEW t \in Tables, NEW r \in Runs, NEW id \in Tasks(t),
             UpstreamFailed(t, r, id) \/ TaskFails(t, r, id)
      PROVE  TypeOK' /\ TryInv'
  <2>1. Moved(<<t, r>>, id) /\ UNCHANGED <<dq, signalled, bad, tainted>>
    BY <1>3, UpstreamFailedMoves, TaskFailsMoves
  <2> QED
    BY <1>0, <2>1, MovedTypes
<1>4. ASSUME NEW t \in Tables, NEW r \in Runs, NEW s \in Sources(t), Poke(t, r, s)
      PROVE  TypeOK' /\ TryInv'
  BY <1>0, <1>4, PokeMoves, MovedTypes
<1>5. ASSUME NEW t \in Tables, NEW r \in Runs, RunSql(t, r) PROVE TypeOK' /\ TryInv'
  <2>1. /\ Moved(<<t, r>>, Sql) /\ bad' \in [Tables -> SUBSET CheckNames]
        /\ UNCHANGED <<dq, signalled>> /\ tainted' \subseteq Tables
    BY <1>0, <1>5, RunSqlMoves
  <2> QED
    BY <1>0, <2>1, MovedTypes
<1>6. ASSUME NEW t \in Tables, NEW r \in Runs, NEW c \in Checks[t],
             RunCheck(t, r, c) \/ WriteDqResult(t, r, c)
      PROVE  TypeOK' /\ TryInv'
  <2>1. /\ Moved(<<t, r>>, <<"dq", c>>) /\ UNCHANGED <<signalled, bad, tainted>>
        /\ dq' \in [Tables -> [CheckNames -> Results]]
    BY <1>0, <1>6, RunCheckMoves, WriteDqResultMoves
  <2> QED
    BY <1>0, <2>1, MovedTypes
<1>7. ASSUME NEW t \in Tables, NEW r \in Runs,
             GetDqResults(t, r) \/ EmitSignal(t, r) \/ RefuseSignal(t, r)
      PROVE  TypeOK' /\ TryInv'
  <2>1. /\ Moved(<<t, r>>, Emit) /\ UNCHANGED <<dq, bad, tainted>>
        /\ signalled' \in {signalled, signalled \cup {t}}
    BY <1>7, GetDqResultsMoves, EmitMoves
  <2>2. signalled' \subseteq Tables
    BY <1>0, <2>1
  <2> QED
    BY <1>0, <2>1, <2>2, MovedTypes
<1>8. CASE UNCHANGED vars
  BY <1>8 DEF TypeOK, TryInv, vars, storeVars, dataVars, airflowVars
<1> QED
  BY <1>1, <1>2, <1>3, <1>4, <1>5, <1>6, <1>7, <1>8 DEF Next, Work

LEMMA SqlBegins == Init => SqlInv
<1> SUFFICES ASSUME Init PROVE SqlInv
  OBVIOUS
<1>1. TypeOK
  <2>1. MaxTries \in Nat \ {0}
    BY GroupAssumption
  <2>2. Nothing \in [CheckNames -> Results]
    BY DEF Nothing, Results
  <2>3. bad \in [Tables -> SUBSET CheckNames] /\ dq \in [Tables -> [CheckNames -> Results]]
    BY DEF Init, Results
  <2>4. /\ task \in [Tables \X Runs -> [Ids -> TaskStates]]
        /\ tries \in [Tables \X Runs -> [Ids -> 0..MaxTries]]
        /\ got \in [Tables \X Runs -> [Ids -> [CheckNames -> Results]]]
    BY <2>1, <2>2 DEF Init, TaskStates
  <2> QED
    BY <2>3, <2>4 DEF Init, TypeOK
<1>2. TryInv
  BY GroupAssumption DEF Init, TryInv
<1>3. RunInv /\ VerdictInv /\ StandInv /\ EmitInv
  BY DEF Init, RunInv, VerdictInv, StandInv, EmitInv
<1>4. SensorInv
  <2> SUFFICES ASSUME NEW t \in Tables, NEW r \in Runs, NEW s \in Tables
               PROVE  task[<<t, r>>][<<"wait", s>>] # "success"
    BY DEF SensorInv
  <2>1. <<t, r>> \in Tables \X Runs /\ <<"wait", s>> \in Ids
    BY IdFacts
  <2> QED
    BY <2>1 DEF Init
<1> QED
  BY <1>1, <1>2, <1>3, <1>4 DEF SqlInv

LEMMA SqlStep == ~Overlap => (SqlInv /\ [Next]_vars => SqlInv')
<1> SUFFICES ASSUME ~Overlap, SqlInv, [Next]_vars PROVE SqlInv'
  OBVIOUS
<1>0. TypeOK /\ TryInv /\ RunInv /\ VerdictInv
  BY DEF SqlInv
<1>1. ASSUME NEW t \in Tables, NEW r \in Runs, Work(t, r) PROVE SqlInv'
  <2>1. CASE BeginRun(t, r)
    BY <2>1, BeginRunStep
  <2>2. CASE EndRun(t, r)
    BY <2>2, EndRunStep
  <2>3. ASSUME NEW id \in Tasks(t), UpstreamFailed(t, r, id) PROVE SqlInv'
    <3>1. /\ Moved(<<t, r>>, id) /\ task'[<<t, r>>][id] = "upstream_failed"
          /\ UNCHANGED <<dq, signalled, bad, tainted>>
      BY <1>0, <2>3, UpstreamFailedMoves
    <3>2. VerdictInv'
      BY <1>0, <3>1, OtherVerdicts
    <3>3. id = Emit => EmitPart(t, r)'
      BY <3>1 DEF EmitPart
    <3> QED
      BY <1>0, <3>1, <3>2, <3>3, QuietStep DEF TypeOK
  <2>4. ASSUME NEW s \in Sources(t), Poke(t, r, s) PROVE SqlInv'
    <3>1. /\ Moved(<<t, r>>, <<"wait", s>>) /\ s \in signalled
          /\ UNCHANGED <<dq, signalled, bad, tainted>>
      BY <1>0, <2>4, PokeMoves
    <3>2. VerdictInv'
      BY <1>0, <3>1, IdFacts, OtherVerdicts
    <3>3. \A u \in Tables : <<"wait", s>> = <<"wait", u>> => u \in signalled
      BY <3>1
    <3> QED
      BY <1>0, <3>1, <3>2, <3>3, IdFacts, QuietStep DEF TypeOK
  <2>5. CASE RunSql(t, r)
    BY <2>5, RunSqlStep
  <2>6. ASSUME NEW c \in Checks[t], RunCheck(t, r, c) PROVE SqlInv'
    <3>1. Moved(<<t, r>>, <<"dq", c>>) /\ UNCHANGED <<dq, signalled, bad, tainted>>
      BY <1>0, <2>6, RunCheckMoves
    <3>2. VerdictInv'
      BY <1>0, <2>6, RunCheckVerdicts
    <3>3. dq' \in [Tables -> [CheckNames -> Results]]
      BY <1>0, <3>1 DEF TypeOK
    <3>4. <<"dq", c>> # Emit /\ \A s : <<"dq", c>> # <<"wait", s>>
      BY IdFacts
    <3> QED
      BY <3>1, <3>2, <3>3, <3>4, QuietStep
  <2>7. ASSUME NEW c \in Checks[t], WriteDqResult(t, r, c) PROVE SqlInv'
    <3>1. /\ Moved(<<t, r>>, <<"dq", c>>) /\ UNCHANGED <<signalled, bad, tainted>>
          /\ dq' \in [Tables -> [CheckNames -> Results]]
          /\ \A u \in Tables : \A d \in CheckNames \ Checks[u] : dq'[u][d] = dq[u][d]
      BY <1>0, <2>7, WriteDqResultMoves
    <3>2. VerdictInv'
      BY <1>0, <2>7, WriteDqResultVerdicts
    <3> QED
      BY <3>1, <3>2, IdFacts, QuietStep
  <2>8. CASE GetDqResults(t, r)
    <3>1. Moved(<<t, r>>, Emit) /\ UNCHANGED <<dq, signalled, bad, tainted>>
      BY <1>0, <2>8, GetDqResultsMoves
    <3>2. VerdictInv'
      BY <1>0, <2>8, GetDqResultsVerdicts
    <3> QED
      BY <1>0, <2>8, <3>1, <3>2, IdFacts, GetDqResultsEmits, QuietStep DEF TypeOK
  <2>9. CASE EmitSignal(t, r)
    BY <2>9, EmitSignalStep
  <2>10. CASE RefuseSignal(t, r)
    <3>1. /\ Moved(<<t, r>>, Emit) /\ task'[<<t, r>>][Emit] # "read"
          /\ UNCHANGED <<dq, signalled, bad, tainted>>
      BY <1>0, <2>10, EmitMoves
    <3>2. VerdictInv'
      BY <1>0, <3>1, IdFacts, OtherVerdicts
    <3> QED
      BY <1>0, <2>10, <3>1, <3>2, IdFacts, RefuseSignalEmits, QuietStep DEF TypeOK
  <2> QED
    BY <1>1, <2>1, <2>2, <2>3, <2>4, <2>5, <2>6, <2>7, <2>8, <2>9, <2>10 DEF Work
<1>2. ASSUME NEW t \in Tables, NEW r \in Runs, NEW id \in Tasks(t), TaskFails(t, r, id) PROVE SqlInv'
  <2>1. /\ Moved(<<t, r>>, id) /\ task'[<<t, r>>][id] \in {"none", "failed"}
        /\ \A c : id = <<"dq", c>> => task[<<t, r>>][id] = "read" \/ task[<<t, r>>][Sql] = "success"
        /\ UNCHANGED <<dq, signalled, bad, tainted>>
    BY <1>0, <1>2, TaskFailsMoves
  <2>2. VerdictInv'
    BY <1>0, <2>1, OtherVerdicts
  <2>3. id = Emit => EmitPart(t, r)'
    BY <2>1 DEF EmitPart
  <2> QED
    BY <1>0, <2>1, <2>2, <2>3, QuietStep DEF TypeOK
<1>3. CASE UNCHANGED vars
  <2>1. UNCHANGED <<dq, signalled, bad, tainted, active, ended, task, tries, got>>
    BY <1>3 DEF vars, storeVars, dataVars, airflowVars
  <2>2. TypeOK' /\ TryInv' /\ RunInv' /\ SensorInv'
    BY <2>1 DEF SqlInv, TypeOK, TryInv, RunInv, SensorInv
  <2>3. VerdictInv' /\ StandInv' /\ EmitInv'
    BY <2>1 DEF SqlInv, VerdictInv, CheckInv, CheckPart, Checked, Verdict, StandInv, RunsOnce, Bad,
                EmitInv, EmitPart, Obsolete
  <2> QED
    BY <2>2, <2>3 DEF SqlInv
<1> QED
  BY <1>1, <1>2, <1>3 DEF Next

LEMMA SqlInvariant == ~Overlap => (Spec => []SqlInv)
<1> SUFFICES ASSUME ~Overlap PROVE Spec => []SqlInv
  OBVIOUS
<1>1. SqlInv /\ [Next]_vars => SqlInv'
  BY SqlStep
<1> QED
  BY <1>1, SqlBegins, PTL DEF Spec

---------------------------------------------------------------------------
(* Theorems *)

\* The types of the state, in which a task that has state belongs to a run that
\* was started and one that may still start has a try left, also when DAG runs
\* of a group overlap.
THEOREM SqlTypeCorrect == Spec => []TypeOK
<1>1. Init => TypeOK /\ TryInv
  BY SqlBegins DEF SqlInv
<1> QED
  BY <1>1, TypesKept, PTL DEF Spec

\* A signal is written only for a table that passes every deployed check,
\* however often the SQL, the checks and the emitter are tried, run after run.
THEOREM SignalsAreEarned == ~Overlap => (Spec => EmissionEarned)
<1> SUFFICES ASSUME ~Overlap PROVE Spec => EmissionEarned
  OBVIOUS
<1>1. SqlInv /\ [Next]_vars => [\A t \in Tables, r \in Runs : EmitSignal(t, r) => ~Bad(t)]_vars
  BY EmitSignalEarned
<1> QED
  BY <1>1, SqlInvariant, PTL DEF Spec, EmissionEarned

\* A run whose tasks all succeeded over a table that passes the deployed checks
\* leaves its signal, unless the failed result of a removed check is stored.
THEOREM PassingRunsDoSignal == ~Overlap => (Spec => PassingRunsSignal)
<1> SUFFICES ASSUME ~Overlap PROVE Spec => PassingRunsSignal
  OBVIOUS
<1> DEFINE Signals ==
      \A t \in Tables, r \in Runs :
        /\ EndRun(t, r) /\ \A id \in Tasks(t) : task[<<t, r>>][id] = "success"
        /\ ~Bad(t) /\ ~Obsolete(t)
        => t \in signalled
<1>1. ASSUME SqlInv, NEW t \in Tables, NEW r \in Runs, EndRun(t, r), ~Bad(t), ~Obsolete(t),
             \A id \in Tasks(t) : task[<<t, r>>][id] = "success"
      PROVE  t \in signalled
  <2>1. <<t, r>> \in active /\ Emit \in Tasks(t)
    BY <1>1 DEF EndRun, Tasks
  <2> QED
    BY <1>1, <2>1 DEF SqlInv, EmitInv, EmitPart
<1>2. SqlInv => Signals
  BY <1>1
<1>3. SqlInv /\ [Next]_vars => [Signals]_vars
  BY <1>2
<1> QED
  BY <1>3, SqlInvariant, PTL DEF Spec, PassingRunsSignal

\* No SQL runs over a source that violates its checks, if the source gets one
\* DAG run in the execution context: a second one finds the first one's signal.
THEOREM NothingIsTainted ==
    ~Overlap /\ (\A t \in Tables : \A s \in Sources(t) : RunsOnce(s)) => (Spec => []NothingTainted)
<1> SUFFICES ASSUME ~Overlap, \A t \in Tables : \A s \in Sources(t) : RunsOnce(s)
             PROVE  Spec => []NothingTainted
  OBVIOUS
<1>1. Init => NothingTainted
  BY DEF Init, NothingTainted
<1>2. ASSUME SqlInv, NothingTainted, NEW t \in Tables, NEW r \in Runs, RunSql(t, r)
      PROVE  NothingTainted'
  <2>1. /\ \A s \in Sources(t) : task[<<t, r>>][<<"wait", s>>] = "success"
        /\ tainted' = tainted \/ (tainted' = tainted \cup {t} /\ \E s \in Sources(t) : Bad(s))
    BY <1>2, RunSqlMoves DEF SqlInv
  <2>2. ASSUME NEW s \in Sources(t) PROVE ~Bad(s)
    <3>1. s \in signalled
      BY <1>2, <2>1, GroupFacts DEF SqlInv, SensorInv
    <3>2. CASE Checks[s] = {}
      BY <3>2 DEF Bad
    <3>3. CASE Checks[s] # {}
      BY <1>2, <3>1, <3>3 DEF SqlInv, StandInv
    <3> QED
      BY <3>2, <3>3
  <2> QED
    BY <1>2, <2>1, <2>2 DEF NothingTainted
<1>3. ASSUME NEW t \in Tables, NEW r \in Runs, Work(t, r), ~RunSql(t, r) PROVE tainted' = tainted
  BY <1>3 DEF Work, BeginRun, EndRun, UpstreamFailed, Poke, RunCheck, WriteDqResult,
              GetDqResults, EmitSignal, RefuseSignal, dataVars
<1>4. ASSUME NEW t \in Tables, NEW r \in Runs, NEW id \in Tasks(t), TaskFails(t, r, id)
      PROVE  tainted' = tainted
  BY <1>4 DEF TaskFails, dataVars
<1>5. UNCHANGED vars => tainted' = tainted
  BY DEF vars, dataVars
<1>6. SqlInv /\ NothingTainted /\ [Next]_vars => NothingTainted'
  BY <1>2, <1>3, <1>4, <1>5 DEF Next, NothingTainted
<1> QED
  BY <1>1, <1>6, SqlInvariant, PTL DEF Spec

\* Where every group has checks and gets one DAG run in the execution context, a
\* signal never stands over data that violates the checks: the strength of the
\* documented promise that a second run takes away (the SQL of a run overwrites
\* the table under the signal of the run before).
THEOREM OneRunKeepsThePromise ==
    ~Overlap /\ (\A t \in Tables : RunsOnce(t) /\ Checks[t] # {}) => (Spec => []NoSignalOverBadData)
<1> SUFFICES ASSUME ~Overlap, \A t \in Tables : RunsOnce(t) /\ Checks[t] # {}
             PROVE  Spec => []NoSignalOverBadData
  OBVIOUS
<1>1. SqlInv => NoSignalOverBadData
  BY DEF SqlInv, StandInv, NoSignalOverBadData, TypeOK
<1> QED
  BY <1>1, SqlInvariant, PTL
=============================================================================
