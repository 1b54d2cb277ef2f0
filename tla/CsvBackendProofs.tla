-------------------------- MODULE CsvBackendProofs --------------------------
(* Safety of CsvBackend, for any number of sessions, whether or not renames  *)
(* fail.                                                                     *)
EXTENDS CsvBackend, TLAPS

\* What is old, or was found old, has been old since it was written; and a copy
\* is complete before its source is unlinked.
FileInv ==
    /\ old \subseteq lapsed
    /\ victim # NoFile => victim \in lapsed
    /\ \A v \in Versions : pc[v] = "unlinking" => v \notin unsaved

\* The published file: whole, or being written by one copy that began it.
WholeInv ==
    ~spoiled =>
        \/ into = {} /\ \E v \in published \cup {Initial} : dest = {v}
        \/ \E v \in Versions : into = {v} /\ dest = {v}

CsvInv == TypeOK /\ FileInv /\ StagedDataKept /\ WholeInv

\* Nothing is staged at first.
LEMMA CsvBegins == Init => CsvInv
BY CsvAssumption DEF Init, CsvInv, TypeOK, FileInv, StagedDataKept, WholeInv, Pcs

\* A step that only moves a session, which is not copying, keeps the invariant,
\* unless it goes to a place of which something is known.
LEMMA OnlyMoves ==
    ASSUME CsvInv, NEW v \in Versions, NEW to \in Pcs \ {"copying", "unlinking"},
           pc' = [pc EXCEPT ![v] = to],
           pc[v] \notin {"discarded", "copying"},
           UNCHANGED <<fileVars, cleanupVars, historyVars>>
    PROVE  CsvInv'
<1>1. TypeOK'
  BY DEF CsvInv, TypeOK, fileVars, cleanupVars, historyVars
<1>2. FileInv'
  BY DEF CsvInv, TypeOK, FileInv, fileVars, cleanupVars, historyVars
<1>3. StagedDataKept'
  BY DEF CsvInv, TypeOK, StagedDataKept, fileVars, cleanupVars, historyVars
<1>4. WholeInv'
  BY DEF CsvInv, WholeInv, fileVars, historyVars
<1> QED
  BY <1>1, <1>2, <1>3, <1>4 DEF CsvInv

\* A session that stops, by an error or by dying, spoils the file it has open.
LEMMA StopStep ==
    ASSUME CsvInv, NEW v \in Versions, NEW to \in {"open", "crashed"},
           pc' = [pc EXCEPT ![v] = to], pc[v] \in {"open", "moving", "copying", "unlinking"},
           Stops(v)
    PROVE  CsvInv'
<1> USE DEF Stops, cleanupVars
<1>1. TypeOK'
  BY DEF CsvInv, TypeOK, Pcs
<1>2. FileInv' /\ StagedDataKept'
  BY DEF CsvInv, TypeOK, FileInv, StagedDataKept
<1>3. WholeInv'
  <2>1. CASE v \in into
    BY <2>1 DEF WholeInv
  <2>2. CASE v \notin into
    <3>1. into' = into /\ spoiled' = spoiled
      BY <2>2 DEF CsvInv, TypeOK
    <3> QED
      BY <3>1 DEF CsvInv, WholeInv
  <2> QED
    BY <2>1, <2>2
<1> QED
  BY <1>1, <1>2, <1>3 DEF CsvInv

\* The steps of a session, and the passing of time.
LEMMA SessionStep ==
    ASSUME CsvInv, NEW v \in Versions, Session(v) \/ GrowOld(v)
    PROVE  CsvInv'
<1> USE DEF CsvInv, TypeOK, FileInv, StagedDataKept, WholeInv, Pcs
<1>1. CASE Create(v) \/ Publish(v) \/ MoveRaises(v)
  <2>1. /\ UNCHANGED <<fileVars, cleanupVars, historyVars>>
        /\ pc[v] \notin {"discarded", "copying"}
        /\ \E to \in {"open", "moving"} : pc' = [pc EXCEPT ![v] = to]
    BY <1>1 DEF Create, Publish, MoveRaises, Goto
  <2> QED
    BY <2>1, OnlyMoves
<1>2. CASE CopyRaises(v) \/ Crash(v)
  <2>1. /\ Stops(v) /\ pc[v] \in {"open", "moving", "copying", "unlinking"}
        /\ \E to \in {"open", "crashed"} : pc' = [pc EXCEPT ![v] = to]
    BY <1>2 DEF CopyRaises, Crash, Goto
  <2> QED
    BY <2>1, StopStep
<1>3. CASE Write(v)
  BY <1>3 DEF Write, cleanupVars
<1>4. CASE GrowOld(v)
  BY <1>4 DEF GrowOld, cleanupVars
<1>5. CASE Rollback(v)
  BY <1>5 DEF Rollback, Goto, Unlink, cleanupVars, historyVars
<1>6. CASE Replace(v)
  BY <1>6 DEF Replace, Goto, Unlink, cleanupVars
<1>7. CASE StartCopy(v)
  <2>1. TypeOK'
    BY <1>7, CsvAssumption DEF StartCopy, Truncated, Goto, cleanupVars
  <2>2. FileInv' /\ StagedDataKept'
    BY <1>7 DEF StartCopy, Goto, cleanupVars
  <2>3. WholeInv'
    BY <1>7 DEF StartCopy, Truncated
  <2> QED
    BY <2>1, <2>2, <2>3
<1>8. CASE EndCopy(v)
  <2>1. TypeOK' /\ FileInv' /\ StagedDataKept'
    BY <1>8 DEF EndCopy, Goto, cleanupVars
  <2>2. WholeInv'
    BY <1>8 DEF EndCopy
  <2> QED
    BY <2>1, <2>2
<1>9. CASE UnlinkSource(v)
  BY <1>9 DEF UnlinkSource, Goto, Unlink, cleanupVars, historyVars
<1> QED
  BY <1>1, <1>2, <1>3, <1>4, <1>5, <1>6, <1>7, <1>8, <1>9 DEF Session

\* The steps of a cleanup: it unlinks nothing but what it has found old.
LEMMA CleanupStep == CsvInv /\ Cleanup => CsvInv'
<1> SUFFICES ASSUME CsvInv, Cleanup PROVE CsvInv'
  OBVIOUS
<1> USE DEF CsvInv, TypeOK, FileInv, StagedDataKept, WholeInv
<1>1. CASE Glob
  BY <1>1 DEF Glob, fileVars, historyVars
<1>2. ASSUME NEW v \in Versions, Stat(v) PROVE CsvInv'
  BY <1>2 DEF Stat, Orphaned, fileVars, historyVars
<1>3. CASE UnlinkOld
  BY <1>3, CsvAssumption DEF UnlinkOld, Unlink, historyVars
<1>4. CASE CleanupRaises
  BY <1>4 DEF CleanupRaises, fileVars, historyVars
<1> QED
  BY <1>1, <1>2, <1>3, <1>4 DEF Cleanup

\* The invariant of the staging directory.
LEMMA CsvInvariant == Spec => []CsvInv
<1>1. CsvInv /\ [Next]_vars => CsvInv'
  <2>1. CsvInv /\ UNCHANGED vars => CsvInv'
    BY DEF vars, fileVars, cleanupVars, historyVars, CsvInv, TypeOK, FileInv, StagedDataKept, WholeInv
  <2> QED
    BY <2>1, SessionStep, CleanupStep DEF Next
<1> QED
  BY <1>1, CsvBegins, PTL DEF Spec

\* Types, and that only copies under way have the published file open.
THEOREM CsvTypeCorrect == Spec => []TypeOK
<1>1. CsvInv => TypeOK
  BY DEF CsvInv
<1> QED
  BY <1>1, CsvInvariant, PTL

\* However sessions copy, raise and die and cleanups run between their steps,
\* what a session has written last is in its file or published, until it
\* discards it, lets it grow old, or has written it between the stat and the
\* unlink of a cleanup (CsvBackend._move, cleanup_staging).
THEOREM StagedDataIsKept == Spec => []StagedDataKept
<1>1. CsvInv => StagedDataKept
  BY DEF CsvInv
<1> QED
  BY <1>1, CsvInvariant, PTL

\* Where no copy is under way, and none was cut short or overlapped another
\* since the last publication began, the published file is one published
\* version as a whole (CsvBackend._move).
THEOREM PublishedIsWhole == Spec => []PublishedWhole
<1>1. CsvInv => PublishedWhole
  BY DEF CsvInv, WholeInv, PublishedWhole
<1> QED
  BY <1>1, CsvInvariant, PTL

---------------------------------------------------------------------------
(* Where the rename works, it keeps the contract of Backend. *)

\* There is no copy, and a session that can still write has not been published.
RenameInv ==
    renames =>
        \A v \in Versions :
            /\ pc[v] \notin {"copying", "unlinking"}
            /\ pc[v] \in {"new", "open", "moving"} => v \notin published

\* A rename ends the session; nothing else publishes.
LEMMA RenameStep == TypeOK /\ RenameInv /\ [Next]_vars => RenameInv'
<1> SUFFICES ASSUME TypeOK, RenameInv, renames, [Next]_vars PROVE RenameInv'
  <2>1. [Next]_vars => renames' = renames
    BY DEF Next, Cleanup, Session, Create, Write, Rollback, Publish, Replace, MoveRaises,
           StartCopy, EndCopy, UnlinkSource, CopyRaises, Crash, Stops, GrowOld, Glob, Stat, UnlinkOld,
           CleanupRaises, fileVars, vars
  <2> QED
    BY <2>1 DEF RenameInv
<1>1. ASSUME NEW v \in Versions, Session(v) PROVE RenameInv'
  <2>1. ASSUME NEW from \in Pcs, NEW to \in Pcs, Goto(v, from, to), published' = published,
               to \notin {"copying", "unlinking"}, from \in {"new", "open", "moving"}
        PROVE  RenameInv'
    BY <2>1 DEF Goto, TypeOK, RenameInv
  <2>2. CASE Create(v) \/ Publish(v) \/ MoveRaises(v) \/ Rollback(v)
    <3>1. /\ published' = published
          /\ \/ Goto(v, "new", "open") \/ Goto(v, "open", "moving")
             \/ Goto(v, "moving", "open") \/ Goto(v, "open", "discarded")
      BY <2>2 DEF Create, Publish, MoveRaises, Rollback, historyVars
    <3> QED
      BY <2>1, <3>1 DEF Pcs
  <2>3. CASE Replace(v)
    BY <2>3 DEF Replace, Goto, TypeOK, RenameInv
  <2>4. CASE Write(v)
    BY <2>4 DEF Write, TypeOK, RenameInv
  <2>5. CASE Crash(v)
    BY <2>5 DEF Crash, Stops, TypeOK, RenameInv
  <2>6. CASE StartCopy(v) \/ EndCopy(v) \/ UnlinkSource(v) \/ CopyRaises(v)
    BY <2>6 DEF StartCopy, EndCopy, UnlinkSource, CopyRaises, Goto, RenameInv
  <2> QED
    BY <1>1, <2>2, <2>3, <2>4, <2>5, <2>6 DEF Session
<1>2. CASE Cleanup \/ (\E v \in Versions : GrowOld(v)) \/ UNCHANGED vars
  <2>1. UNCHANGED <<pc, published>>
    BY <1>2 DEF Cleanup, Glob, Stat, UnlinkOld, CleanupRaises, GrowOld, historyVars, vars
  <2> QED
    BY <2>1 DEF RenameInv
<1> QED
  BY <1>1, <1>2 DEF Next

\* The staging that the contract sees.
Staging == [v \in Versions |-> IF v \in files THEN "fresh" ELSE "absent"]

\* A step that removes one file, or none, and leaves what is published is one
\* that discards a version, or no step.
LEMMA Discards ==
    ASSUME NEW v \in Versions, files' \in {files, files \ {v}}, dest' = dest, published' = published
    PROVE  B!BackendNext \/ UNCHANGED B!backendVars
<1>1. CASE files' = files \ {v}
  <2>1. Staging' = [Staging EXCEPT ![v] = "absent"]
    BY <1>1 DEF Staging
  <2>2. B!DiscardVersion(v)
    BY <2>1 DEF B!DiscardVersion, Staging
  <2> QED
    BY <2>2 DEF B!BackendNext, B!RollbackReturns
<1>2. CASE files' = files
  BY <1>2 DEF B!backendVars
<1> QED
  BY <1>1, <1>2

\* Every step without a copy is one of the contract.
LEMMA RenameRefines ==
    ASSUME TypeOK, RenameInv, renames, Next
    PROVE  B!BackendNext \/ UNCHANGED B!backendVars
<1>1. ASSUME NEW v \in Versions, Write(v)
      PROVE  B!BackendNext \/ UNCHANGED B!backendVars
  <2>1. /\ v \notin published /\ dest' = dest /\ published' = published
        /\ Staging' = [Staging EXCEPT ![v] = "fresh"]
    BY <1>1 DEF Write, RenameInv, Staging
  <2>2. CASE v \in files
    <3>1. B!WriteVersion(v) /\ Staging[v] # "absent"
      BY <2>1, <2>2 DEF B!WriteVersion, Staging
    <3> QED
      BY <3>1 DEF B!BackendNext, Staging
  <2>3. CASE v \notin files
    <3>1. B!CreateVersion(v) /\ Staging[v] = "absent"
      BY <2>1, <2>3 DEF B!CreateVersion, Staging
    <3> QED
      BY <2>1, <3>1 DEF B!BackendNext, Staging
  <2> QED
    BY <2>2, <2>3
<1>2. ASSUME NEW v \in Versions, Replace(v)
      PROVE  B!BackendNext
  <2>1. /\ v \in files /\ files' = files \ {v} /\ dest' = {v} /\ published' = published \cup {v}
    BY <1>2 DEF Replace, Unlink
  <2>2. Staging[v] = "fresh" /\ Staging' = [Staging EXCEPT ![v] = "absent"]
    BY <2>1 DEF Staging
  <2>3. (CHOOSE u \in dest : TRUE)' = v /\ dest' # {Initial}
    BY <2>1, CsvAssumption
  <2>4. B!PublishReturns(v)
    BY <2>1, <2>2, <2>3 DEF B!PublishReturns, B!MakeLive, Staging
  <2> QED
    BY <2>4 DEF B!BackendNext
<1>3. ASSUME NEW v \in Versions,
             \/ Create(v) \/ Rollback(v) \/ Publish(v) \/ MoveRaises(v) \/ StartCopy(v)
             \/ EndCopy(v) \/ UnlinkSource(v) \/ CopyRaises(v) \/ Crash(v) \/ GrowOld(v)
      PROVE  B!BackendNext \/ UNCHANGED B!backendVars
  <2>1. files' \in {files, files \ {v}} /\ dest' = dest /\ published' = published
    BY <1>3 DEF Create, Rollback, Publish, MoveRaises, StartCopy, EndCopy, UnlinkSource,
                CopyRaises, Crash, Stops, GrowOld, Goto, Unlink, RenameInv, fileVars, historyVars
  <2> QED
    BY <2>1, Discards
<1>4. CASE Cleanup
  <2>1. dest' = dest /\ published' = published
    BY <1>4 DEF Cleanup, Glob, Stat, UnlinkOld, CleanupRaises, fileVars, historyVars
  <2>2. files' = files \/ (files' = files \ {victim} /\ victim \in files)
    BY <1>4 DEF Cleanup, Glob, Stat, UnlinkOld, Unlink, CleanupRaises, fileVars
  <2>3. CASE files' = files
    BY <2>1, <2>3 DEF B!backendVars
  <2>4. CASE files' = files \ {victim} /\ victim \in files
    BY <2>1, <2>4, Discards DEF TypeOK
  <2> QED
    BY <2>2, <2>3, <2>4
<1> QED
  BY <1>1, <1>2, <1>3, <1>4 DEF Next, Session

\* Where the rename works CsvBackend keeps to the contract that the sessions are checked
\* and proved against, whatever a cleanup does beside them (os.rename in _move).
THEOREM RenameKeepsContract == Spec => RenamesKeepContract
<1>1. Init => RenameInv
  BY DEF Init, RenameInv
<1>2. TypeOK /\ RenameInv /\ [Next]_vars =>
        [renames => B!BackendNext \/ UNCHANGED B!backendVars]_vars
  BY RenameRefines
<1> QED
  BY <1>1, <1>2, RenameStep, CsvTypeCorrect, PTL DEF Spec, RenamesKeepContract
=============================================================================
