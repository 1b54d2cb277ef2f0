------------------------ MODULE IcebergBackendProofs ------------------------
(* Safety of IcebergBackend and its refinement of Backend, for any number of *)
(* sessions, with and without failures.                                      *)
EXTENDS IcebergBackend, TLAPS

\* A session that publishes has a branch and has loaded it as it is; one that
\* has no branch yet has published nothing.
BranchInv ==
    \A v \in Versions :
        /\ pc[v] \in {"publishing", "unbranching"} => v \in branches
        /\ pc[v] = "publishing" => held[v].head = head[v]
        /\ pc[v] \in {"new", "creating"} => v \notin promoted

\* What is in main is in the session's branch (or in what it will start from),
\* or has come to main since the session began.
LineInv ==
    \A v \in Versions :
        /\ pc[v] = "creating" => main \subseteq held[v].main \cup arrived[v]
        /\ v \in branches => main \subseteq head[v] \cup arrived[v]

\* The line of a branch is what has been published, and its session's commits.
PublishedInv ==
    /\ main \subseteq promoted
    /\ \A v \in Versions :
         /\ held[v].main \subseteq promoted
         /\ head[v] \subseteq promoted \cup {v}
         /\ held[v].head \subseteq promoted \cup {v}

IceInv == TypeOK /\ BranchInv /\ LineInv /\ PublishedInv

\* No session has begun.
LEMMA IceBegins == Init => IceInv
BY DEF Init, IceInv, TypeOK, BranchInv, LineInv, PublishedInv, Pcs

\* A step that only moves a session to a place of which nothing is known.
LEMMA OnlyMoves ==
    ASSUME IceInv, NEW v \in Versions,
           NEW to \in {"open", "discarding", "over", "crashed"},
           pc' = [pc EXCEPT ![v] = to],
           UNCHANGED <<icebergVars, held, historyVars>>
    PROVE  IceInv'
BY DEF IceInv, TypeOK, BranchInv, LineInv, PublishedInv, Pcs, icebergVars, historyVars

\* Each load and each commit keeps the invariant.
LEMMA IceStep == IceInv /\ [Next]_vars => IceInv'
<1> SUFFICES ASSUME IceInv, [Next]_vars PROVE IceInv'
  OBVIOUS
<1>1. ASSUME NEW v \in Versions, LoadForCreate(v) PROVE IceInv'
  BY <1>1 DEF LoadForCreate, Goto, LoadTable, IceInv, TypeOK, BranchInv, LineInv, PublishedInv, Pcs, icebergVars
<1>2. ASSUME NEW v \in Versions, CommitCreate(v) PROVE IceInv'
  BY <1>2 DEF CommitCreate, Goto, SetBranch, CurrentSnapshot, IceInv, TypeOK, BranchInv, LineInv,
              PublishedInv, Pcs, historyVars
<1>3. ASSUME NEW v \in Versions, Write(v) PROVE IceInv'
  BY <1>3 DEF Write, SetBranch, IceInv, TypeOK, BranchInv, LineInv, PublishedInv, historyVars
<1>4. ASSUME NEW v \in Versions, LoadForPublish(v) PROVE IceInv'
  BY <1>4 DEF LoadForPublish, Goto, LoadTable, IceInv, TypeOK, BranchInv, LineInv, PublishedInv, Pcs,
              icebergVars, historyVars
<1>5. ASSUME NEW v \in Versions, Promote(v) PROVE IceInv'
  <2>1. TypeOK'
    BY <1>5 DEF Promote, Goto, IceInv, TypeOK, Pcs
  <2>2. BranchInv'
    BY <1>5 DEF Promote, Goto, IceInv, TypeOK, BranchInv
  <2>3. \A w \in Versions : main' \subseteq main \cup arrived'[w] /\ arrived[w] \subseteq arrived'[w]
    BY <1>5 DEF Promote
  <2>4. LineInv'
    BY <1>5, <2>3 DEF Promote, Goto, IceInv, TypeOK, LineInv
  <2>5. PublishedInv'
    BY <1>5 DEF Promote, IceInv, TypeOK, PublishedInv
  <2> QED
    BY <2>1, <2>2, <2>4, <2>5 DEF IceInv
<1>6. ASSUME NEW v \in Versions, RemoveBranch(v) \/ Discard(v) PROVE IceInv'
  <2>1. /\ pc[v] \in {"unbranching", "discarding"} /\ pc' = [pc EXCEPT ![v] = "over"]
        /\ branches' = branches \ {v} /\ head' = [head EXCEPT ![v] = {}]
        /\ UNCHANGED <<main, held, owner, promoted, arrived>>
    BY <1>6 DEF RemoveBranch, Discard, Goto, DropBranch, historyVars
  <2>2. TypeOK'
    BY <2>1 DEF IceInv, TypeOK, Pcs
  <2>3. BranchInv'
    BY <2>1 DEF IceInv, TypeOK, BranchInv
  <2>4. LineInv'
    BY <2>1 DEF IceInv, TypeOK, LineInv
  <2>5. PublishedInv'
    BY <2>1 DEF IceInv, TypeOK, PublishedInv
  <2> QED
    BY <2>2, <2>3, <2>4, <2>5 DEF IceInv
<1>7. ASSUME NEW v \in Versions,
             \/ PromoteConflicts(v) \/ PublishRaises(v) \/ LoadForRollback(v) \/ EndsUndone(v)
             \/ Crash(v)
      PROVE  IceInv'
  <2>1. /\ UNCHANGED <<icebergVars, held, historyVars>>
        /\ \E to \in {"open", "discarding", "over", "crashed"} : pc' = [pc EXCEPT ![v] = to]
    BY <1>7 DEF PromoteConflicts, PublishRaises, LoadForRollback, EndsUndone, Crash, Goto
  <2> QED
    BY <2>1, OnlyMoves
<1>8. CASE UNCHANGED vars
  BY <1>8 DEF vars, icebergVars, historyVars, IceInv, TypeOK, BranchInv, LineInv, PublishedInv
<1> QED
  BY <1>1, <1>2, <1>3, <1>4, <1>5, <1>6, <1>7, <1>8 DEF Next

\* The invariant of the catalog and its sessions.
LEMMA IceInvariant == Spec => []IceInv
BY IceBegins, IceStep, PTL DEF Spec

\* Types, and that a session without a branch has no snapshot.
THEOREM IcebergTypeCorrect == Spec => []TypeOK
<1>1. IceInv => TypeOK
  BY DEF IceInv
<1> QED
  BY <1>1, IceInvariant, PTL

\* A publication drops nothing that was in production before its session began,
\* for any number of sessions, conflicts, retries and deaths
\* (create_version branches from the current snapshot, set_current_snapshot).
THEOREM LosesOnlyConcurrent == Spec => OnlyConcurrentLost
<1>1. IceInv /\ [Next]_vars =>
        [\A v \in Versions : Promote(v) => main \ main' \subseteq arrived[v]]_vars
  <2>1. ASSUME IceInv, NEW v \in Versions, Promote(v) PROVE main \ main' \subseteq arrived[v]
    <3>1. main' = head[v] /\ v \in branches
      BY <2>1 DEF Promote, Goto, IceInv, BranchInv
    <3> QED
      BY <2>1, <3>1 DEF IceInv, LineInv
  <2> QED
    BY <2>1
<1> QED
  BY <1>1, IceInvariant, PTL DEF Spec, OnlyConcurrentLost

\* Production holds nothing but what sessions have published, whatever is
\* staged, rolled back or left behind beside it, for any number of sessions.
THEOREM OnlyPublishedIsLive == Spec => []OnlyPublishedLive
<1>1. IceInv => OnlyPublishedLive
  BY DEF IceInv, PublishedInv, OnlyPublishedLive
<1> QED
  BY <1>1, IceInvariant, PTL

---------------------------------------------------------------------------
(* The contract of Backend *)

\* The staging that the contract sees.
Staging == [v \in Versions |-> IF v \in branches THEN "fresh" ELSE "absent"]

\* Every load and every commit is a step of the contract, or none.
LEMMA IceRefines ==
    ASSUME IceInv, Next
    PROVE  B!BackendNext \/ UNCHANGED B!backendVars
<1>1. ASSUME NEW v \in Versions, CommitCreate(v) PROVE B!BackendNext
  <2>1. /\ v \notin promoted /\ Staging[v] = "absent"
        /\ Staging' = [Staging EXCEPT ![v] = "fresh"]
    BY <1>1 DEF CommitCreate, Goto, SetBranch, IceInv, TypeOK, BranchInv, Staging
  <2>2. B!CreateVersion(v)
    BY <1>1, <2>1 DEF CommitCreate, historyVars, B!CreateVersion, Staging
  <2> QED
    BY <2>1, <2>2 DEF B!BackendNext, Staging
<1>2. ASSUME NEW v \in Versions, Write(v) PROVE B!BackendNext
  <2>1. Staging[v] = "fresh" /\ Staging' = [Staging EXCEPT ![v] = "fresh"]
    BY <1>2 DEF Write, SetBranch, Staging
  <2>2. B!WriteVersion(v)
    BY <1>2, <2>1 DEF Write, historyVars, B!WriteVersion, Staging
  <2> QED
    BY <2>1, <2>2 DEF B!BackendNext, Staging
<1>3. ASSUME NEW v \in Versions, Promote(v) PROVE B!BackendNext
  <2>1. Staging[v] = "fresh" /\ Staging' = Staging
    BY <1>3 DEF Promote, Goto, IceInv, BranchInv, Staging
  <2>2. owner' = v /\ promoted' = promoted \cup {v} /\ v # Initial
    BY <1>3, IcebergAssumption DEF Promote
  <2>3. B!PublishRaises(v)
    BY <2>1, <2>2 DEF B!PublishRaises, B!MakeLive, Staging
  <2> QED
    BY <2>3 DEF B!BackendNext
<1>4. ASSUME NEW v \in Versions, RemoveBranch(v) \/ Discard(v) PROVE B!BackendNext
  <2>1. Staging' = [Staging EXCEPT ![v] = "absent"] /\ UNCHANGED <<owner, promoted>>
    BY <1>4 DEF RemoveBranch, Discard, DropBranch, Staging, historyVars
  <2>2. B!DiscardVersion(v)
    BY <2>1 DEF B!DiscardVersion, Staging
  <2> QED
    BY <2>2 DEF B!BackendNext, B!RollbackReturns
<1>5. ASSUME NEW v \in Versions,
             \/ LoadForCreate(v) \/ LoadForPublish(v) \/ PromoteConflicts(v) \/ PublishRaises(v)
             \/ LoadForRollback(v) \/ EndsUndone(v) \/ Crash(v)
      PROVE  UNCHANGED B!backendVars
  BY <1>5 DEF LoadForCreate, LoadForPublish, PromoteConflicts, PublishRaises, LoadForRollback,
              EndsUndone, Crash, icebergVars, historyVars, B!backendVars
<1> QED
  BY <1>1, <1>2, <1>3, <1>4, <1>5 DEF Next

\* A branch goes by its own session's publication or rollback.
LEMMA OwnBranches ==
    ASSUME IceInv, [Next]_vars
    PROVE  \A v \in branches \ branches' :
             pc[v] \in {"unbranching", "discarding"} /\ pc'[v] = "over"
<1>1. ASSUME NEW v \in Versions, RemoveBranch(v) \/ Discard(v), NEW w \in branches \ branches'
      PROVE  pc[w] \in {"unbranching", "discarding"} /\ pc'[w] = "over"
  <2>1. w = v
    BY <1>1 DEF RemoveBranch, Discard, DropBranch
  <2> QED
    BY <1>1, <2>1 DEF RemoveBranch, Discard, Goto, IceInv, TypeOK
<1>2. ASSUME NEW v \in Versions,
             \/ LoadForCreate(v) \/ CommitCreate(v) \/ Write(v) \/ LoadForPublish(v) \/ Promote(v)
             \/ PromoteConflicts(v) \/ PublishRaises(v) \/ LoadForRollback(v) \/ EndsUndone(v)
             \/ Crash(v)
      PROVE  branches \subseteq branches'
  BY <1>2 DEF LoadForCreate, CommitCreate, Write, LoadForPublish, Promote, PromoteConflicts,
              PublishRaises, LoadForRollback, EndsUndone, Crash, SetBranch, icebergVars
<1>3. UNCHANGED vars => branches' = branches
  BY DEF vars, icebergVars
<1> QED
  BY <1>1, <1>2, <1>3 DEF Next

\* IcebergBackend is a Backend: what is checked and proved of sessions over the
\* contract holds of them over this backend (iceberg.py).
THEOREM IcebergIsBackend == Spec => ImplementsBackend
<1>1. Init => B!BackendInit
  BY IcebergAssumption DEF Init, B!BackendInit
<1>2. IceInv /\ [Next]_vars => [B!BackendNext]_B!backendVars
  <2>1. UNCHANGED vars => UNCHANGED B!backendVars
    BY DEF vars, icebergVars, historyVars, B!backendVars
  <2> QED
    BY <2>1, IceRefines
<1>3. IceInv /\ [Next]_vars =>
        [B!BackendNext]_<<[v \in Versions |-> IF v \in branches THEN "fresh" ELSE "absent"],
                          [from |-> owner,
                           content |-> IF owner = Initial THEN "clean" ELSE "fresh"],
                          promoted>>
  BY <1>2 DEF B!backendVars
<1>4. IceInv /\ [Next]_vars =>
        [\A v \in branches \ branches' :
           pc[v] \in {"unbranching", "discarding"} /\ pc'[v] = "over"]_vars
  BY OwnBranches
<1> QED
  BY <1>1, <1>3, <1>4, IceInvariant, PTL
     DEF Spec, ImplementsBackend, OwnBranchesOnly, B!BackendSpec, B!backendVars
=============================================================================
