--------------------------- MODULE IcebergBackend ---------------------------
(***************************************************************************)
(* backends/iceberg.py: a branch per session, created from main's snapshot,*)
(* which publish_version makes main's and then removes.                    *)
(*                                                                         *)
(* A snapshot stands for the set of sessions whose commits are among its   *)
(* ancestors.  Every operation loads the table and then commits; a commit  *)
(* to main asserts that main has not moved since the load (pyiceberg's     *)
(* AssertRefSnapshotId), and other sessions come in between.               *)
(***************************************************************************)
CONSTANTS
    Versions,   \* branch names, one per session
    Initial,    \* the owner of main before any session
    Reliable    \* FALSE: a load or a commit may raise, a process die

ASSUME IcebergAssumption ==
    Initial \notin Versions /\ Reliable \in BOOLEAN

VARIABLES
    main,       \* main's snapshot
    branches,   \* the branches there are
    head,       \* [Versions -> snapshot]: what each of them is at
    pc,         \* [Versions -> Pcs]: where the call of each session is
    held,       \* [Versions -> [main, head]]: the metadata it has loaded
    owner,      \* history: the session that set main last
    promoted,   \* history: the sessions that have set main
    arrived     \* history: what came to main since the session's first load

icebergVars == <<main, branches, head>>
historyVars == <<owner, promoted, arrived>>
vars == <<icebergVars, pc, held, historyVars>>

Pcs == {"new", "creating", "open", "publishing", "unbranching", "discarding",
        "over", "crashed"}

TypeOK ==
    /\ main \subseteq Versions
    /\ branches \subseteq Versions /\ head \in [Versions -> SUBSET Versions]
    /\ pc \in [Versions -> Pcs]
    /\ held \in [Versions -> [main: SUBSET Versions, head: SUBSET Versions]]
    /\ owner \in Versions \cup {Initial} /\ promoted \subseteq Versions
    /\ arrived \in [Versions -> SUBSET Versions]
    /\ \A v \in Versions : /\ pc[v] \in {"new", "creating"} => v \notin branches
                           /\ v \notin branches => head[v] = {}

Init ==
    /\ main = {} /\ branches = {} /\ head = [v \in Versions |-> {}]
    /\ pc = [v \in Versions |-> "new"]
    /\ held = [v \in Versions |-> [main |-> {}, head |-> {}]]
    /\ owner = Initial /\ promoted = {}
    /\ arrived = [v \in Versions |-> {}]

Goto(v, from, to) == pc[v] = from /\ pc' = [pc EXCEPT ![v] = to]
LoadTable(v) == held' = [held EXCEPT ![v] = [main |-> main, head |-> head[v]]]
SetBranch(v, snapshot) ==
    branches' = branches \cup {v} /\ head' = [head EXCEPT ![v] = snapshot]

\* Slips: the branches of all sessions go; the branch starts from the table's
\* oldest snapshot, or from its newest, whichever branch that one is on.
DropAll(v) == branches' = {} /\ head' = [w \in Versions |-> {}]
Oldest(v) == {}
Newest(v) == held[v].main \cup UNION {head[w] : w \in branches}

DropBranch(v) ==
    branches' = branches \ {v} /\ head' = [head EXCEPT ![v] = {}]
CurrentSnapshot(v) == held[v].main

---------------------------------------------------------------------------
(* create_version *)

LoadForCreate(v) ==
    /\ Goto(v, "new", "creating")
    /\ LoadTable(v)
    /\ arrived' = [arrived EXCEPT ![v] = {}]
    /\ UNCHANGED <<icebergVars, owner, promoted>>

\* The branch starts where main was, which may have moved.
CommitCreate(v) ==
    /\ Goto(v, "creating", "open")
    /\ SetBranch(v, CurrentSnapshot(v))
    /\ UNCHANGED <<main, held, historyVars>>

\* The client's write appends to the branch.
Write(v) ==
    /\ pc[v] = "open" /\ v \in branches
    /\ SetBranch(v, head[v] \cup {v})
    /\ UNCHANGED <<main, pc, held, historyVars>>

---------------------------------------------------------------------------
(* publish_version *)

LoadForPublish(v) ==
    /\ Goto(v, "open", "publishing")
    /\ v \in branches
    /\ LoadTable(v)
    /\ UNCHANGED <<icebergVars, historyVars>>

\* set_current_snapshot: main becomes the branch's snapshot, whether or not
\* main is an ancestor of it.
Promote(v) ==
    /\ Goto(v, "publishing", "unbranching")
    /\ main = held[v].main
    /\ main' = held[v].head
    /\ owner' = v /\ promoted' = promoted \cup {v}
    /\ arrived' = [w \in Versions |-> arrived[w] \cup (main' \ main)]
    /\ UNCHANGED <<branches, head, held>>

\* The commit raises: main has moved since the table was loaded.
PromoteConflicts(v) ==
    /\ Goto(v, "publishing", "open")
    /\ main # held[v].main
    /\ UNCHANGED <<icebergVars, held, historyVars>>

RemoveBranch(v) ==
    /\ Goto(v, "unbranching", "over")
    /\ DropBranch(v)
    /\ UNCHANGED <<main, held, historyVars>>

\* publish_version raises, before main has moved or after: the session does
\* not count as published, and may publish again or roll back.
PublishRaises(v) ==
    /\ ~Reliable
    /\ Goto(v, "publishing", "open") \/ Goto(v, "unbranching", "open")
    /\ UNCHANGED <<icebergVars, held, historyVars>>

---------------------------------------------------------------------------
(* rollback_version *)

LoadForRollback(v) ==
    /\ Goto(v, "open", "discarding")
    /\ UNCHANGED <<icebergVars, held, historyVars>>

Discard(v) ==
    /\ Goto(v, "discarding", "over")
    /\ DropBranch(v)
    /\ UNCHANGED <<main, held, historyVars>>

\* An error of remove_branch is swallowed; one of create_version's commit or
\* of rollback_version's load_table ends the session with nothing done.
EndsUndone(v) ==
    /\ ~Reliable
    /\ \E p \in {"creating", "open", "discarding"} : Goto(v, p, "over")
    /\ UNCHANGED <<icebergVars, held, historyVars>>

Crash(v) ==
    /\ ~Reliable
    /\ pc[v] \notin {"new", "over", "crashed"}
    /\ pc' = [pc EXCEPT ![v] = "crashed"]
    /\ UNCHANGED <<icebergVars, held, historyVars>>

---------------------------------------------------------------------------
Next ==
    \E v \in Versions :
        \/ LoadForCreate(v) \/ CommitCreate(v) \/ Write(v)
        \/ LoadForPublish(v) \/ Promote(v) \/ PromoteConflicts(v)
        \/ RemoveBranch(v) \/ PublishRaises(v)
        \/ LoadForRollback(v) \/ Discard(v) \/ EndsUndone(v)
        \/ Crash(v)

Spec == Init /\ [][Next]_vars

---------------------------------------------------------------------------
(* Properties *)

\* A publication drops from production only what arrived there after its own
\* session had loaded the table to create its branch: sessions one after the
\* other lose nothing, whatever fails, is published again or dies.
OnlyConcurrentLost == [][\A v \in Versions : Promote(v) => main \ main' \subseteq arrived[v]]_vars

\* Production never holds a commit of a session that has not published: the
\* branch of a session starts from main, never from what another one has
\* staged, has rolled back or has left behind when it died.
OnlyPublishedLive == main \subseteq promoted

B == INSTANCE Backend WITH
        Reliable <- FALSE,
        staging <- [v \in Versions |-> IF v \in branches THEN "fresh" ELSE "absent"],
        prod <- [from |-> owner, content |-> IF owner = Initial THEN "clean" ELSE "fresh"],
        everLive <- promoted

\* A branch goes only when its own session publishes or rolls back.
OwnBranchesOnly ==
    [][\A v \in branches \ branches' :
         pc[v] \in {"unbranching", "discarding"} /\ pc'[v] = "over"]_vars

\* Interleaved loads and commits, failures between the two commits of a
\* publication and retries included, the backend keeps the contract that
\* sessions are checked against: main only ever becomes a branch that is
\* there, and no other session disturbs a branch.
ImplementsBackend == B!BackendSpec /\ OwnBranchesOnly
=============================================================================
