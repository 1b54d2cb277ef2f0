---------------------------- MODULE DbApiDeletes ----------------------------
(***************************************************************************)
(* DbApiSignalStore with the history of each connection's last delete():   *)
(* what it was called with, what it has deleted, and which dependencies    *)
(* stood while it ran.  Nothing in the store reads it; it says in what     *)
(* sense the store implements SignalStore.  The callback is left out.      *)
(***************************************************************************)
EXTENDS DbApiSignalStore

VARIABLES
    outcome,    \* [Conns -> {"none", "running", "returned", "raised"}]
    root,       \* the key that delete was called with
    deleted,    \* the keys whose DELETE it has committed, or that a write
                \* has replaced between that DELETE and its commit
    stable,     \* the dependencies committed during the whole call
    seen        \* the dependencies committed at some time during it

histVars == <<outcome, root, deleted, stable, seen>>
hvars == <<vars, histVars>>

Present(state) == {k \in Signals : state[k] # Null}
Registered(state) == {<<p[1], p[2], state[p]>> : p \in {q \in Pairs : state[q] # Null}}
Deleting(c) == call[c].at # "idle" /\ call[c].op = "remove" /\ call[c].row \in Signals

HInit ==
    /\ Init
    /\ outcome = [c \in Conns |-> "none"]
    /\ root = [c \in Conns |-> CHOOSE k \in Signals : TRUE]
    /\ deleted = [c \in Conns |-> {}]
    /\ stable = [c \in Conns |-> {}]
    /\ seen = [c \in Conns |-> {}]

---------------------------------------------------------------------------
\* delete is called.
DeleteCalled(c, k) ==
    /\ outcome' = [outcome EXCEPT ![c] = "running"]
    /\ root' = [root EXCEPT ![c] = k]
    /\ deleted' = [deleted EXCEPT ![c] = {}]
    /\ stable' = [stable EXCEPT ![c] = Registered(db)]
    /\ seen' = [seen EXCEPT ![c] = Registered(db)]

\* What the commit of one connection is to the delete() of another: the write
\* of a key that its DELETE has already looked for.
Replaced(c, d) ==
    {k \in {call[d].row} \cap DOMAIN own[c] :
        d # c /\ call[d].at \in {"waiting", "commit"} /\ own[c][k] # Null}
DeletedBy(c, d) ==
    IF ~Deleting(d) THEN {} ELSE IF d = c THEN {call[d].row} ELSE Replaced(c, d)

DeleteCommitted(c) ==
    /\ deleted' = [d \in Conns |-> deleted[d] \cup DeletedBy(c, d)]
    /\ IF Registered(db)' = Registered(db)
       THEN UNCHANGED <<stable, seen>>
       ELSE /\ stable' = [d \in Conns |-> stable[d] \cap Registered(db)']
            /\ seen' = [d \in Conns |-> seen[d] \cup Registered(db)']
    /\ UNCHANGED <<outcome, root>>

\* The step ends a delete(), if one ran and runs no more.
CallEnds(c, how) ==
    /\ outcome' = [outcome EXCEPT ![c] = IF Deleting(c) /\ ~Deleting(c)' THEN how ELSE @]
    /\ UNCHANGED <<root, deleted, stable, seen>>

HNext ==
    \E c \in Conns :
        \/ \E k \in Signals : Remove(c, k) /\ DeleteCalled(c, k)
        \/ Commit(c) /\ DeleteCommitted(c)
        \/ Walk(c) /\ CallEnds(c, "returned")
        \/ /\ BadArguments(c) \/ StatementFails(c) \/ CommitFails(c) \/ WalkFails(c) \/ Close(c)
           /\ CallEnds(c, "raised")
        \/ /\ \/ \E r \in Rows \ Signals : Remove(c, r)
              \/ \E r \in Rows, v \in AllValues : Replace(c, r, v)
              \/ Delete(c) \/ DeleteResumes(c) \/ Insert(c) \/ Read(c)
           /\ UNCHANGED histVars

HSpec == HInit /\ [][HNext]_hvars
HFairSpec == HSpec /\ \A c \in Conns : WF_vars(Onward(c))

---------------------------------------------------------------------------
(* Properties *)

Store == INSTANCE SignalStore WITH
    Keys <- Signals, Callers <- Conns, HasCallback <- FALSE,
    signals <- Present(db), deps <- Registered(db), notified <- [c \in Conns |-> {}]

\* When delete returns, it has deleted its key and every key that cascading
\* dependencies lead to which stood while it ran, whatever others wrote or
\* registered in the meantime (delete, get_downstream).
DeleteWalksAll ==
    \A c \in Conns : outcome[c] = "returned" =>
        root[c] \in deleted[c] /\ Store!Closed(deleted[c], stable[c])

\* The store keeps the promises of signals/base.py: each commit is one write,
\* one registration or one key of a delete that this delete may take, and
\* everything else is invisible - except for a commit that takes along what an
\* earlier call of its connection left behind when it raised.
ImplementsStoreUnspoiled ==
    /\ Store!Init
    /\ [][\/ Store!Next \/ UNCHANGED Store!vars
          \/ \E c \in Conns : Commit(c) /\ spoiled[c] # {}]_hvars
=============================================================================
