-------------------------- MODULE DbApiSignalStore --------------------------
(***************************************************************************)
(* signals/dbapi.py: the signal store over a PEP 249 connection, statement *)
(* by statement.  Nothing in it calls rollback(), so that whatever a       *)
(* call that raised has left in the connection's transaction is still      *)
(* there when the next call commits.                                       *)
(*                                                                         *)
(* A row stands for a primary key of one of the three tables.  The         *)
(* database is external, modelled by what the code meets in it: a row      *)
(* changed by an open transaction is locked for the others, an INSERT of a *)
(* key that is there raises, and                                           *)
(*   engine.aborts     after an error every statement raises until rollback*)
(*                     (PostgreSQL)                                        *)
(*   engine.snapshots  the SELECTs of a transaction all see the state that *)
(*                     the first of them saw (MySQL)                       *)
(***************************************************************************)
EXTENDS Integers

CONSTANTS
    Conns,      \* connections, each with its own store object
    Signals,    \* the keys of tollkeeper_signals
    Results,    \* the keys of tollkeeper_dq_results, all of one (table, ctx)
    Pairs,      \* the keys of tollkeeper_signal_deps
    Payloads,   \* what a signal or a result says
    Null,       \* no row
    Engines,    \* the databases: [snapshots: BOOLEAN, aborts: BOOLEAN]
    MaxCalls    \* bound: calls that may change rows

ASSUME DbAssumption ==
    /\ Signals # {} /\ Pairs \subseteq Signals \X Signals
    /\ Signals \cap Results = {} /\ Pairs \cap (Signals \cup Results) = {}
    /\ Null \notin Payloads \cup {"notify", "cascade"}
    /\ Engines \subseteq [snapshots: BOOLEAN, aborts: BOOLEAN]
    /\ MaxCalls \in Nat

Rows == Signals \cup Results \cup Pairs
ValuesOf(r) == IF r \in Pairs THEN {"notify", "cascade"} ELSE Payloads
AllValues == Payloads \cup {"notify", "cascade", Null}

VARIABLES
    engine,     \* which database this is
    db,         \* [Rows -> AllValues]: what is committed
    own,        \* [Conns -> ...]: changes of the open transaction, by row
    pinned,     \* [Conns -> ...]: what its SELECTs see, {} or one state
    broken,     \* the connections whose transaction is aborted
    call,       \* the running call of each connection
    todo,       \* delete(): the dependents its recursion has still to delete
    overtaken,  \* [Conns -> SUBSET Rows]: the rows that others have replaced
                \* while a DELETE waited for them
    calls,      \* how many calls were counted
    spoiled     \* history: [Conns -> SUBSET Rows], what a call that raised
                \* has left changed in the open transaction

txnVars == <<own, pinned, broken, overtaken, spoiled>>
vars == <<engine, db, txnVars, call, todo, calls>>

Ats == {"idle", "delete", "waiting", "insert", "commit", "walk"}
Idle == [op |-> "none", row |-> Null, value |-> Null, at |-> "idle"]
Calls == [op: {"none", "replace", "remove"}, row: Rows \cup {Null}, value: AllValues, at: Ats]

TypeOK ==
    /\ engine \in Engines
    /\ DOMAIN db = Rows /\ \A r \in Rows : db[r] \in ValuesOf(r) \cup {Null}
    /\ \A c \in Conns : /\ DOMAIN own[c] \subseteq Rows
                        /\ \A r \in DOMAIN own[c] : own[c][r] \in ValuesOf(r) \cup {Null}
                        /\ pinned[c] = {} \/ \E d \in pinned[c] : pinned[c] = {d} /\ DOMAIN d = Rows
    /\ broken \subseteq Conns
    /\ call \in [Conns -> Calls]
    /\ todo \in [Conns -> SUBSET Signals]
    /\ overtaken \in [Conns -> SUBSET Rows]
    /\ calls \in 0..MaxCalls
    /\ spoiled \in [Conns -> SUBSET Rows]
    /\ \A c \in Conns : c \notin broken => spoiled[c] \subseteq DOMAIN own[c]

NoChange == [r \in {} |-> Null]

\* _init_schema: the tables are there, and hold what earlier calls wrote.
Init ==
    /\ engine \in Engines
    /\ db \in {d \in [Rows -> AllValues] : \A r \in Rows : d[r] \in ValuesOf(r) \cup {Null}}
    /\ own = [c \in Conns |-> NoChange]
    /\ pinned = [c \in Conns |-> {}]
    /\ broken = {}
    /\ call = [c \in Conns |-> Idle]
    /\ todo = [c \in Conns |-> {}]
    /\ overtaken = [c \in Conns |-> {}]
    /\ calls = 0
    /\ spoiled = [c \in Conns |-> {}]

---------------------------------------------------------------------------
(* What the database does with a statement. *)

Locked(c, r) == \E d \in Conns \ {c} : r \in DOMAIN own[d]
Over(changes, state) ==
    [r \in DOMAIN changes \cup DOMAIN state |-> IF r \in DOMAIN changes THEN changes[r] ELSE state[r]]
Current(c) == Over(own[c], db)
Visible(c) == Over(own[c], IF pinned[c] = {} THEN db ELSE CHOOSE d \in pinned[c] : TRUE)
Select(c) == pinned' = [pinned EXCEPT ![c] = IF engine.snapshots /\ @ = {} THEN {db} ELSE @]

\* Which rows the DELETE of a call names.
Named(c) == IF call[c].op = "remove" /\ call[c].row \in Results THEN Results ELSE {call[c].row}
Waits(c) == \E r \in Named(c) : Locked(c, r)

Goto(c, at) == call' = [call EXCEPT ![c].at = at]

(* The call ends with an exception: the transaction stays open.            *)
Raise(c) ==
    /\ call' = [call EXCEPT ![c] = Idle]
    /\ todo' = [todo EXCEPT ![c] = {}]
    /\ overtaken' = [overtaken EXCEPT ![c] = {}]
    /\ spoiled' = [spoiled EXCEPT ![c] = DOMAIN own'[c]]
    /\ UNCHANGED <<engine, db, calls>>

---------------------------------------------------------------------------
(* write, write_dq_result, register_dep (with a policy that it knows);     *)
(* delete, delete_dq_results                                               *)

Begin(c, op, r, v) ==
    /\ call[c].at = "idle" /\ calls < MaxCalls
    /\ call' = [call EXCEPT ![c] = [op |-> op, row |-> r, value |-> v, at |-> "delete"]]
    /\ calls' = calls + 1
    /\ UNCHANGED <<engine, db, txnVars, todo>>

\* Slip: register_dep takes any policy.
AnyPolicy(r, v) == v \in ValuesOf(r) \/ (r \in Pairs /\ v # Null)

Accepted(r, v) == v \in ValuesOf(r)

Replace(c, r, v) == Accepted(r, v) /\ Begin(c, "replace", r, v)
Remove(c, r) == r \notin Pairs /\ Begin(c, "remove", r, Null)

\* Slip: the transaction is committed between the DELETE and the INSERT.
DeleteCommits(c, missed) ==
    /\ db' = [r \in Rows |-> IF r \in Named(c) \ missed THEN Null ELSE Current(c)[r]]
    /\ own' = [own EXCEPT ![c] = NoChange]

DeleteRows(c, missed) ==
    /\ own' = [own EXCEPT ![c] =
                 Over([r \in {x \in Named(c) \ missed : Current(c)[x] # Null} |-> Null], @)]
    /\ UNCHANGED db

AfterDelete(c) == IF call[c].op = "replace" THEN "insert" ELSE "commit"

Delete(c) ==
    /\ call[c].at = "delete" /\ c \notin broken
    /\ IF Waits(c)
       THEN Goto(c, "waiting") /\ UNCHANGED <<own, db>>
       ELSE Goto(c, AfterDelete(c)) /\ DeleteRows(c, {})
    /\ UNCHANGED <<engine, pinned, broken, overtaken, spoiled, todo, calls>>

\* A DELETE that has waited deletes the rows that are there now, but may miss
\* the successor of a row that it waited for (READ COMMITTED).
DeleteResumes(c) ==
    /\ call[c].at = "waiting" /\ ~Waits(c)
    /\ Goto(c, AfterDelete(c))
    /\ \E missed \in SUBSET overtaken[c] : DeleteRows(c, missed)
    /\ overtaken' = [overtaken EXCEPT ![c] = {}]
    /\ UNCHANGED <<engine, pinned, broken, spoiled, todo, calls>>

Insert(c) ==
    /\ call[c].at = "insert" /\ ~Waits(c)
    /\ Current(c)[call[c].row] = Null
    /\ own' = [own EXCEPT ![c] = Over([r \in {call[c].row} |-> call[c].value], @)]
    /\ Goto(c, "commit")
    /\ UNCHANGED <<engine, db, pinned, broken, overtaken, spoiled, todo, calls>>

\* json.dumps or isoformat raises on the arguments of the INSERT.
BadArguments(c) ==
    /\ call[c].at = "insert"
    /\ UNCHANGED <<own, pinned, broken>>
    /\ Raise(c)

\* A statement raises: the connection is aborted, the key is there, a value
\* is too long, a lock was not to be had.  Only some databases undo the
\* whole transaction then, others the statement.
StatementFails(c) ==
    /\ call[c].at \in {"delete", "waiting", "insert"}
    /\ broken' = IF engine.aborts THEN broken \cup {c} ELSE broken
    /\ \/ UNCHANGED <<own, pinned>>
       \/ ~engine.aborts /\ own' = [own EXCEPT ![c] = NoChange]
          /\ pinned' = [pinned EXCEPT ![c] = {}]
    /\ Raise(c)

\* Slip: delete leaves the commit to somebody else.
ReplaceCommits(c) ==
    IF call[c].op = "replace"
    THEN db' = Current(c) /\ own' = [own EXCEPT ![c] = NoChange]
         /\ spoiled' = [spoiled EXCEPT ![c] = {}]
    ELSE UNCHANGED <<db, own, spoiled>>

Committed(c) ==
    /\ db' = Current(c)
    /\ own' = [own EXCEPT ![c] = NoChange]
    /\ spoiled' = [spoiled EXCEPT ![c] = {}]

\* What another connection's commit replaces of the rows that a DELETE waits for.
Overtakes(c, d) ==
    {r \in Named(d) \cap DOMAIN own[c] : d # c /\ call[d].at = "waiting" /\ own[c][r] # Null}

Commit(c) ==
    /\ call[c].at = "commit"
    /\ Committed(c)
    /\ overtaken' = [d \in Conns |-> overtaken[d] \cup Overtakes(c, d)]
    /\ pinned' = [pinned EXCEPT ![c] = {}]
    /\ IF call[c].op = "remove" /\ call[c].row \in Signals
       THEN Goto(c, "walk")
       ELSE call' = [call EXCEPT ![c] = Idle]
    /\ UNCHANGED <<engine, broken, todo, calls>>

\* commit() raises: the transaction is gone, or is still open (SQLITE_BUSY).
CommitFails(c) ==
    /\ call[c].at = "commit"
    /\ \/ own' = [own EXCEPT ![c] = NoChange] /\ pinned' = [pinned EXCEPT ![c] = {}]
       \/ ~engine.aborts /\ UNCHANGED <<own, pinned>>
    /\ UNCHANGED broken
    /\ Raise(c)

\* Slips: the policy is not looked at; a dependent without a signal is taken
\* to have no dependents.
AnyDownstream(c) == {e[2] : e \in {p \in Pairs : p[1] = call[c].row /\ Visible(c)[p] # Null}}
PresentDownstream(c) ==
    {e[2] : e \in {p \in Pairs : p[1] = call[c].row /\ Visible(c)[p] = "cascade" /\ db[p[2]] # Null}}

\* delete, its own row gone: get_downstream, and on to the next dependent
\* that cascades.
Downstream(c) == {e[2] : e \in {p \in Pairs : p[1] = call[c].row /\ Visible(c)[p] = "cascade"}}

Walk(c) ==
    /\ call[c].at = "walk"
    /\ Select(c)
    /\ LET left == todo[c] \cup Downstream(c) IN
       IF left = {}
       THEN call' = [call EXCEPT ![c] = Idle] /\ UNCHANGED todo
       ELSE \E d \in left : /\ call' = [call EXCEPT ![c].row = d, ![c].at = "delete"]
                            /\ todo' = [todo EXCEPT ![c] = left \ {d}]
    /\ UNCHANGED <<engine, db, own, broken, overtaken, spoiled, calls>>

WalkFails(c) ==      \* the SELECT or the callback raises
    /\ call[c].at = "walk"
    /\ Select(c)
    /\ \/ UNCHANGED broken
       \/ engine.aborts /\ broken' = broken \cup {c}
    /\ UNCHANGED own
    /\ Raise(c)

---------------------------------------------------------------------------
\* check, get_dq_results, get_downstream: a SELECT, and no commit after it.
Read(c) ==
    /\ call[c].at = "idle" /\ c \notin broken
    /\ Select(c)
    /\ UNCHANGED <<engine, db, own, broken, overtaken, spoiled, call, todo, calls>>

\* close, or the death of the process; its successor opens a new connection.
Close(c) ==
    /\ own' = [own EXCEPT ![c] = NoChange]
    /\ pinned' = [pinned EXCEPT ![c] = {}]
    /\ broken' = broken \ {c}
    /\ spoiled' = [spoiled EXCEPT ![c] = {}]
    /\ call' = [call EXCEPT ![c] = Idle]
    /\ todo' = [todo EXCEPT ![c] = {}]
    /\ overtaken' = [overtaken EXCEPT ![c] = {}]
    /\ UNCHANGED <<engine, db, calls>>

Next ==
    \E c \in Conns :
        \/ \E r \in Rows : Remove(c, r) \/ \E v \in AllValues : Replace(c, r, v)
        \/ Delete(c) \/ DeleteResumes(c) \/ Insert(c) \/ BadArguments(c) \/ StatementFails(c)
        \/ Commit(c) \/ CommitFails(c) \/ Walk(c) \/ WalkFails(c)
        \/ Read(c) \/ Close(c)

Spec == Init /\ [][Next]_vars

\* A call that runs goes on; nobody has to fail, to call again or to close.
Onward(c) == Delete(c) \/ DeleteResumes(c) \/ Insert(c) \/ Commit(c) \/ Walk(c)
FairSpec == Spec /\ \A c \in Conns : WF_vars(Onward(c))

---------------------------------------------------------------------------
(* Properties *)

\* A row changes by the commit of a call on it, and to what that call says:
\* nobody ever sees the gap between its DELETE and its INSERT.  The one
\* exception is a row on which an earlier call of the same connection raised:
\* what it left in the transaction, be it the bare DELETE, becomes true with
\* the next commit (write, write_dq_result, register_dep, delete).
OnlyCalledOrSpoiled ==
    [][\A r \in Rows : db'[r] # db[r] =>
         \E c \in Conns :
            /\ call[c].at = "commit"
            /\ r \in spoiled[c] \/ (r \in Named(c) /\ db'[r] = call[c].value)]_vars

\* get_downstream inside delete sees the dependencies that are committed at
\* that moment, also on a connection whose reads have fixed an old snapshot:
\* delete commits before it selects.
WalkIsCurrent == \A c \in Conns : call[c].at = "walk" => Visible(c) = db

\* Who waits for a row gets it, or an error, unless the row is held by a
\* connection that left it behind in a call that raised.
Waiting(c) == call[c].at \in {"waiting", "insert"} /\ Waits(c)

WaitsEnd ==
    \A c \in Conns :
        Waiting(c) ~> (~Waiting(c) \/ \E d \in Conns \ {c} : Named(c) \cap spoiled[d] # {})

\* Nobody waits for somebody who waits: whoever holds the row that a call is
\* waiting for is past its own waits and about to insert or commit, so that no
\* set of calls ever waits in a circle - unless the row is held for no call any
\* more, left behind by one that raised (write, write_dq_result, register_dep,
\* delete: each locks all its rows with its first statement).
HoldersGoOn ==
    \A c, d \in Conns :
        c # d /\ Waiting(c) =>
            \A r \in Named(c) \cap DOMAIN own[d] :
                r \in spoiled[d] \/ (call[d].at \in {"insert", "commit"} /\ ~Waiting(d))
=============================================================================
