------------------------- MODULE SqliteSignalStore -------------------------
(***************************************************************************)
(* signals/sqlite.py: the signal rows, the dependency rows, and delete(),  *)
(* which removes a signal and then walks its dependents: a recursion that  *)
(* commits at every step, so that other connections to the same file write *)
(* signals and register dependencies while it is half way.                 *)
(*                                                                         *)
(* A key stands for one (table_name, execution_ctx).  Each caller has at   *)
(* most one delete() running; its activation records are a stack of        *)
(*   [key, at, todo]                                                       *)
(* with at = "row" before the DELETE, "fetch" before get_downstream, "loop"*)
(* in the for loop, whose remaining rows are todo (in no order: the SELECT *)
(* has none).                                                              *)
(***************************************************************************)
EXTENDS Integers, Sequences

CONSTANTS
    Keys,       \* (table, execution context) pairs
    Callers,    \* connections to the database that call delete()
    HasCallback,    \* was on_delete_callback given?
    Faulty,     \* may the callback or a statement raise?
    MaxDepth,   \* the interpreter's recursion limit, in calls of delete
    MayDepend,  \* bound: the pairs <<upstream, downstream>> ever registered
    MaxChanges  \* bound: registrations once the first calls may have begun

ASSUME StoreAssumption ==
    /\ HasCallback \in BOOLEAN /\ Faulty \in BOOLEAN
    /\ MaxDepth \in Nat \ {0} /\ MaxChanges \in Nat
    /\ Keys # {} /\ MayDepend \subseteq Keys \X Keys

VARIABLES
    signals,    \* the keys that have a row in tollkeeper_signals
    deps,       \* rows <<upstream, downstream, policy>>
    changes,    \* how many registrations were counted
    stack,      \* [Callers -> Seq(Frame)]: delete() activations, top last
    outcome,    \* [Callers -> Outcomes]: how the last call ended
    \* history of the last call of each caller
    root,       \* the key it was called with
    deleted,    \* the keys whose row it deleted
    notified,   \* the <<upstream, downstream>> it called back about
    stable,     \* the dependency rows that stood during the whole call
    seen        \* the dependency rows that stood at some time during it

callVars == <<stack, outcome, root, deleted, notified>>
windowVars == <<stable, seen>>
vars == <<signals, deps, changes, callVars, windowVars>>

Policies == {"notify", "cascade"}
Rows == {<<e[1], e[2], p>> : e \in MayDepend, p \in Policies}
Frames == [key: Keys, at: {"row", "fetch", "loop"}, todo: SUBSET Rows]
Outcomes == {"none", "running", "returned", "recursion", "raised"}

\* The primary key of tollkeeper_signal_deps: one policy for a pair.
KeyedRows(rows) == \A r, q \in rows : r[1] = q[1] /\ r[2] = q[2] => r = q

TypeOK ==
    /\ signals \subseteq Keys
    /\ deps \subseteq Rows /\ KeyedRows(deps)
    /\ changes \in 0..MaxChanges
    /\ stack \in [Callers -> Seq(Frames)]
    /\ \A c \in Callers : Len(stack[c]) <= MaxDepth
    /\ outcome \in [Callers -> Outcomes]
    /\ root \in [Callers -> Keys]
    /\ deleted \in [Callers -> SUBSET Keys]
    /\ notified \in [Callers -> SUBSET MayDepend]
    /\ stable \in [Callers -> SUBSET Rows]
    /\ seen \in [Callers -> SUBSET Rows]

Init ==
    /\ signals \in SUBSET Keys
    /\ deps \in {rows \in SUBSET Rows : KeyedRows(rows)}
    /\ changes = 0
    /\ stack = [c \in Callers |-> <<>>]
    /\ outcome = [c \in Callers |-> "none"]
    /\ root \in [Callers -> {CHOOSE k \in Keys : TRUE}]
    /\ deleted = [c \in Callers |-> {}]
    /\ notified = [c \in Callers |-> {}]
    /\ stable = [c \in Callers |-> {}]
    /\ seen = [c \in Callers |-> {}]

---------------------------------------------------------------------------
(* write: an upsert committed at once.                                     *)
Write(k) ==
    /\ signals' = signals \cup {k}
    /\ UNCHANGED <<deps, changes, callVars, windowVars>>

(* register_dep: INSERT OR REPLACE, committed at once.                     *)
\* Slip: a plain INSERT.
Inserted(u, d, policy) == deps \cup {<<u, d, policy>>}

Replaced(u, d, policy) == {r \in deps : r[1] # u \/ r[2] # d} \cup {<<u, d, policy>>}

RegisterDep(u, d, policy) ==
    /\ changes < MaxChanges
    /\ deps' = Replaced(u, d, policy)
    /\ changes' = changes + 1
    /\ stable' = [c \in Callers |-> stable[c] \cap deps']
    /\ seen' = [c \in Callers |-> seen[c] \cup deps']
    /\ UNCHANGED <<signals, callVars>>

---------------------------------------------------------------------------
(* delete *)

Running(c) == stack[c] # <<>>
Top(c) == stack[c][Len(stack[c])]
SetTop(c, frame) == stack' = [stack EXCEPT ![c][Len(stack[c])] = frame]
Activation(k) == [key |-> k, at |-> "row", todo |-> {}]

Delete(c, k) ==
    /\ ~Running(c)
    /\ stack' = [stack EXCEPT ![c] = <<Activation(k)>>]
    /\ outcome' = [outcome EXCEPT ![c] = "running"]
    /\ root' = [root EXCEPT ![c] = k]
    /\ deleted' = [deleted EXCEPT ![c] = {}]
    /\ notified' = [notified EXCEPT ![c] = {}]
    /\ stable' = [stable EXCEPT ![c] = deps]
    /\ seen' = [seen EXCEPT ![c] = deps]
    /\ UNCHANGED <<signals, deps, changes>>

DeleteRow(c) ==
    /\ Running(c) /\ Top(c).at = "row"
    /\ signals' = signals \ {Top(c).key}
    /\ deleted' = [deleted EXCEPT ![c] = @ \cup {Top(c).key}]
    /\ SetTop(c, [Top(c) EXCEPT !.at = "fetch"])
    /\ UNCHANGED <<deps, changes, outcome, root, notified, windowVars>>

GetDownstream(c) ==
    /\ Running(c) /\ Top(c).at = "fetch"
    /\ SetTop(c, [Top(c) EXCEPT !.at = "loop", !.todo = {r \in deps : r[1] = Top(c).key}])
    /\ UNCHANGED <<signals, deps, changes, outcome, root, deleted, notified, windowVars>>

\* Slip: the loop does not move on.
SameRest(c, r) == Top(c)

Rest(c, r) == [Top(c) EXCEPT !.todo = @ \ {r}]

\* Slips: a dependent without a signal is taken to have no dependents, or not
\* to want to know.
WalkIfPresent(k) == IF k \in signals THEN <<Activation(k)>> ELSE <<>>
CallsBackIfPresent(r) == HasCallback /\ r[2] \in signals

Cascades(r) == r[3] = "cascade"
Walk(k) == <<Activation(k)>>
CallsBack(r) == HasCallback

\* The for loop meets a row with policy "cascade": delete calls itself.
Cascade(c, r) ==
    /\ Running(c) /\ Top(c).at = "loop"
    /\ r \in Top(c).todo /\ Cascades(r)
    /\ Len(stack[c]) < MaxDepth
    /\ stack' = [stack EXCEPT ![c] =
                   Append(SubSeq(@, 1, Len(@) - 1), Rest(c, r)) \o Walk(r[2])]
    /\ UNCHANGED <<signals, deps, changes, outcome, root, deleted, notified, windowVars>>

\* A row with policy "notify": the callback runs, if there is one.
Notify(c, r) ==
    /\ Running(c) /\ Top(c).at = "loop"
    /\ r \in Top(c).todo /\ r[3] = "notify"
    /\ SetTop(c, Rest(c, r))
    /\ notified' = IF CallsBack(r) THEN [notified EXCEPT ![c] = @ \cup {<<r[1], r[2]>>}]
                   ELSE notified
    /\ UNCHANGED <<signals, deps, changes, outcome, root, deleted, windowVars>>

\* The loop is over: this activation returns to the one below.
ReturnUp(c) ==
    /\ Running(c) /\ Top(c).at = "loop" /\ Top(c).todo = {}
    /\ stack' = [stack EXCEPT ![c] = SubSeq(@, 1, Len(@) - 1)]
    /\ outcome' = IF Len(stack[c]) = 1 THEN [outcome EXCEPT ![c] = "returned"] ELSE outcome
    /\ UNCHANGED <<signals, deps, changes, root, deleted, notified, windowVars>>

\* An exception leaves all activations at once.
Unwind(c, how) ==
    /\ stack' = [stack EXCEPT ![c] = <<>>]
    /\ outcome' = [outcome EXCEPT ![c] = how]
    /\ UNCHANGED <<signals, deps, changes, root, deleted, notified, windowVars>>

RecursionError(c) ==
    /\ Running(c) /\ Top(c).at = "loop" /\ Len(stack[c]) = MaxDepth
    /\ \E r \in Top(c).todo : Cascades(r)
    /\ Unwind(c, "recursion")

\* The callback or a statement raises, or the process dies.
Fail(c) ==
    /\ Faulty /\ Running(c)
    /\ Unwind(c, "raised")

---------------------------------------------------------------------------
Advance(c) ==
    \/ DeleteRow(c) \/ GetDownstream(c)
    \/ \E r \in Rows : Cascade(c, r) \/ Notify(c, r)
    \/ ReturnUp(c) \/ RecursionError(c)

Next ==
    \/ \E k \in Keys : Write(k)
    \/ \E e \in MayDepend, p \in Policies : RegisterDep(e[1], e[2], p)
    \/ \E c \in Callers : (\E k \in Keys : Delete(c, k)) \/ Advance(c) \/ Fail(c)

Spec == Init /\ [][Next]_vars

\* A call that runs is not suspended for ever.
FairSpec == Spec /\ \A c \in Callers : WF_vars(Advance(c))

---------------------------------------------------------------------------
(* Properties *)

\* keys is closed under the cascades of rows.
Closed(keys, rows) == \A r \in rows : r[3] = "cascade" /\ r[1] \in keys => r[2] \in keys

Complete(c) == root[c] \in deleted[c] /\ Closed(deleted[c], stable[c])

\* A delete that returns has deleted its key and, transitively, every
\* dependent whose cascade stood during the whole call, whatever others
\* wrote and registered meanwhile (delete, get_downstream).
DeleteIsComplete == \A c \in Callers : outcome[c] = "returned" => Complete(c)

\* It deletes nothing else: only keys that cascades which stood at some time
\* during the call lead to.  Said of every set that is closed under them.
DeleteIsExact ==
    \A c \in Callers : outcome[c] # "none" =>
        \A keys \in SUBSET Keys :
            root[c] \in keys /\ Closed(keys, seen[c]) => deleted[c] \subseteq keys

\* A delete that returns has called back for every dependent to notify of
\* every key it deleted, and about no pair that was never registered so.
NotifyIsComplete ==
    \A c \in Callers : HasCallback /\ outcome[c] = "returned" =>
        /\ \A r \in stable[c] : r[3] = "notify" /\ r[1] \in deleted[c] => <<r[1], r[2]>> \in notified[c]
        /\ \A e \in notified[c] : e[1] \in deleted[c] /\ <<e[1], e[2], "notify">> \in seen[c]

\* Every delete ends.
DeleteEnds == \A c \in Callers : outcome[c] = "running" ~> outcome[c] # "running"

\* Every step is a step of the abstract store, or none: each row that goes is
\* the one of delete's key or of a dependent that cascades from a row it has
\* deleted, every call back is about one, and delete returns when all is done.
Store == INSTANCE SignalStore WITH
    outcome <- [c \in Callers |-> IF outcome[c] = "recursion" THEN "raised" ELSE outcome[c]]

ImplementsStore == Store!Spec
=============================================================================
