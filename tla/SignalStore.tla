---------------------------- MODULE SignalStore ----------------------------
(***************************************************************************)
(* signals/base.py: what a SignalStore promises the sessions and sensors   *)
(* that share it, however it keeps its rows.  A signal is written and a    *)
(* dependency registered in one step.  A delete takes time: it invalidates *)
(* keys and tells of dependents one by one, in any order the cascades      *)
(* allow, while others write and register; it may give up at any point,    *)
(* and returns only when nothing is left to do.                            *)
(*                                                                         *)
(* A key stands for one (table_name, execution_ctx).                       *)
(***************************************************************************)
CONSTANTS
    Keys,
    Callers,        \* each has at most one delete running
    HasCallback     \* was on_delete_callback given?

VARIABLES
    signals,    \* the keys that have a signal
    deps,       \* the dependencies <<upstream, downstream, policy>>
    outcome,    \* [Callers -> Outcomes]: of the last delete
    root,       \* the key it was called with
    deleted,    \* the keys it has invalidated
    notified,   \* the <<upstream, downstream>> it has called back about
    stable,     \* the dependencies that stood during the whole call
    seen        \* the dependencies that stood at some time during it

vars == <<signals, deps, outcome, root, deleted, notified, stable, seen>>

Policies == {"notify", "cascade"}
Dependencies == Keys \X Keys \X Policies
Outcomes == {"none", "running", "returned", "raised"}

\* register_dep declares one policy for a pair of keys.
OnePolicy(rows) == \A r, q \in rows : r[1] = q[1] /\ r[2] = q[2] => r = q

\* keys is closed under the cascades of rows.
Closed(keys, rows) == \A r \in rows : r[3] = "cascade" /\ r[1] \in keys => r[2] \in keys

Running(c) == outcome[c] = "running"

\* The keys the call may invalidate now, and the pairs it may tell of.
Reaches(c, k) ==
    k = root[c] \/ \E r \in seen[c] : r[3] = "cascade" /\ r[1] \in deleted[c] /\ r[2] = k
MayTell(c, u, d) == HasCallback /\ u \in deleted[c] /\ <<u, d, "notify">> \in seen[c]

\* Nothing is left to do.
Done(c) ==
    /\ root[c] \in deleted[c] /\ Closed(deleted[c], stable[c])
    /\ HasCallback =>
         \A r \in stable[c] : r[3] = "notify" /\ r[1] \in deleted[c] => <<r[1], r[2]>> \in notified[c]

Init ==
    /\ signals \in SUBSET Keys
    /\ deps \in {rows \in SUBSET Dependencies : OnePolicy(rows)}
    /\ outcome = [c \in Callers |-> "none"]
    /\ root \in [Callers -> Keys]
    /\ deleted = [c \in Callers |-> {}]
    /\ notified = [c \in Callers |-> {}]
    /\ stable = [c \in Callers |-> {}]
    /\ seen = [c \in Callers |-> {}]

---------------------------------------------------------------------------
(* write.  Deletes that have got to the key may take effect just before,   *)
(* so that they invalidate the signal that was there and not this one.     *)
Write(k, overtaken) ==
    /\ \A c \in overtaken : Running(c) /\ Reaches(c, k)
    /\ signals' = signals \cup {k}
    /\ deleted' = [c \in Callers |-> IF c \in overtaken THEN deleted[c] \cup {k} ELSE deleted[c]]
    /\ UNCHANGED <<deps, outcome, root, notified, stable, seen>>

(* register_dep                                                            *)
RegisterDep(u, d, policy) ==
    /\ deps' = {r \in deps : r[1] # u \/ r[2] # d} \cup {<<u, d, policy>>}
    /\ stable' = [c \in Callers |-> stable[c] \cap deps']
    /\ seen' = [c \in Callers |-> seen[c] \cup deps']
    /\ UNCHANGED <<signals, outcome, root, deleted, notified>>

(* delete                                                                  *)
Delete(c, k) ==
    /\ ~Running(c)
    /\ outcome' = [outcome EXCEPT ![c] = "running"]
    /\ root' = [root EXCEPT ![c] = k]
    /\ deleted' = [deleted EXCEPT ![c] = {}]
    /\ notified' = [notified EXCEPT ![c] = {}]
    /\ stable' = [stable EXCEPT ![c] = deps]
    /\ seen' = [seen EXCEPT ![c] = deps]
    /\ UNCHANGED <<signals, deps>>

Invalidate(c, k) ==
    /\ Running(c) /\ Reaches(c, k)
    /\ signals' = signals \ {k}
    /\ deleted' = [deleted EXCEPT ![c] = @ \cup {k}]
    /\ UNCHANGED <<deps, outcome, root, notified, stable, seen>>

Tell(c, u, d) ==
    /\ Running(c) /\ MayTell(c, u, d)
    /\ notified' = [notified EXCEPT ![c] = @ \cup {<<u, d>>}]
    /\ UNCHANGED <<signals, deps, outcome, root, deleted, stable, seen>>

Return(c) ==
    /\ Running(c) /\ Done(c)
    /\ outcome' = [outcome EXCEPT ![c] = "returned"]
    /\ UNCHANGED <<signals, deps, root, deleted, notified, stable, seen>>

GiveUp(c) ==     \* an exception, or the death of the process
    /\ Running(c)
    /\ outcome' = [outcome EXCEPT ![c] = "raised"]
    /\ UNCHANGED <<signals, deps, root, deleted, notified, stable, seen>>

Next ==
    \/ \E k \in Keys : \E overtaken \in SUBSET Callers : Write(k, overtaken)
    \/ \E u, d \in Keys, p \in Policies : RegisterDep(u, d, p)
    \/ \E c \in Callers :
         \/ \E k \in Keys : Delete(c, k) \/ Invalidate(c, k)
         \/ \E u, d \in Keys : Tell(c, u, d)
         \/ Return(c) \/ GiveUp(c)

Spec == Init /\ [][Next]_vars
=============================================================================
