------------------------------ MODULE Backend ------------------------------
(***************************************************************************)
(* The storage contract of one table, as TollkeeperSession uses it through *)
(* the abstract class Backend (backends/base.py): an isolated staged       *)
(* version per session, promoted to production or discarded.               *)
(*                                                                         *)
(* What a version holds is abstracted to what the checks have said of it:  *)
(*   absent   nothing at the version reference                             *)
(*   fresh    written since the last check ran on it                       *)
(*   clean    every check of a completed audit passed on it                *)
(*   dirty    some check failed on it                                      *)
(*   waived   some check failed, and an audit(on_failure="continue")       *)
(*            let it through                                               *)
(***************************************************************************)
CONSTANTS
    Versions,   \* version references handed out by create_version
    Initial,    \* the owner of what production holds before any session
    Reliable    \* FALSE: publish_version and rollback_version may raise or leak

ASSUME BackendAssumption == Initial \notin Versions /\ Reliable \in BOOLEAN

VARIABLES
    staging,    \* [Versions -> Content]: what each reference points at
    prod,       \* the production table: whose version, with which content
    everLive    \* history: the versions that have been production

backendVars == <<staging, prod, everLive>>

Content == {"absent", "fresh", "clean", "dirty", "waived"}

BackendTypeOK ==
    /\ staging \in [Versions -> Content]
    /\ prod \in [from: Versions \cup {Initial}, content: Content \ {"absent"}]
    /\ everLive \subseteq Versions

BackendInit ==
    /\ staging = [v \in Versions |-> "absent"]
    /\ prod = [from |-> Initial, content |-> "clean"]
    /\ everLive = {}

---------------------------------------------------------------------------
(* create_version: a CSV path names no file yet, an Iceberg branch starts  *)
(* as main's snapshot.                                                     *)
CreateVersion(v) ==
    /\ \E c \in {"absent", "fresh"} : staging' = [staging EXCEPT ![v] = c]
    /\ UNCHANGED <<prod, everLive>>

(* The caller's function writes to whatever the reference points at.       *)
WriteVersion(v) ==
    /\ staging' = [staging EXCEPT ![v] = "fresh"]
    /\ UNCHANGED <<prod, everLive>>

(* What the results of an audit say of the content; completed: no check    *)
(* raised.                                                                 *)
AssessVersion(v, results, completed) ==
    /\ staging' = [staging EXCEPT ![v] =
                     CASE @ = "absent" -> "absent"
                       [] @ # "absent" /\ FALSE \in results -> "dirty"
                       [] @ = "fresh" /\ FALSE \notin results /\ completed -> "clean"
                       [] OTHER -> @]
    /\ UNCHANGED <<prod, everLive>>

(* A failed audit that does not stop lets dirty content through.           *)
WaiveVersion(v) ==
    /\ staging' = [staging EXCEPT ![v] = IF @ = "dirty" THEN "waived" ELSE @]
    /\ UNCHANGED <<prod, everLive>>

---------------------------------------------------------------------------
MakeLive(v) ==
    /\ prod' = [from |-> v, content |-> staging[v]]
    /\ everLive' = everLive \cup {v}

PublishReturns(v) ==
    /\ staging[v] # "absent"
    /\ MakeLive(v)
    /\ staging' = [staging EXCEPT ![v] = "absent"]

(* Publishing nothing raises.  A backend may also raise having done        *)
(* nothing, or having replaced production and then failed to remove the    *)
(* staged version (copy2 without unlink, set_current_snapshot without      *)
(* remove_branch).                                                         *)
PublishRaises(v) ==
    \/ /\ ~Reliable \/ staging[v] = "absent"
       /\ UNCHANGED backendVars
    \/ /\ ~Reliable /\ staging[v] # "absent"
       /\ MakeLive(v)
       /\ UNCHANGED staging

DiscardVersion(v) ==
    /\ staging' = [staging EXCEPT ![v] = "absent"]
    /\ UNCHANGED <<prod, everLive>>

(* IcebergBackend swallows the error of remove_branch: the call may return *)
(* and the version still be there.                                         *)
RollbackReturns(v) == DiscardVersion(v) \/ (~Reliable /\ UNCHANGED backendVars)

RollbackRaises(v) == ~Reliable /\ UNCHANGED backendVars

---------------------------------------------------------------------------
(* The contract on its own: what any backend may do to its table, whoever  *)
(* calls it.  CsvBackend and IcebergBackend are shown to keep to it.       *)
BackendNext ==
    \E v \in Versions :
        \/ staging[v] = "absent" /\ v \notin everLive /\ CreateVersion(v)
        \/ staging[v] # "absent" /\ WriteVersion(v)
        \/ PublishReturns(v) \/ PublishRaises(v)
        \/ RollbackReturns(v) \/ RollbackRaises(v)

BackendSpec == BackendInit /\ [][BackendNext]_backendVars
=============================================================================
