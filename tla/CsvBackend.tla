----------------------------- MODULE CsvBackend -----------------------------
(***************************************************************************)
(* backends/csv.py: a staging file per session, moved to the one published *)
(* file of the table, beside cleanup_staging(), which removes the staging  *)
(* files it finds old, whoever they belong to.                             *)
(*                                                                         *)
(* _move renames, and copies where the rename fails: across devices, or on *)
(* any other OSError.  A copy is not atomic.  A file is old when its mtime  *)
(* is before the cutoff.                                                   *)
(***************************************************************************)
CONSTANTS
    Versions,   \* staging paths, one per session
    Initial,    \* the owner of the published file before any session
    NoFile      \* null value

ASSUME CsvAssumption == Initial \notin Versions /\ NoFile \notin Versions

VARIABLES
    renames,    \* does os.rename never fail on a file that is there?
    files,      \* the staging files there are
    old,        \* those of them that are older than the cutoff
    dest,       \* the published file: the sessions whose bytes are in it
    into,       \* the sessions whose copy has that file open
    pc,         \* [Versions -> Pcs]: where the call of each session is
    todo,       \* cleanup: what its glob listed and it has not come to
    victim,     \* cleanup: the file it has found old, or NoFile
    unsaved,    \* history: sessions whose last write is not published to the end
    lapsed,     \* history: ... whose file has been old since its last write, or
                \* was written between the stat and the unlink of a cleanup
    published,  \* history: ... whose file was renamed or copied to the end
    spoiled     \* history: was the published file cut short or copied into by two?

fileVars == <<renames, files, old, dest, into>>
cleanupVars == <<todo, victim>>
historyVars == <<unsaved, lapsed, published, spoiled>>
vars == <<fileVars, pc, cleanupVars, historyVars>>

Pcs == {"new", "open", "moving", "copying", "unlinking", "over", "discarded", "crashed"}

TypeOK ==
    /\ renames \in BOOLEAN /\ spoiled \in BOOLEAN
    /\ files \subseteq Versions /\ old \subseteq files
    /\ dest \subseteq Versions \cup {Initial} /\ dest # {}
    /\ pc \in [Versions -> Pcs]
    /\ into \subseteq {v \in dest \ {Initial} : pc[v] = "copying"}
    /\ todo \subseteq Versions /\ victim \in todo \cup {NoFile}
    /\ unsaved \subseteq Versions /\ lapsed \subseteq Versions /\ published \subseteq Versions

Init ==
    /\ renames \in BOOLEAN /\ spoiled = FALSE
    /\ files = {} /\ old = {} /\ dest = {Initial} /\ into = {}
    /\ pc = [v \in Versions |-> "new"]
    /\ todo = {} /\ victim = NoFile
    /\ unsaved = {} /\ lapsed = {} /\ published = {}

Goto(v, from, to) == pc[v] = from /\ pc' = [pc EXCEPT ![v] = to]

Unlink(v) == files' = files \ {v} /\ old' = old \ {v}

---------------------------------------------------------------------------
(* create_version, the client's write, rollback_version *)

Create(v) ==
    /\ Goto(v, "new", "open")
    /\ UNCHANGED <<fileVars, cleanupVars, historyVars>>

Write(v) ==
    /\ pc[v] = "open"
    /\ files' = files \cup {v} /\ old' = old \ {v}
    /\ unsaved' = unsaved \cup {v}
    /\ lapsed' = IF v = victim THEN lapsed ELSE lapsed \ {v}
    /\ UNCHANGED <<renames, dest, into, pc, cleanupVars, published, spoiled>>

\* max_age_seconds have passed since the last write.
GrowOld(v) ==
    /\ v \in files \ old
    /\ old' = old \cup {v} /\ lapsed' = lapsed \cup {v}
    /\ UNCHANGED <<renames, files, dest, into, pc, cleanupVars, unsaved, published, spoiled>>

Rollback(v) ==      \* missing_ok: a file that is gone is no error
    /\ Goto(v, "open", "discarded")
    /\ Unlink(v)
    /\ UNCHANGED <<renames, dest, into, cleanupVars, historyVars>>

---------------------------------------------------------------------------
(* publish_version *)

Publish(v) ==
    /\ Goto(v, "open", "moving")
    /\ UNCHANGED <<fileVars, cleanupVars, historyVars>>

Replace(v) ==       \* a copy under way goes on in the file that was replaced
    /\ v \in files
    /\ Goto(v, "moving", "over")
    /\ Unlink(v)
    /\ dest' = {v} /\ into' = {}
    /\ unsaved' = unsaved \ {v} /\ published' = published \cup {v} /\ spoiled' = FALSE
    /\ UNCHANGED <<renames, cleanupVars, lapsed>>

\* Slip: the error is swallowed, the session counts as published.
MoveSwallows(v) ==
    /\ v \notin files
    /\ Goto(v, "moving", "over")
    /\ published' = published \cup {v}
    /\ UNCHANGED <<fileVars, cleanupVars, unsaved, lapsed, spoiled>>

\* publish raises before the published file is touched: there is no staging
\* file (neither rename nor copy2 opens it), the directory cannot be made, or
\* the file not be opened.
MoveRaises(v) ==
    /\ Goto(v, "moving", "open")
    /\ UNCHANGED <<fileVars, cleanupVars, historyVars>>

\* Slip: what was published before is not truncated.
Appended(v) == dest \cup {v}

Truncated(v) == into \cup {v}

\* copy2 truncates the published file; other copies go on writing to it.
StartCopy(v) ==
    /\ ~renames /\ v \in files
    /\ Goto(v, "moving", "copying")
    /\ dest' = Truncated(v)
    /\ into' = into \cup {v} /\ spoiled' = (into # {})
    /\ UNCHANGED <<renames, files, old, cleanupVars, unsaved, lapsed, published>>

EndCopy(v) ==
    /\ Goto(v, "copying", "unlinking")
    /\ into' = into \ {v}
    /\ unsaved' = unsaved \ {v} /\ published' = published \cup {v}
    /\ UNCHANGED <<renames, files, old, dest, cleanupVars, lapsed, spoiled>>

UnlinkSource(v) ==
    /\ v \in files
    /\ Goto(v, "unlinking", "over")
    /\ Unlink(v)
    /\ UNCHANGED <<renames, dest, into, cleanupVars, historyVars>>

\* What it has copied so far stays, if the file is still the published one.
Stops(v) ==
    /\ into' = into \ {v} /\ spoiled' = (spoiled \/ v \in into)
    /\ UNCHANGED <<renames, files, old, dest, cleanupVars, unsaved, lapsed, published>>

\* The copy raises part of the way, or cleanup has taken the source: publish
\* raises although the published file has been written to.
CopyRaises(v) ==
    /\ \/ Goto(v, "copying", "open")
       \/ v \notin files /\ Goto(v, "unlinking", "open")
    /\ Stops(v)

Crash(v) ==
    /\ pc[v] \in {"open", "moving", "copying", "unlinking"}
    /\ pc' = [pc EXCEPT ![v] = "crashed"]
    /\ Stops(v)

---------------------------------------------------------------------------
(* cleanup_staging *)

Glob ==
    /\ todo = {} /\ files # {}
    /\ todo' = files
    /\ UNCHANGED <<fileVars, pc, victim, historyVars>>

\* Slips: the age is not looked at; what a dead session has left is kept.
AnyFile(v) == TRUE
OldAndAlive(v) == v \in old /\ pc[v] # "crashed"

Orphaned(v) == v \in old

Stat(v) ==
    /\ victim = NoFile /\ v \in todo \cap files
    /\ IF Orphaned(v) THEN victim' = v /\ UNCHANGED todo
                      ELSE todo' = todo \ {v} /\ UNCHANGED victim
    /\ UNCHANGED <<fileVars, pc, historyVars>>

\* The file may have been written again since its age was looked at.
UnlinkOld ==
    /\ victim \in files
    /\ Unlink(victim)
    /\ todo' = todo \ {victim} /\ victim' = NoFile
    /\ UNCHANGED <<renames, dest, into, pc, historyVars>>

\* A file of the list is gone when it comes to be stat'ed or unlinked:
\* FileNotFoundError ends the whole cleanup.
CleanupRaises ==
    /\ \/ victim = NoFile /\ todo \ files # {}
       \/ victim # NoFile /\ victim \notin files
    /\ todo' = {} /\ victim' = NoFile
    /\ UNCHANGED <<fileVars, pc, historyVars>>

---------------------------------------------------------------------------
Cleanup == Glob \/ (\E v \in Versions : Stat(v)) \/ UnlinkOld \/ CleanupRaises

Session(v) ==
    \/ Create(v) \/ Write(v) \/ Rollback(v) \/ Publish(v) \/ Replace(v)
    \/ MoveRaises(v) \/ StartCopy(v) \/ EndCopy(v) \/ UnlinkSource(v)
    \/ CopyRaises(v) \/ Crash(v)

Next == Cleanup \/ \E v \in Versions : Session(v) \/ GrowOld(v)

Spec == Init /\ [][Next]_vars

\* cleanup_staging is called again and again and gets on, and time passes.
FairSpec == Spec /\ WF_vars(Cleanup) /\ \A v \in Versions : WF_vars(GrowOld(v))

---------------------------------------------------------------------------
(* Properties *)

\* What a session has written last is lost in no other way than by its own
\* rollback, or by growing old before it is written anew: it is in the staging
\* file or was published to the end, whatever is copied, cut short, cleaned up
\* or dies meanwhile (_move copies before it unlinks; cleanup unlinks only what
\* it found old, and may find it rewritten since).
StagedDataKept ==
    \A v \in unsaved \ lapsed : pc[v] # "discarded" => v \in files

\* Once no copy is under way, the published file is the whole of what one
\* session published, or what it was before: also where sessions copy, rename,
\* raise and die in any order.  The exception is a copy cut short, or two that
\* overlap, until the next publication begins (docs/backends.md:42 moves
\* "atomically", line 45 names the copy).
PublishedWhole ==
    into = {} /\ ~spoiled => \E v \in published \cup {Initial} : dest = {v}

\* The staging file of a session that died is removed in the end, by
\* cleanups that other sessions disturb.
OrphansReclaimed ==
    \A v \in Versions : (v \in files /\ pc[v] = "crashed") ~> v \notin files

B == INSTANCE Backend WITH
        Reliable <- FALSE,
        staging <- [v \in Versions |-> IF v \in files THEN "fresh" ELSE "absent"],
        prod <- [from |-> CHOOSE v \in dest : TRUE,
                 content |-> IF dest = {Initial} THEN "clean" ELSE "fresh"],
        everLive <- published

\* Where the rename works every step keeps the contract that sessions are
\* checked against: the published file only ever becomes, at once, a staging
\* file that is there.
RenamesKeepContract ==
    [][renames => B!BackendNext \/ UNCHANGED B!backendVars]_vars
=============================================================================
