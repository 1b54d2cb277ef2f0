------------------------- MODULE TollkeeperSession -------------------------
(***************************************************************************)
(* core.py: Tollkeeper.table() and the sessions it returns, several of     *)
(* them at once on one table, with the signal store they share.            *)
(*                                                                         *)
(* A session is named by its version reference.  Its phase says where its  *)
(* thread of control is:                                                   *)
(*   unborn       table() has not been called                              *)
(*   open         the client holds the session, no method is running       *)
(*   writeFailed  write(): fn raised, the rollback has not run             *)
(*   auditing     audit(): the old signal is deleted, no check has run     *)
(*   judging      audit(): the checks have run                             *)
(*   unwinding    an exception is leaving the client's code                *)
(*   left         the with block is over                                   *)
(*   gone         the object has been collected                            *)
(*   crashed      the process died                                         *)
(* Methods of one session run in sequence; sessions interleave between any *)
(* two calls to the backend, the checks, the callback or the signal store. *)
(***************************************************************************)
EXTENDS Backend

CONSTANTS
    Ctxs,            \* execution contexts (partitions) of the table
    NoCtx, NoSignal, \* null values
    HasSignalStore,  \* Tollkeeper(backend, signal_store): was one given?
    CatchesErrors,   \* may the client swallow an exception of a method?
    ReusesSession    \* may it write after audit, publish or rollback, or use
                     \* the session after its with block?

ASSUME SessionAssumption ==
    /\ NoCtx \notin Ctxs /\ NoSignal \notin Versions
    /\ HasSignalStore \in BOOLEAN
    /\ CatchesErrors \in BOOLEAN /\ ReusesSession \in BOOLEAN

VARIABLES
    phase,       \* [Versions -> Phases]
    published,   \* the sessions whose _published flag is set
    rolledBack,  \* ... whose _rolled_back flag is set
    audited,     \* ... whose _audited flag is set
    report,      \* [Versions -> SUBSET BOOLEAN]: outcomes in _report.results
    call,        \* the arguments of the audit that is running
    signal,      \* [Ctxs -> Versions \cup {NoSignal}]: who wrote each signal
    refused,     \* history: <<version, ctx>> whose audit raised AuditFailedError
    vouched      \* history: <<version, ctx>> whose latest audit passed

flagVars == <<published, rolledBack, audited, report>>
vars == <<backendVars, phase, flagVars, call, signal, refused, vouched>>

Phases == {"unborn", "open", "writeFailed", "auditing", "judging",
           "unwinding", "left", "gone", "crashed"}
Running == {"open", "writeFailed", "auditing", "judging", "unwinding", "left"}
NoCall == [ctx |-> NoCtx, mode |-> "none"]

Calls == [ctx: Ctxs \cup {NoCtx}, mode: {"none", "stop", "continue"}]

ControlTypeOK ==
    /\ phase \in [Versions -> Phases]
    /\ call \in [Versions -> Calls]
    /\ \A s \in Versions : phase[s] \in {"auditing", "judging"} => call[s].ctx \in Ctxs

TypeOK ==
    /\ BackendTypeOK
    /\ ControlTypeOK
    /\ published \subseteq Versions
    /\ rolledBack \subseteq Versions
    /\ audited \subseteq Versions
    /\ report \in [Versions -> SUBSET BOOLEAN]
    /\ signal \in [Ctxs -> Versions \cup {NoSignal}]
    /\ refused \subseteq Versions \X Ctxs
    /\ vouched \subseteq Versions \X Ctxs

Init ==
    /\ BackendInit
    /\ phase = [s \in Versions |-> "unborn"]
    /\ published = {} /\ rolledBack = {} /\ audited = {}
    /\ report = [s \in Versions |-> {}]
    /\ call = [s \in Versions |-> NoCall]
    /\ signal = [c \in Ctxs |-> NoSignal]
    /\ refused = {}
    /\ vouched = {}

---------------------------------------------------------------------------
(* Control: a method returns to the client, or raises into its code.       *)

Goto(s, p) == phase' = [phase EXCEPT ![s] = p] /\ UNCHANGED call

Finish(s, p) ==
    /\ phase' = [phase EXCEPT ![s] = p]
    /\ call' = [call EXCEPT ![s] = NoCall]

Return(s) == Finish(s, "open")

Raise(s) ==
    \/ Finish(s, "unwinding")
    \/ CatchesErrors /\ Finish(s, "open")

Failed(s) == FALSE \in report[s]      \* CheckReport.failed is not empty

Passed(s) == ~Failed(s)               \* CheckReport.passed

(* Slip: the session is marked, the backend not called.                    *)
MarkOnly(s) == rolledBack' = rolledBack \cup {s} /\ UNCHANGED backendVars

(* The staged version is rolled back and the session marked: only if the   *)
(* backend did not raise, or in a finally clause.                          *)
RollbackThenMark(s) ==
    \/ RollbackReturns(s) /\ rolledBack' = rolledBack \cup {s}
    \/ RollbackRaises(s) /\ UNCHANGED rolledBack

RollbackAndMark(s) ==
    /\ RollbackReturns(s) \/ RollbackRaises(s)
    /\ rolledBack' = rolledBack \cup {s}

---------------------------------------------------------------------------
(* Tollkeeper.table                                                        *)
Table(s) ==
    /\ phase[s] = "unborn"
    /\ CreateVersion(s)
    /\ Goto(s, "open")
    /\ UNCHANGED <<flagVars, signal, refused, vouched>>

(* write                                                                   *)
MayWrite(s) == ReusesSession \/ s \notin (audited \cup published \cup rolledBack)

Write(s) ==
    /\ phase[s] = "open" /\ MayWrite(s)
    /\ WriteVersion(s)
    /\ Return(s)
    /\ UNCHANGED <<flagVars, signal, refused, vouched>>

WriteFails(s) ==      \* fn raised an Exception, possibly half way
    /\ phase[s] = "open" /\ MayWrite(s)
    /\ WriteVersion(s) \/ UNCHANGED backendVars
    /\ Goto(s, "writeFailed")
    /\ UNCHANGED <<flagVars, signal, refused, vouched>>

WriteInterrupted(s) ==    \* fn raised another BaseException: no rollback
    /\ phase[s] = "open" /\ MayWrite(s)
    /\ WriteVersion(s) \/ UNCHANGED backendVars
    /\ Raise(s)
    /\ UNCHANGED <<flagVars, signal, refused, vouched>>

RollbackAfterWrite(s) ==
    /\ phase[s] = "writeFailed"
    /\ RollbackThenMark(s)
    /\ Raise(s)
    /\ UNCHANGED <<published, audited, report, signal, refused, vouched>>

---------------------------------------------------------------------------
(* audit *)

AuditRejected(s) ==   \* on_failure is neither "stop" nor "continue"
    /\ phase[s] = "open"
    /\ Raise(s)
    /\ UNCHANGED <<backendVars, flagVars, signal, refused, vouched>>

(* Slip: the old signal is left standing.                                  *)
DeleteSignalSkipped(s, c) == vouched' = vouched \ {<<s, c>>} /\ UNCHANGED signal

(* Slips: the context of the call is not kept; each audit starts a new     *)
(* report.                                                                 *)
ArgsWithoutCtx(c, mode) == [ctx |-> NoCtx, mode |-> mode]
ReportAnew(s, results) == results

Args(c, mode) == [ctx |-> c, mode |-> mode]
Report(s, results) == report[s] \cup results

(* The signal of this context is deleted before anything is checked.  The  *)
(* deletion may raise before its first commit, or after it (a callback or  *)
(* a dependent's deletion failed).                                         *)
DeleteSignal(s, c) ==
    /\ signal' = IF HasSignalStore THEN [signal EXCEPT ![c] = NoSignal] ELSE signal
    /\ vouched' = vouched \ {<<s, c>>}

AuditBegin(s, c, mode) ==
    /\ phase[s] = "open"
    /\ DeleteSignal(s, c)
    /\ phase' = [phase EXCEPT ![s] = "auditing"]
    /\ call' = [call EXCEPT ![s] = Args(c, mode)]
    /\ UNCHANGED <<backendVars, flagVars, refused>>

AuditBeginRaises(s, c) ==
    /\ phase[s] = "open" /\ HasSignalStore
    /\ DeleteSignal(s, c) \/ UNCHANGED <<signal, vouched>>
    /\ Raise(s)
    /\ UNCHANGED <<backendVars, flagVars, refused>>

(* results.extend(generator) keeps the results of the checks that ran      *)
(* before one raises; _audited is set only after the last.                 *)
RunChecks(s, results) ==
    /\ phase[s] = "auditing"
    /\ report' = [report EXCEPT ![s] = Report(s, results)]
    /\ AssessVersion(s, results, TRUE)
    /\ audited' = audited \cup {s}
    /\ vouched' = IF FALSE \in report'[s] THEN vouched
                  ELSE vouched \cup {<<s, call[s].ctx>>}
    /\ Goto(s, "judging")
    /\ UNCHANGED <<published, rolledBack, signal, refused>>

CheckRaises(s, results) ==
    /\ phase[s] = "auditing"
    /\ report' = [report EXCEPT ![s] = Report(s, results)]
    /\ AssessVersion(s, results, FALSE)
    /\ Raise(s)
    /\ UNCHANGED <<published, rolledBack, audited, signal, refused, vouched>>

NotifyRaises(s) ==
    /\ phase[s] = "judging" /\ Failed(s)
    /\ Raise(s)
    /\ UNCHANGED <<backendVars, flagVars, signal, refused, vouched>>

(* AuditFailedError leaves from the finally clause whatever the rollback   *)
(* did.                                                                    *)
Refuse(s) ==
    /\ phase[s] = "judging" /\ Failed(s) /\ call[s].mode = "stop"
    /\ RollbackAndMark(s)
    /\ refused' = refused \cup {<<s, call[s].ctx>>}
    /\ Raise(s)
    /\ UNCHANGED <<published, audited, report, signal, vouched>>

Waive(s) ==
    /\ phase[s] = "judging" /\ Failed(s) /\ call[s].mode = "continue"
    /\ WaiveVersion(s)
    /\ Return(s)
    /\ UNCHANGED <<flagVars, signal, refused, vouched>>

PassUnsignalled(s) ==
    /\ phase[s] = "judging" /\ Passed(s) /\ ~HasSignalStore
    /\ Return(s)
    /\ UNCHANGED <<backendVars, flagVars, signal, refused, vouched>>

EmitSignal(s) ==
    /\ phase[s] = "judging" /\ Passed(s) /\ HasSignalStore
    /\ signal' = [signal EXCEPT ![call[s].ctx] = s]
    /\ Return(s)
    /\ UNCHANGED <<backendVars, flagVars, refused, vouched>>

EmitRaises(s) ==
    /\ phase[s] = "judging" /\ Passed(s) /\ HasSignalStore
    /\ Raise(s)
    /\ UNCHANGED <<backendVars, flagVars, signal, refused, vouched>>

---------------------------------------------------------------------------
(* publish and rollback *)

(* Slips: one of the two guards of publish is missing.                     *)
MayPublishUnaudited(s) == s \notin rolledBack
MayPublishRolledBack(s) == s \in audited

MayPublish(s) == s \notin rolledBack /\ s \in audited

PublishRejected(s) ==
    /\ phase[s] = "open" /\ ~MayPublish(s)
    /\ Raise(s)
    /\ UNCHANGED <<backendVars, flagVars, signal, refused, vouched>>

Publish(s) ==
    /\ phase[s] = "open" /\ MayPublish(s) /\ s \notin published
    /\ PublishReturns(s)
    /\ published' = published \cup {s}
    /\ Return(s)
    /\ UNCHANGED <<rolledBack, audited, report, signal, refused, vouched>>

PublishFails(s) ==
    /\ phase[s] = "open" /\ MayPublish(s) /\ s \notin published
    /\ PublishRaises(s)
    /\ Raise(s)
    /\ UNCHANGED <<flagVars, signal, refused, vouched>>

RollbackRejected(s) ==
    /\ phase[s] = "open" /\ s \in published
    /\ Raise(s)
    /\ UNCHANGED <<backendVars, flagVars, signal, refused, vouched>>

Rollback(s) ==
    /\ phase[s] = "open" /\ s \notin (published \cup rolledBack)
    /\ \/ RollbackReturns(s) /\ rolledBack' = rolledBack \cup {s} /\ Return(s)
       \/ RollbackRaises(s) /\ UNCHANGED rolledBack /\ Raise(s)
    /\ UNCHANGED <<published, audited, report, signal, refused, vouched>>

---------------------------------------------------------------------------
(* __exit__, __del__ and the death of the process *)

LetGo(s) ==
    IF s \in published \cup rolledBack
    THEN UNCHANGED <<backendVars, rolledBack>>
    ELSE RollbackAndMark(s)

Exit(s) ==
    /\ phase[s] \in {"open", "unwinding"}
    /\ LetGo(s)
    /\ Finish(s, "left") \/ (ReusesSession /\ Return(s))
    /\ UNCHANGED <<published, audited, report, signal, refused, vouched>>

Del(s) ==
    /\ phase[s] \in {"open", "unwinding", "left"}
    /\ LetGo(s)
    /\ Finish(s, "gone")
    /\ UNCHANGED <<published, audited, report, signal, refused, vouched>>

Crash(s) ==
    /\ phase[s] \in Running
    /\ Finish(s, "crashed")
    /\ UNCHANGED <<backendVars, flagVars, signal, refused, vouched>>

---------------------------------------------------------------------------
(* The steps inside a method that has been called: nothing but the code    *)
(* itself stands between them and its return.                              *)
Proceed(s) ==
    \/ RollbackAfterWrite(s)
    \/ \E results \in SUBSET BOOLEAN : RunChecks(s, results) \/ CheckRaises(s, results)
    \/ NotifyRaises(s) \/ Refuse(s) \/ Waive(s)
    \/ PassUnsignalled(s) \/ EmitSignal(s) \/ EmitRaises(s)

Next ==
    \E s \in Versions :
        \/ Table(s) \/ Write(s) \/ WriteFails(s) \/ WriteInterrupted(s)
        \/ AuditRejected(s)
        \/ \E c \in Ctxs : \/ \E m \in {"stop", "continue"} : AuditBegin(s, c, m)
                           \/ AuditBeginRaises(s, c)
        \/ Proceed(s)
        \/ PublishRejected(s) \/ Publish(s) \/ PublishFails(s)
        \/ RollbackRejected(s) \/ Rollback(s)
        \/ Exit(s) \/ Del(s) \/ Crash(s)

Spec == Init /\ [][Next]_vars

(* A running method gets to its end, and a client's scope ends at last.    *)
Fairness == \A s \in Versions : WF_vars(Proceed(s)) /\ SF_vars(Del(s))
FairSpec == Spec /\ Fairness
---------------------------------------------------------------------------
(* Properties *)

\* A client that lets exceptions leave its code and stops writing once it
\* has audited: the usage the README and the docs show.
Careful == ~CatchesErrors /\ ~ReusesSession

\* Production only ever holds content that a completed audit ran on and
\* either passed or, under on_failure="continue", let through: whatever the
\* backend, the checks, the callback or the signal store raise (README:11
\* and :90, core.py publish).
LiveWasChecked == prod.content \in {"clean", "waived"}

\* Once an audit has raised AuditFailedError for a version, no later call,
\* of any client, makes it production, even when discarding the staged
\* version failed (the finally clause of audit, the first guard of publish).
RefusedStaysOut == [][prod' # prod => \A c \in Ctxs : <<prod'.from, c>> \notin refused]_vars

\* A signal that stands belongs to a version whose latest audit in that
\* context passed: re-auditing takes the old signal away before any check
\* runs, and an audit that fails or is cut short does not leave one
\* (audit: the signal is deleted first and written last).
SignalReflectsLastAudit ==
    \A c \in Ctxs : signal[c] # NoSignal => <<signal[c], c>> \in vouched

\* No signal of a version stands in a context in which it was refused, then
\* or later: the failed audit deleted it first, and the report accumulates
\* over a session's audits, so what failed once never signals again
\* (docs/signal-store.md:48).
RefusedUnsignalled == \A s \in Versions, c \in Ctxs : <<s, c>> \in refused => signal[c] # s

\* A session that was dropped leaves nothing staged: published, rolled back,
\* or reclaimed by __exit__ or __del__, over a backend that does what it is
\* asked (write, audit, rollback, __exit__, __del__ taken together).
NoOrphan == \A s \in Versions : phase[s] = "gone" => staging[s] = "absent"

\* What a session stages does not stay staged for ever unless its process
\* dies: it is published or discarded.
StagingReclaimed ==
    \A s \in Versions :
        staging[s] # "absent" ~> (staging[s] = "absent" \/ phase[s] = "crashed")

---------------------------------------------------------------------------
(* The invariants that make the properties inductive. *)

\* What the flags say of the history, and what has not begun.
FlagInv ==
    /\ \A s \in Versions, c \in Ctxs : <<s, c>> \in refused => s \in rolledBack /\ Failed(s)
    /\ published \subseteq everLive
    /\ \A s \in Versions : phase[s] = "unborn" =>
         s \notin (audited \cup rolledBack \cup everLive) /\ staging[s] = "absent"

\* What an audit that is judging knows of the content and the signal.
AuditInv ==
    /\ \A s \in Versions : staging[s] = "dirty" => Failed(s)
    /\ \A s \in Versions : phase[s] = "judging" =>
         /\ staging[s] # "fresh"
         /\ ~Failed(s) => <<s, call[s].ctx>> \in vouched
    /\ \A s \in Versions : phase[s] \in {"auditing", "judging"} => signal[call[s].ctx] # s
    /\ ~HasSignalStore => \A c \in Ctxs : signal[c] = NoSignal

\* A careful client gets back control only over content that was judged, and
\* of a version that is not live behind the session's back.
ClientInv ==
    \A s \in Versions :
        /\ phase[s] = "open" /\ s \in audited /\ s \notin (rolledBack \cup published)
             => staging[s] \notin {"fresh", "dirty"}
        /\ phase[s] \in {"open", "writeFailed", "auditing", "judging"} /\ s \notin published
             => s \notin everLive

SafetyInv ==
    /\ TypeOK /\ FlagInv /\ AuditInv
    /\ SignalReflectsLastAudit /\ RefusedUnsignalled
    /\ Careful => ClientInv /\ LiveWasChecked

---------------------------------------------------------------------------
\* What the session promises to the readers of production.
Fate(s) ==
    CASE phase[s] = "unborn" -> "none"
      [] phase[s] # "unborn" /\ s \in everLive -> "promoted"
      [] phase[s] # "unborn" /\ s \in rolledBack \ everLive -> "withdrawn"
      [] phase[s] # "unborn" /\ s \notin rolledBack \cup everLive ->
           IF staging[s] \in {"clean", "waived"} THEN "approved" ELSE "staged"

P == INSTANCE Promotion WITH live <- prod.from, fate <- [s \in Versions |-> Fate(s)]

\* Sessions implement the abstract promise Promotion: each step of the code
\* is one of its steps or none.
ImplementsPromotion == P!Spec

\* docs/airflow.md:226, docs/getting-started.md:62: a signal is emitted after
\* a successful publish.  Stated of sessions that are over.
FinishedSignalIsPublished ==
    \A s \in Versions, c \in Ctxs :
        phase[s] \in {"gone", "crashed"} /\ signal[c] = s => s \in everLive
=============================================================================
