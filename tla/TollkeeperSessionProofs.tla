---------------------- MODULE TollkeeperSessionProofs ----------------------
(***************************************************************************)
(* Theorems about TollkeeperSession for any set of sessions and contexts,  *)
(* with their proofs.                                                      *)
(***************************************************************************)
EXTENDS TollkeeperSession, TLAPS

(* Every step is a step of one session: the case split the proofs share.   *)
Step(s) ==
    \/ Table(s) \/ Write(s) \/ WriteFails(s) \/ WriteInterrupted(s)
    \/ RollbackAfterWrite(s)
    \/ AuditRejected(s)
    \/ \E c \in Ctxs, m \in {"stop", "continue"} : AuditBegin(s, c, m)
    \/ \E c \in Ctxs : AuditBeginRaises(s, c)
    \/ \E results \in SUBSET BOOLEAN : RunChecks(s, results)
    \/ \E results \in SUBSET BOOLEAN : CheckRaises(s, results)
    \/ NotifyRaises(s) \/ Refuse(s) \/ Waive(s)
    \/ PassUnsignalled(s) \/ EmitSignal(s) \/ EmitRaises(s)
    \/ PublishRejected(s) \/ Publish(s) \/ PublishFails(s)
    \/ RollbackRejected(s) \/ Rollback(s)
    \/ Exit(s) \/ Del(s) \/ Crash(s)

\* Next is the step of some session: the disjuncts of Next, regrouped.
LEMMA NextIsStep == Next => \E s \in Versions : Step(s)
  BY DEF Next, Step, Proceed

\* And a step of some session is a step of Next.
LEMMA NextFromStep == \A s \in Versions : Step(s) => Next
  BY DEF Next, Step, Proceed

---------------------------------------------------------------------------
(* What the backend's operations and the control steps keep.               *)

\* Every backend operation keeps the backend's types.
LEMMA BackendKeepsType ==
  ASSUME BackendTypeOK, NEW v \in Versions, NEW results, NEW completed,
         \/ CreateVersion(v) \/ WriteVersion(v) \/ WaiveVersion(v)
         \/ AssessVersion(v, results, completed)
         \/ PublishReturns(v) \/ PublishRaises(v)
         \/ RollbackReturns(v) \/ RollbackRaises(v)
         \/ UNCHANGED backendVars
  PROVE  BackendTypeOK'
<1> USE DEF BackendTypeOK, Content, backendVars, MakeLive, DiscardVersion
<1>1. CASE CreateVersion(v) \/ WriteVersion(v) \/ WaiveVersion(v)
  BY <1>1 DEF CreateVersion, WriteVersion, WaiveVersion
<1>2. CASE AssessVersion(v, results, completed)
  BY <1>2 DEF AssessVersion
<1>3. CASE PublishReturns(v) \/ PublishRaises(v)
  <2>1. CASE UNCHANGED backendVars
    BY <2>1
  <2>2. CASE MakeLive(v) /\ staging[v] # "absent"
             /\ (staging' = [staging EXCEPT ![v] = "absent"] \/ UNCHANGED staging)
    <3>1. prod' \in [from: Versions \cup {Initial}, content: Content \ {"absent"}]
      BY <2>2
    <3>2. staging' \in [Versions -> Content] /\ everLive' \subseteq Versions
      BY <2>2
    <3> QED
      BY <3>1, <3>2
  <2> QED
    BY <1>3, <2>1, <2>2 DEF PublishReturns, PublishRaises
<1>4. CASE RollbackReturns(v) \/ RollbackRaises(v) \/ UNCHANGED backendVars
  BY <1>4 DEF RollbackReturns, RollbackRaises
<1> QED
  BY <1>1, <1>2, <1>3, <1>4

\* A method that ends, by a return or an exception, leaves no audit running.
LEMMA FinishKeepsType ==
  ASSUME ControlTypeOK, NEW s \in Versions, NEW p \in Phases \ {"auditing", "judging"},
         Finish(s, p)
  PROVE  ControlTypeOK'
<1>1. NoCall \in Calls
  BY DEF NoCall, Calls
<1>2. call' \in [Versions -> Calls]
  BY <1>1 DEF ControlTypeOK, Finish
<1>3. phase' \in [Versions -> Phases]
  BY DEF ControlTypeOK, Finish
<1>4. ASSUME NEW t \in Versions, phase'[t] \in {"auditing", "judging"}
      PROVE  call'[t].ctx \in Ctxs
  BY <1>4 DEF ControlTypeOK, Finish
<1> QED
  BY <1>2, <1>3, <1>4 DEF ControlTypeOK

\* So does Raise, and Return.
LEMMA EndKeepsType ==
  ASSUME ControlTypeOK, NEW s \in Versions, Raise(s) \/ Return(s)
  PROVE  ControlTypeOK'
<1>1. "open" \in Phases \ {"auditing", "judging"}
      /\ "unwinding" \in Phases \ {"auditing", "judging"}
  BY DEF Phases
<1> QED
  BY <1>1, FinishKeepsType DEF Raise, Return

---------------------------------------------------------------------------
\* TypeOK holds at first.
LEMMA TypeInit == Init => TypeOK
  BY SessionAssumption, BackendAssumption
  DEF Init, BackendInit, TypeOK, BackendTypeOK, Content, Phases, NoCall,
      ControlTypeOK, Calls

\* Every step keeps TypeOK.
LEMMA TypeStep == TypeOK /\ [Next]_vars => TypeOK'
<1> SUFFICES ASSUME TypeOK, [Next]_vars PROVE TypeOK'
  OBVIOUS
<1> USE DEF TypeOK, flagVars
<1>1. CASE UNCHANGED vars
  BY <1>1 DEF vars, backendVars, BackendTypeOK, ControlTypeOK
<1>2. CASE Next
  <2>1. PICK s \in Versions : Step(s)
    BY <1>2, NextIsStep
  <2>2. CASE Table(s) \/ WriteFails(s)
    <3>1. BackendTypeOK'
      BY <2>2, BackendKeepsType DEF Table, WriteFails
    <3>2. ControlTypeOK'
      BY <2>2 DEF Table, WriteFails, Goto, ControlTypeOK, Phases
    <3> QED
      BY <2>2, <3>1, <3>2 DEF Table, WriteFails
  <2>3. CASE Write(s) \/ WriteInterrupted(s) \/ Waive(s)
    BY <2>3, BackendKeepsType, EndKeepsType DEF Write, WriteInterrupted, Waive
  <2>4. CASE RollbackAfterWrite(s)
    BY <2>4, BackendKeepsType, EndKeepsType DEF RollbackAfterWrite, RollbackThenMark
  <2>5. CASE AuditRejected(s) \/ NotifyRaises(s) \/ PassUnsignalled(s) \/ EmitRaises(s)
             \/ PublishRejected(s) \/ RollbackRejected(s)
    BY <2>5, BackendKeepsType, EndKeepsType
    DEF AuditRejected, NotifyRaises, PassUnsignalled, EmitRaises, PublishRejected,
        RollbackRejected
  <2>6. ASSUME NEW c \in Ctxs, NEW m \in {"stop", "continue"}, AuditBegin(s, c, m)
        PROVE  TypeOK'
    <3>1. [ctx |-> c, mode |-> m] \in Calls
      BY DEF Calls
    <3>2. call' \in [Versions -> Calls] /\ phase' \in [Versions -> Phases]
      BY <2>6, <3>1 DEF AuditBegin, ControlTypeOK, Phases, Args
    <3>3. ASSUME NEW t \in Versions, phase'[t] \in {"auditing", "judging"}
          PROVE  call'[t].ctx \in Ctxs
      BY <2>6, <3>3 DEF AuditBegin, ControlTypeOK, Args
    <3>4. ControlTypeOK'
      BY <3>2, <3>3 DEF ControlTypeOK
    <3>5. BackendTypeOK'
      BY <2>6, BackendKeepsType DEF AuditBegin
    <3> QED
      BY <2>6, <3>4, <3>5 DEF AuditBegin, DeleteSignal
  <2>7. ASSUME NEW c \in Ctxs, AuditBeginRaises(s, c)
        PROVE  TypeOK'
    <3>1. ControlTypeOK' /\ BackendTypeOK'
      BY <2>7, BackendKeepsType, EndKeepsType DEF AuditBeginRaises
    <3> QED
      BY <2>7, <3>1 DEF AuditBeginRaises, DeleteSignal
  <2>8. ASSUME NEW results \in SUBSET BOOLEAN, RunChecks(s, results)
        PROVE  TypeOK'
    <3>1. BackendTypeOK'
      BY <2>8, BackendKeepsType DEF RunChecks
    <3>2. ControlTypeOK'
      BY <2>8 DEF RunChecks, Goto, ControlTypeOK, Phases
    <3>3. vouched' \subseteq Versions \X Ctxs
      <4>1. call[s].ctx \in Ctxs
        BY <2>8 DEF RunChecks, ControlTypeOK
      <4>2. vouched' \subseteq vouched \cup {<<s, call[s].ctx>>}
        BY <2>8 DEF RunChecks
      <4> QED
        BY <4>1, <4>2
    <3>4. report' \in [Versions -> SUBSET BOOLEAN]
      BY <2>8 DEF RunChecks, Report
    <3> QED
      BY <2>8, <3>1, <3>2, <3>3, <3>4 DEF RunChecks
  <2>9. ASSUME NEW results \in SUBSET BOOLEAN, CheckRaises(s, results)
        PROVE  TypeOK'
    <3>1. ControlTypeOK' /\ BackendTypeOK'
      BY <2>9, BackendKeepsType, EndKeepsType DEF CheckRaises
    <3>2. report' \in [Versions -> SUBSET BOOLEAN]
      BY <2>9 DEF CheckRaises, Report
    <3> QED
      BY <2>9, <3>1, <3>2 DEF CheckRaises
  <2>10. CASE Refuse(s)
    <3>1. <<s, call[s].ctx>> \in Versions \X Ctxs
      BY <2>10 DEF Refuse, ControlTypeOK, RollbackAndMark
    <3>2. ControlTypeOK' /\ BackendTypeOK'
      BY <2>10, BackendKeepsType, EndKeepsType DEF Refuse, RollbackAndMark
    <3> QED
      BY <2>10, <3>1, <3>2 DEF Refuse, RollbackAndMark
  <2>11. CASE EmitSignal(s)
    BY <2>11, BackendKeepsType, EndKeepsType DEF EmitSignal
  <2>12. CASE Publish(s) \/ PublishFails(s)
    BY <2>12, BackendKeepsType, EndKeepsType DEF Publish, PublishFails
  <2>13. CASE Rollback(s)
    BY <2>13, BackendKeepsType, EndKeepsType DEF Rollback
  <2>14. CASE Exit(s) \/ Del(s) \/ Crash(s)
    <3>1. ControlTypeOK'
      BY <2>14, FinishKeepsType DEF Exit, Del, Crash, Return, Phases
    <3>2. BackendTypeOK'
      BY <2>14, BackendKeepsType DEF Exit, Del, Crash, LetGo, backendVars, RollbackAndMark
    <3> QED
      BY <2>14, <3>1, <3>2 DEF Exit, Del, Crash, LetGo, RollbackAndMark
  <2> QED
    BY <2>1, <2>2, <2>3, <2>4, <2>5, <2>6, <2>7, <2>8, <2>9, <2>10, <2>11, <2>12,
       <2>13, <2>14 DEF Step
<1> QED
  BY <1>1, <1>2

\* Every variable keeps its type, whatever the client and the backend do.
THEOREM TypeCorrect == Spec => []TypeOK
  BY TypeInit, TypeStep, PTL DEF Spec

---------------------------------------------------------------------------
(* The safety invariant, one lemma per part of it.                         *)

\* Nothing has happened at first.
LEMMA SafetyInit == Init => SafetyInv
<1> SUFFICES ASSUME Init PROVE SafetyInv
  OBVIOUS
<1>1. TypeOK
  BY TypeInit
<1> QED
  BY <1>1, SessionAssumption
  DEF Init, BackendInit, SafetyInv, FlagInv, AuditInv, ClientInv, LiveWasChecked,
      SignalReflectsLastAudit, RefusedUnsignalled, Failed

\* What every step of session s leaves alone: the other sessions.
LEMMA OthersUntouched ==
  ASSUME TypeOK, NEW s \in Versions, Step(s), NEW t \in Versions, t # s
  PROVE  /\ phase'[t] = phase[t] /\ call'[t] = call[t] /\ report'[t] = report[t]
         /\ staging'[t] = staging[t]
         /\ t \in published' <=> t \in published
         /\ t \in rolledBack' <=> t \in rolledBack
         /\ t \in audited' <=> t \in audited
         /\ t \in everLive' <=> t \in everLive
         /\ \A c \in Ctxs : <<t, c>> \in refused' <=> <<t, c>> \in refused
         /\ \A c \in Ctxs : <<t, c>> \in vouched' <=> <<t, c>> \in vouched
         /\ \A c \in Ctxs : signal'[c] = t => signal[c] = t
<1> USE DEF TypeOK, BackendTypeOK, ControlTypeOK, flagVars, backendVars,
            Goto, Finish, Return, Raise
<1>1. CASE Table(s) \/ Write(s) \/ WriteFails(s) \/ WriteInterrupted(s) \/ Waive(s)
  BY <1>1 DEF Table, Write, WriteFails, WriteInterrupted, Raise, Waive, CreateVersion,
        WriteVersion, WaiveVersion
<1>2. CASE RollbackAfterWrite(s) \/ Refuse(s) \/ Rollback(s)
  BY <1>2 DEF RollbackAfterWrite, Refuse, Rollback, RollbackReturns, RollbackRaises,
              DiscardVersion, RollbackThenMark, RollbackAndMark
<1>3. CASE AuditRejected(s) \/ NotifyRaises(s) \/ PassUnsignalled(s) \/ EmitRaises(s)
           \/ PublishRejected(s) \/ RollbackRejected(s) \/ Crash(s)
  BY <1>3 DEF AuditRejected, NotifyRaises, PassUnsignalled, EmitRaises, PublishRejected,
              RollbackRejected, Crash
<1>4. ASSUME NEW c \in Ctxs,
             (\E m \in {"stop", "continue"} : AuditBegin(s, c, m)) \/ AuditBeginRaises(s, c)
      PROVE  /\ phase'[t] = phase[t] /\ call'[t] = call[t]
             /\ UNCHANGED <<backendVars, flagVars, refused>>
             /\ \A d \in Ctxs : <<t, d>> \in vouched' <=> <<t, d>> \in vouched
             /\ \A d \in Ctxs : signal'[d] = t => signal[d] = t
  <2>1. phase'[t] = phase[t] /\ call'[t] = call[t] /\ UNCHANGED <<backendVars, flagVars, refused>>
    BY <1>4 DEF AuditBegin, AuditBeginRaises
  <2>2. DeleteSignal(s, c) \/ UNCHANGED <<signal, vouched>>
    BY <1>4 DEF AuditBegin, AuditBeginRaises
  <2> QED
    BY <2>1, <2>2, SessionAssumption DEF DeleteSignal
<1>5. ASSUME NEW results \in SUBSET BOOLEAN, RunChecks(s, results) \/ CheckRaises(s, results)
      PROVE  /\ phase'[t] = phase[t] /\ call'[t] = call[t] /\ report'[t] = report[t]
             /\ staging'[t] = staging[t] /\ UNCHANGED <<prod, everLive, published, rolledBack, refused, signal>>
             /\ t \in audited' <=> t \in audited
             /\ \A c \in Ctxs : <<t, c>> \in vouched' <=> <<t, c>> \in vouched
  BY <1>5 DEF RunChecks, CheckRaises, AssessVersion
<1>6. CASE EmitSignal(s)
  BY <1>6 DEF EmitSignal
<1>7. CASE Publish(s) \/ PublishFails(s)
  BY <1>7 DEF Publish, PublishFails, PublishReturns, PublishRaises, MakeLive
<1>8. CASE Exit(s) \/ Del(s)
  BY <1>8 DEF Exit, Del, LetGo, RollbackReturns, RollbackRaises, DiscardVersion,
              RollbackAndMark
<1> QED
  BY <1>1, <1>2, <1>3, <1>4, <1>5, <1>6, <1>7, <1>8 DEF Step

\* The flags stay true to the history.
LEMMA FlagStep ==
  ASSUME TypeOK, FlagInv, NEW s \in Versions, Step(s)
  PROVE  FlagInv'
<1> DEFINE
      Flags ==
        /\ \A c \in Ctxs : <<s, c>> \in refused' => s \in rolledBack' /\ FALSE \in report'[s]
        /\ s \in published' => s \in everLive'
        /\ phase'[s] # "unborn"
<1>1. Flags
  <2>1. phase \in [Versions -> Phases] /\ report \in [Versions -> SUBSET BOOLEAN]
    BY DEF TypeOK, ControlTypeOK
  <2>2. \A c \in Ctxs : <<s, c>> \in refused => s \in rolledBack /\ FALSE \in report[s]
    BY DEF FlagInv, Failed
  <2>3. s \in published => s \in everLive
    BY DEF FlagInv
  <2> USE <2>1, <2>2, <2>3 DEF flagVars, backendVars, Goto, Finish, Return, Raise
  <2>4. CASE Table(s) \/ Write(s) \/ WriteFails(s) \/ WriteInterrupted(s) \/ Waive(s)
    BY <2>4 DEF Table, Write, WriteFails, WriteInterrupted, Raise, Waive, CreateVersion,
        WriteVersion, WaiveVersion
  <2>5. CASE RollbackAfterWrite(s) \/ Rollback(s)
    BY <2>5 DEF RollbackAfterWrite, Rollback, RollbackReturns, RollbackRaises,
                DiscardVersion, RollbackThenMark
  <2>6. CASE Refuse(s)
    BY <2>6 DEF Refuse, Failed, RollbackReturns, RollbackRaises, DiscardVersion,
                RollbackAndMark
  <2>7. CASE AuditRejected(s) \/ NotifyRaises(s) \/ PassUnsignalled(s) \/ EmitRaises(s)
             \/ PublishRejected(s) \/ RollbackRejected(s) \/ Crash(s) \/ EmitSignal(s)
    BY <2>7 DEF AuditRejected, NotifyRaises, PassUnsignalled, EmitRaises, PublishRejected,
                RollbackRejected, Crash, EmitSignal
  <2>8. CASE \E c \in Ctxs : (\E m \in {"stop", "continue"} : AuditBegin(s, c, m))
                             \/ AuditBeginRaises(s, c)
    BY <2>8 DEF AuditBegin, AuditBeginRaises
  <2>9. ASSUME NEW results \in SUBSET BOOLEAN, RunChecks(s, results) \/ CheckRaises(s, results)
        PROVE  Flags
    BY <2>9 DEF RunChecks, CheckRaises, AssessVersion, Report
  <2>10. CASE Publish(s) \/ PublishFails(s)
    BY <2>10 DEF Publish, PublishFails, PublishReturns, PublishRaises, MakeLive
  <2>11. CASE Exit(s) \/ Del(s)
    BY <2>11 DEF Exit, Del, LetGo, RollbackReturns, RollbackRaises, DiscardVersion,
                 RollbackAndMark
  <2> QED
    BY <2>4, <2>5, <2>6, <2>7, <2>8, <2>9, <2>10, <2>11 DEF Step
<1>2. published' \subseteq Versions
  BY TypeStep, NextFromStep DEF TypeOK
<1>3. ASSUME NEW t \in Versions, NEW c \in Ctxs, <<t, c>> \in refused'
      PROVE  t \in rolledBack' /\ FALSE \in report'[t]
  <2>1. CASE t = s
    BY <1>1, <1>3, <2>1
  <2>2. CASE t # s
    <3>1. <<t, c>> \in refused /\ report'[t] = report[t] /\ (t \in rolledBack => t \in rolledBack')
      BY <1>3, <2>2, OthersUntouched
    <3> QED
      BY <3>1 DEF FlagInv, Failed
  <2> QED
    BY <2>1, <2>2
<1>4. published' \subseteq everLive'
  BY <1>1, <1>2, OthersUntouched DEF FlagInv
<1>5. \A t \in Versions : phase'[t] = "unborn" =>
        t \notin (audited' \cup rolledBack' \cup everLive') /\ staging'[t] = "absent"
  BY <1>1, OthersUntouched DEF FlagInv
<1> QED
  BY <1>3, <1>4, <1>5 DEF FlagInv, Failed

\* Dirty content has a failure in the report, and what an audit judges is
\* no longer fresh.
LEMMA ContentStep ==
  ASSUME TypeOK, AuditInv, NEW s \in Versions, Step(s)
  PROVE  \A t \in Versions : /\ staging'[t] = "dirty" => FALSE \in report'[t]
                             /\ phase'[t] = "judging" => staging'[t] # "fresh"
<1> DEFINE
      Holds == /\ staging'[s] = "dirty" => FALSE \in report'[s]
               /\ phase'[s] = "judging" => staging'[s] # "fresh"
<1>1. Holds
  <2>1. /\ phase \in [Versions -> Phases] /\ report \in [Versions -> SUBSET BOOLEAN]
        /\ staging \in [Versions -> Content]
    BY DEF TypeOK, ControlTypeOK, BackendTypeOK
  <2>2. /\ staging[s] = "dirty" => FALSE \in report[s]
        /\ phase[s] = "judging" => staging[s] # "fresh"
    BY DEF AuditInv, Failed
  <2> USE <2>1, <2>2 DEF flagVars, backendVars, Goto, Finish, Return, Raise
  <2>4. CASE Table(s) \/ Write(s) \/ WriteFails(s) \/ WriteInterrupted(s) \/ Waive(s)
    BY <2>4 DEF Table, Write, WriteFails, WriteInterrupted, Raise, Waive, CreateVersion,
        WriteVersion, WaiveVersion
  <2>5. CASE RollbackAfterWrite(s) \/ Rollback(s)
    BY <2>5 DEF RollbackAfterWrite, Rollback, RollbackReturns, RollbackRaises,
                DiscardVersion, RollbackThenMark
  <2>6. CASE Refuse(s)
    BY <2>6 DEF Refuse, RollbackReturns, RollbackRaises, DiscardVersion, RollbackAndMark
  <2>7. CASE AuditRejected(s) \/ NotifyRaises(s) \/ PassUnsignalled(s) \/ EmitRaises(s)
             \/ PublishRejected(s) \/ RollbackRejected(s) \/ Crash(s)
    BY <2>7 DEF AuditRejected, NotifyRaises, PassUnsignalled, EmitRaises, PublishRejected,
                RollbackRejected, Crash
  <2>8. ASSUME NEW c \in Ctxs, NEW m \in {"stop", "continue"}, AuditBegin(s, c, m)
        PROVE  Holds
    BY <2>8 DEF AuditBegin
  <2>9. ASSUME NEW c \in Ctxs, AuditBeginRaises(s, c)
        PROVE  Holds
    BY <2>9 DEF AuditBeginRaises
  <2>10. ASSUME NEW results \in SUBSET BOOLEAN, RunChecks(s, results)
         PROVE  Holds
    BY <2>10 DEF RunChecks, AssessVersion, Report
  <2>11. ASSUME NEW results \in SUBSET BOOLEAN, CheckRaises(s, results)
         PROVE  Holds
    BY <2>11 DEF CheckRaises, AssessVersion, Report
  <2>12. CASE EmitSignal(s)
    BY <2>12 DEF EmitSignal
  <2>13. CASE Publish(s) \/ PublishFails(s)
    BY <2>13 DEF Publish, PublishFails, PublishReturns, PublishRaises, MakeLive
  <2>14. CASE Exit(s) \/ Del(s)
    BY <2>14 DEF Exit, Del, LetGo, RollbackReturns, RollbackRaises, DiscardVersion,
                 RollbackAndMark
  <2> QED
    BY <2>4, <2>5, <2>6, <2>7, <2>8, <2>9, <2>10, <2>11, <2>12, <2>13, <2>14 DEF Step
<1>2. ASSUME NEW t \in Versions, t # s
      PROVE  /\ staging'[t] = "dirty" => FALSE \in report'[t]
             /\ phase'[t] = "judging" => staging'[t] # "fresh"
  <2>1. staging'[t] = staging[t] /\ phase'[t] = phase[t] /\ report'[t] = report[t]
    BY <1>2, OthersUntouched
  <2> QED
    BY <2>1 DEF AuditInv, Failed
<1> QED
  BY <1>1, <1>2

\* What an audit knows of the signal stays true while it runs, and so do the
\* two invariants about signals.
LEMMA SignalStep ==
  ASSUME TypeOK, FlagInv, AuditInv, SignalReflectsLastAudit, RefusedUnsignalled,
         NEW s \in Versions, Step(s)
  PROVE  /\ \A t \in Versions : phase'[t] = "judging" /\ FALSE \notin report'[t]
                                  => <<t, call'[t].ctx>> \in vouched'
         /\ \A t \in Versions : phase'[t] \in {"auditing", "judging"} => signal'[call'[t].ctx] # t
         /\ ~HasSignalStore => \A c \in Ctxs : signal'[c] = NoSignal
         /\ \A t \in Versions, c \in Ctxs : signal'[c] = t => <<t, c>> \in vouched'
         /\ \A t \in Versions, c \in Ctxs : <<t, c>> \in refused' => signal'[c] # t
<1> DEFINE
      Holds ==
        /\ phase'[s] = "judging" /\ FALSE \notin report'[s] => <<s, call'[s].ctx>> \in vouched'
        /\ phase'[s] \in {"auditing", "judging"} => signal'[call'[s].ctx] # s
        /\ ~HasSignalStore => \A c \in Ctxs : signal'[c] = NoSignal
        /\ \A c \in Ctxs : signal'[c] = s => <<s, c>> \in vouched'
        /\ \A c \in Ctxs : <<s, c>> \in refused' => signal'[c] # s
<1>1. Holds
  <2>1. /\ phase \in [Versions -> Phases] /\ report \in [Versions -> SUBSET BOOLEAN]
        /\ call \in [Versions -> Calls] /\ signal \in [Ctxs -> Versions \cup {NoSignal}]
        /\ phase[s] \in {"auditing", "judging"} => call[s].ctx \in Ctxs
    BY DEF TypeOK, ControlTypeOK
  <2>2. /\ phase[s] = "judging" /\ FALSE \notin report[s] => <<s, call[s].ctx>> \in vouched
        /\ phase[s] \in {"auditing", "judging"} => signal[call[s].ctx] # s
        /\ ~HasSignalStore => \A c \in Ctxs : signal[c] = NoSignal
    BY DEF AuditInv, Failed
  <2>3. /\ \A c \in Ctxs : signal[c] = s => <<s, c>> \in vouched
        /\ \A c \in Ctxs : <<s, c>> \in refused => signal[c] # s /\ FALSE \in report[s]
        /\ s # NoSignal
    BY SessionAssumption DEF SignalReflectsLastAudit, RefusedUnsignalled, FlagInv, Failed
  <2> USE <2>1, <2>2, <2>3 DEF Failed, flagVars, Goto, Finish, Return, Raise
  <2>4. CASE Table(s) \/ Write(s) \/ WriteFails(s) \/ WriteInterrupted(s) \/ Waive(s)
    BY <2>4 DEF Table, Write, WriteFails, WriteInterrupted, Raise, Waive, CreateVersion,
        WriteVersion, WaiveVersion
  <2>5. CASE RollbackAfterWrite(s) \/ Rollback(s)
    BY <2>5 DEF RollbackAfterWrite, Rollback, RollbackReturns, RollbackRaises,
                DiscardVersion, RollbackThenMark
  <2>6. CASE Refuse(s)
    BY <2>6 DEF Refuse, RollbackReturns, RollbackRaises, DiscardVersion, RollbackAndMark
  <2>7. CASE AuditRejected(s) \/ NotifyRaises(s) \/ PassUnsignalled(s) \/ EmitRaises(s)
             \/ PublishRejected(s) \/ RollbackRejected(s) \/ Crash(s)
    BY <2>7 DEF AuditRejected, NotifyRaises, PassUnsignalled, EmitRaises, PublishRejected,
                RollbackRejected, Crash
  <2>8. ASSUME NEW c \in Ctxs, NEW m \in {"stop", "continue"}, AuditBegin(s, c, m)
        PROVE  Holds
    <3>1. /\ \A d \in Ctxs : d # c => (<<s, d>> \in vouched' <=> <<s, d>> \in vouched)
          /\ \A d \in Ctxs : d # c => signal'[d] = signal[d]
          /\ signal'[c] = NoSignal
      BY <2>8 DEF AuditBegin, DeleteSignal
    <3>2. phase'[s] = "auditing" /\ call'[s].ctx = c /\ report' = report /\ refused' = refused
      BY <2>8 DEF AuditBegin, Args
    <3> QED
      BY <3>1, <3>2
  <2>9. ASSUME NEW c \in Ctxs, AuditBeginRaises(s, c)
        PROVE  Holds
    <3>1. /\ phase'[s] \in {"open", "unwinding"}
          /\ report' = report /\ refused' = refused
          /\ DeleteSignal(s, c) \/ UNCHANGED <<signal, vouched>>
      BY <2>9 DEF AuditBeginRaises
    <3>2. CASE DeleteSignal(s, c)
      <4>1. /\ \A d \in Ctxs : d # c => (<<s, d>> \in vouched' <=> <<s, d>> \in vouched)
            /\ \A d \in Ctxs : d # c => signal'[d] = signal[d]
            /\ signal'[c] = NoSignal
        BY <3>2 DEF DeleteSignal
      <4>2. \A d \in Ctxs : signal'[d] = s => <<s, d>> \in vouched'
        BY <4>1
      <4>3. \A d \in Ctxs : <<s, d>> \in refused' => signal'[d] # s
        BY <3>1, <4>1
      <4>4. ~HasSignalStore => \A d \in Ctxs : signal'[d] = NoSignal
        BY <4>1
      <4>5. phase'[s] # "judging" /\ phase'[s] # "auditing"
        BY <3>1
      <4> QED
        BY <4>2, <4>3, <4>4, <4>5
    <3>3. CASE UNCHANGED <<signal, vouched>>
      BY <3>1, <3>3
    <3> QED
      BY <3>1, <3>2, <3>3
  <2>10. ASSUME NEW results \in SUBSET BOOLEAN, RunChecks(s, results)
         PROVE  Holds
    BY <2>10 DEF RunChecks, AssessVersion
  <2>11. ASSUME NEW results \in SUBSET BOOLEAN, CheckRaises(s, results)
         PROVE  Holds
    BY <2>11 DEF CheckRaises, AssessVersion
  <2>12. CASE EmitSignal(s)
    BY <2>12 DEF EmitSignal, Passed
  <2>13. CASE Publish(s) \/ PublishFails(s)
    BY <2>13 DEF Publish, PublishFails, PublishReturns, PublishRaises, MakeLive
  <2>14. CASE Exit(s) \/ Del(s)
    BY <2>14 DEF Exit, Del, LetGo, RollbackReturns, RollbackRaises, DiscardVersion,
                 RollbackAndMark
  <2> QED
    BY <2>4, <2>5, <2>6, <2>7, <2>8, <2>9, <2>10, <2>11, <2>12, <2>13, <2>14 DEF Step
<1>2. ASSUME NEW t \in Versions, t # s
      PROVE  /\ phase'[t] = "judging" /\ FALSE \notin report'[t] => <<t, call'[t].ctx>> \in vouched'
             /\ phase'[t] \in {"auditing", "judging"} => signal'[call'[t].ctx] # t
             /\ \A c \in Ctxs : signal'[c] = t => <<t, c>> \in vouched'
             /\ \A c \in Ctxs : <<t, c>> \in refused' => signal'[c] # t
  <2>1. /\ phase'[t] = phase[t] /\ call'[t] = call[t] /\ report'[t] = report[t]
        /\ \A c \in Ctxs : <<t, c>> \in refused' <=> <<t, c>> \in refused
        /\ \A c \in Ctxs : <<t, c>> \in vouched' <=> <<t, c>> \in vouched
        /\ \A c \in Ctxs : signal'[c] = t => signal[c] = t
    BY <1>2, OthersUntouched
  <2>2. phase[t] \in {"auditing", "judging"} => call[t].ctx \in Ctxs
    BY DEF TypeOK, ControlTypeOK
  <2>3. t # NoSignal
    BY SessionAssumption
  <2>4. /\ phase[t] = "judging" /\ FALSE \notin report[t] => <<t, call[t].ctx>> \in vouched
        /\ phase[t] \in {"auditing", "judging"} => signal[call[t].ctx] # t
    BY DEF AuditInv, Failed
  <2>5. \A c \in Ctxs : /\ signal[c] = t => <<t, c>> \in vouched
                        /\ <<t, c>> \in refused => signal[c] # t
    BY <2>3 DEF SignalReflectsLastAudit, RefusedUnsignalled
  <2>6. phase'[t] = "judging" /\ FALSE \notin report'[t] => <<t, call'[t].ctx>> \in vouched'
    BY <2>1, <2>2, <2>4
  <2>7. phase'[t] \in {"auditing", "judging"} => signal'[call'[t].ctx] # t
    BY <2>1, <2>2, <2>4
  <2>8. \A c \in Ctxs : signal'[c] = t => <<t, c>> \in vouched'
    BY <2>1, <2>5
  <2>9. \A c \in Ctxs : <<t, c>> \in refused' => signal'[c] # t
    BY <2>1, <2>5
  <2> QED
    BY <2>6, <2>7, <2>8, <2>9
<1> QED
  BY <1>1, <1>2

\* The three invariants about audits and signals, put together.
LEMMA AuditStep ==
  ASSUME TypeOK, FlagInv, AuditInv, SignalReflectsLastAudit, RefusedUnsignalled,
         NEW s \in Versions, Step(s)
  PROVE  AuditInv' /\ SignalReflectsLastAudit' /\ RefusedUnsignalled'
<1>1. \A t \in Versions : /\ staging'[t] = "dirty" => Failed(t)'
                          /\ phase'[t] = "judging" => staging'[t] # "fresh"
  BY ContentStep DEF Failed
<1>2. AuditInv'
  BY <1>1, SignalStep DEF AuditInv, Failed
<1>3. signal' \in [Ctxs -> Versions \cup {NoSignal}]
  BY TypeStep, NextFromStep DEF TypeOK
<1>4. SignalReflectsLastAudit'
  BY <1>3, SignalStep DEF SignalReflectsLastAudit
<1>5. RefusedUnsignalled'
  BY SignalStep DEF RefusedUnsignalled
<1> QED
  BY <1>2, <1>4, <1>5

\* A careful client publishes nothing but what was judged.
LEMMA ClientStep ==
  ASSUME TypeOK, FlagInv, AuditInv, Careful, ClientInv, LiveWasChecked,
         NEW s \in Versions, Step(s)
  PROVE  ClientInv' /\ LiveWasChecked'
<1> DEFINE
      Holds ==
        /\ phase'[s] = "open" /\ s \in audited' /\ s \notin (rolledBack' \cup published')
             => staging'[s] \notin {"fresh", "dirty"}
        /\ phase'[s] \in {"open", "writeFailed", "auditing", "judging"} /\ s \notin published'
             => s \notin everLive'
        /\ prod'.content \in {"clean", "waived"}
<1>1. Holds
  <2>1. /\ phase \in [Versions -> Phases] /\ staging \in [Versions -> Content]
        /\ ~CatchesErrors /\ ~ReusesSession
    BY DEF TypeOK, ControlTypeOK, BackendTypeOK, Careful
  <2>2. /\ staging[s] = "dirty" => FALSE \in report[s]
        /\ phase[s] = "judging" => staging[s] # "fresh"
    BY DEF AuditInv, Failed
  <2>3. /\ phase[s] = "open" /\ s \in audited /\ s \notin (rolledBack \cup published)
             => staging[s] \notin {"fresh", "dirty"}
        /\ phase[s] \in {"open", "writeFailed", "auditing", "judging"} /\ s \notin published
             => s \notin everLive
        /\ prod.content \in {"clean", "waived"}
        /\ phase[s] = "unborn" => s \notin (audited \cup everLive)
    BY DEF ClientInv, LiveWasChecked, FlagInv
  <2> USE <2>1, <2>2, <2>3 DEF flagVars, backendVars, Failed, Goto, Finish, Return, Raise
  <2>4. CASE Table(s) \/ Write(s) \/ WriteFails(s) \/ WriteInterrupted(s) \/ Waive(s)
    BY <2>4 DEF Table, Write, WriteFails, WriteInterrupted, Raise, Waive, MayWrite,
                CreateVersion, WriteVersion,
                WaiveVersion
  <2>5. CASE RollbackAfterWrite(s) \/ Rollback(s)
    BY <2>5 DEF RollbackAfterWrite, Rollback, RollbackReturns, RollbackRaises,
                DiscardVersion, RollbackThenMark
  <2>6. CASE Refuse(s)
    BY <2>6 DEF Refuse, RollbackReturns, RollbackRaises, DiscardVersion, RollbackAndMark
  <2>7. CASE AuditRejected(s) \/ NotifyRaises(s) \/ PassUnsignalled(s) \/ EmitRaises(s)
             \/ PublishRejected(s) \/ RollbackRejected(s) \/ Crash(s) \/ EmitSignal(s)
    BY <2>7 DEF AuditRejected, NotifyRaises, PassUnsignalled, EmitRaises, PublishRejected,
                RollbackRejected, Crash, EmitSignal, Passed
  <2>8. CASE \E c \in Ctxs : (\E m \in {"stop", "continue"} : AuditBegin(s, c, m))
                             \/ AuditBeginRaises(s, c)
    BY <2>8 DEF AuditBegin, AuditBeginRaises
  <2>9. ASSUME NEW results \in SUBSET BOOLEAN, RunChecks(s, results)
        PROVE  Holds
    BY <2>9 DEF RunChecks, AssessVersion
  <2>10. ASSUME NEW results \in SUBSET BOOLEAN, CheckRaises(s, results)
         PROVE  Holds
    BY <2>10 DEF CheckRaises, AssessVersion
  <2>11. CASE Publish(s)
    BY <2>11 DEF Publish, MayPublish, PublishReturns, MakeLive, Content
  <2>12. CASE PublishFails(s)
    BY <2>12 DEF PublishFails, MayPublish, PublishRaises, MakeLive, Content
  <2>13. CASE Exit(s) \/ Del(s)
    BY <2>13 DEF Exit, Del, LetGo, RollbackReturns, RollbackRaises, DiscardVersion,
                 RollbackAndMark
  <2> QED
    BY <2>4, <2>5, <2>6, <2>7, <2>8, <2>9, <2>10, <2>11, <2>12, <2>13 DEF Step
<1>2. ASSUME NEW t \in Versions, t # s
      PROVE  /\ phase'[t] = "open" /\ t \in audited' /\ t \notin (rolledBack' \cup published')
                  => staging'[t] \notin {"fresh", "dirty"}
             /\ phase'[t] \in {"open", "writeFailed", "auditing", "judging"}
                  /\ t \notin published' => t \notin everLive'
  <2>1. /\ phase'[t] = phase[t] /\ staging'[t] = staging[t]
        /\ t \in published' <=> t \in published
        /\ t \in rolledBack' <=> t \in rolledBack
        /\ t \in audited' <=> t \in audited
        /\ t \in everLive' <=> t \in everLive
    BY <1>2, OthersUntouched
  <2> QED
    BY <2>1 DEF ClientInv
<1> QED
  BY <1>1, <1>2 DEF ClientInv, LiveWasChecked

\* Every step keeps SafetyInv.
LEMMA SafetyStep == SafetyInv /\ [Next]_vars => SafetyInv'
<1> SUFFICES ASSUME SafetyInv, [Next]_vars PROVE SafetyInv'
  OBVIOUS
<1>1. CASE UNCHANGED vars
  BY <1>1
  DEF vars, flagVars, backendVars, SafetyInv, TypeOK, BackendTypeOK, ControlTypeOK, FlagInv,
      AuditInv, ClientInv, LiveWasChecked, SignalReflectsLastAudit, RefusedUnsignalled, Failed
<1>2. CASE Next
  <2>1. PICK s \in Versions : Step(s)
    BY <1>2, NextIsStep
  <2>2. TypeOK'
    BY TypeStep DEF SafetyInv
  <2>3. FlagInv'
    BY <2>1, FlagStep DEF SafetyInv
  <2>4. AuditInv' /\ SignalReflectsLastAudit' /\ RefusedUnsignalled'
    BY <2>1, AuditStep DEF SafetyInv
  <2>5. Careful => ClientInv' /\ LiveWasChecked'
    BY <2>1, ClientStep DEF SafetyInv
  <2> QED
    BY <2>2, <2>3, <2>4, <2>5 DEF SafetyInv, Careful
<1> QED
  BY <1>1, <1>2

\* SafetyInv holds in every behaviour.
LEMMA SafetyInvariant == Spec => []SafetyInv
  BY SafetyInit, SafetyStep, PTL DEF Spec

---------------------------------------------------------------------------
(* What follows for the users of a session.                                *)

\* Whatever backend, checks, callback and store do, a careful client's
\* production holds only content that an audit passed or waived.
THEOREM AuditedBeforeLive == Careful => (Spec => []LiveWasChecked)
<1> SUFFICES ASSUME Careful PROVE Spec => []LiveWasChecked
  OBVIOUS
<1>1. SafetyInv => LiveWasChecked
  BY DEF SafetyInv
<1> QED
  BY <1>1, SafetyInvariant, PTL

\* A signal that stands was written by an audit that passed and was not
\* repeated since, for any number of sessions and contexts.
THEOREM SignalsReflectAudits == Spec => []SignalReflectsLastAudit
<1>1. SafetyInv => SignalReflectsLastAudit
  BY DEF SafetyInv
<1> QED
  BY <1>1, SafetyInvariant, PTL

\* No signal of a version stands where that version was refused.
THEOREM RefusalsLeaveNoSignal == Spec => []RefusedUnsignalled
<1>1. SafetyInv => RefusedUnsignalled
  BY DEF SafetyInv
<1> QED
  BY <1>1, SafetyInvariant, PTL

\* No client can make a refused version production, not even one that swallows
\* every exception over a backend that fails at every call.
THEOREM RefusedIsFinal == Spec => RefusedStaysOut
<1>1. SafetyInv /\ [Next]_vars
        => [prod' # prod => \A c \in Ctxs : <<prod'.from, c>> \notin refused]_vars
  <2> SUFFICES ASSUME SafetyInv, Next, prod' # prod, NEW c \in Ctxs
               PROVE  <<prod'.from, c>> \notin refused
    BY DEF vars
  <2>1. PICK s \in Versions : Step(s)
    BY NextIsStep
  <2>2. Publish(s) \/ PublishFails(s)
    BY <2>1
    DEF Step, Table, Write, WriteFails, WriteInterrupted, RollbackAfterWrite, AuditRejected, AuditBegin,
        AuditBeginRaises, RunChecks, CheckRaises, NotifyRaises, Refuse, Waive,
        PassUnsignalled, EmitSignal, EmitRaises, PublishRejected, RollbackRejected,
        Rollback, Exit, Del, Crash, LetGo, CreateVersion, WriteVersion, AssessVersion,
        WaiveVersion, DiscardVersion, RollbackReturns, RollbackRaises, backendVars,
        RollbackThenMark, RollbackAndMark
  <2>3. prod'.from = s /\ s \notin rolledBack
    BY <2>2
    DEF Publish, PublishFails, MayPublish, PublishReturns, PublishRaises, MakeLive, backendVars
  <2> QED
    BY <2>3 DEF SafetyInv, FlagInv
<1> QED
  BY <1>1, SafetyInvariant, PTL DEF Spec, RefusedStaysOut

---------------------------------------------------------------------------
(* Refinement: sessions implement Promotion.                               *)

\* A step that is not a publication leaves production alone, never forgets a
\* rollback, and starts a session with nothing judged.
LEMMA NotPublishing ==
  ASSUME TypeOK, FlagInv, NEW s \in Versions, Step(s), ~Publish(s), ~PublishFails(s)
  PROVE  /\ prod' = prod /\ everLive' = everLive
         /\ s \in rolledBack => s \in rolledBack'
         /\ phase'[s] # "unborn"
         /\ phase[s] = "unborn" => /\ staging'[s] \in {"absent", "fresh"}
                                   /\ s \notin rolledBack' /\ s \notin everLive
<1>1. phase \in [Versions -> Phases] /\ staging \in [Versions -> Content]
  BY DEF TypeOK, ControlTypeOK, BackendTypeOK
<1>2. phase[s] = "unborn" => s \notin (rolledBack \cup everLive)
  BY DEF FlagInv
<1> USE <1>1, <1>2 DEF flagVars, backendVars, Goto, Finish, Return, Raise
<1>3. CASE Table(s) \/ Write(s) \/ WriteFails(s) \/ WriteInterrupted(s) \/ Waive(s)
  BY <1>3 DEF Table, Write, WriteFails, WriteInterrupted, Raise, Waive, CreateVersion,
        WriteVersion, WaiveVersion
<1>4. CASE RollbackAfterWrite(s) \/ Refuse(s) \/ Rollback(s)
  BY <1>4 DEF RollbackAfterWrite, Refuse, Rollback, RollbackReturns, RollbackRaises,
              DiscardVersion, RollbackThenMark, RollbackAndMark
<1>5. CASE AuditRejected(s) \/ NotifyRaises(s) \/ PassUnsignalled(s) \/ EmitRaises(s)
           \/ PublishRejected(s) \/ RollbackRejected(s) \/ Crash(s) \/ EmitSignal(s)
  BY <1>5 DEF AuditRejected, NotifyRaises, PassUnsignalled, EmitRaises, PublishRejected,
              RollbackRejected, Crash, Running, EmitSignal
<1>6. CASE \E c \in Ctxs : (\E m \in {"stop", "continue"} : AuditBegin(s, c, m))
                           \/ AuditBeginRaises(s, c)
  BY <1>6 DEF AuditBegin, AuditBeginRaises
<1>7. CASE \E results \in SUBSET BOOLEAN : RunChecks(s, results) \/ CheckRaises(s, results)
  BY <1>7 DEF RunChecks, CheckRaises, AssessVersion
<1>8. CASE Exit(s) \/ Del(s)
  BY <1>8 DEF Exit, Del, LetGo, RollbackReturns, RollbackRaises, DiscardVersion,
              RollbackAndMark
<1> QED
  BY <1>3, <1>4, <1>5, <1>6, <1>7, <1>8 DEF Step

\* The fates of all versions, as Promotion sees them.
Fates == [s \in Versions |-> Fate(s)]

\* Only the fate of the session that steps can change.
LEMMA OtherFates ==
  ASSUME TypeOK, NEW s \in Versions, Step(s), NEW f, Fate(s)' = f
  PROVE  Fates' = [Fates EXCEPT ![s] = f]
<1>1. ASSUME NEW t \in Versions, t # s
      PROVE  Fate(t)' = Fate(t)
  <2>1. /\ phase'[t] = phase[t] /\ staging'[t] = staging[t]
        /\ t \in rolledBack' <=> t \in rolledBack
        /\ t \in everLive' <=> t \in everLive
    BY <1>1, OthersUntouched
  <2> QED
    BY <2>1 DEF Fate
<1> QED
  BY <1>1 DEF Fates

\* Each step of a careful client's session is a step of Promotion or none.
LEMMA StepRefines ==
  ASSUME SafetyInv, Careful, NEW s \in Versions, Step(s)
  PROVE  P!Next \/ UNCHANGED <<prod.from, Fates>>
<1> USE DEF SafetyInv
<1>1. CASE ~Publish(s) /\ ~PublishFails(s)
  <2>1. /\ prod' = prod /\ everLive' = everLive
        /\ s \in rolledBack => s \in rolledBack'
        /\ phase'[s] # "unborn"
        /\ phase[s] = "unborn" => /\ staging'[s] \in {"absent", "fresh"}
                                  /\ s \notin rolledBack' /\ s \notin everLive
    BY <1>1, NotPublishing
  <2>2. \/ Fate(s)' = Fate(s)
        \/ Fate(s) = "none" /\ Fate(s)' = "staged"
        \/ Fate(s) \in P!Pending /\ Fate(s)' \in P!Pending
        \/ Fate(s) \in P!Pending /\ Fate(s)' = "withdrawn"
    BY <2>1 DEF Fate, P!Pending
  <2>3. CASE Fate(s)' = Fate(s)
    <3>1. Fates' = Fates
      BY <2>3, OtherFates DEF Fates
    <3> QED
      BY <2>1, <3>1
  <2>4. CASE Fate(s) = "none" /\ Fate(s)' = "staged"
    <3>1. Fates' = [Fates EXCEPT ![s] = "staged"]
      BY <2>4, OtherFates
    <3>2. P!Stage(s)
      BY <2>1, <2>4, <3>1 DEF P!Stage, Fates
    <3> QED
      BY <3>2 DEF P!Next
  <2>5. CASE Fate(s) \in P!Pending /\ Fate(s)' \in P!Pending
    <3>1. Fates' = [Fates EXCEPT ![s] = Fate(s)']
      BY OtherFates
    <3>2. P!Judge(s)
      BY <2>1, <2>5, <3>1 DEF P!Judge, Fates
    <3> QED
      BY <3>2 DEF P!Next
  <2>6. CASE Fate(s) \in P!Pending /\ Fate(s)' = "withdrawn"
    <3>1. Fates' = [Fates EXCEPT ![s] = "withdrawn"]
      BY <2>6, OtherFates
    <3>2. P!Withdraw(s)
      BY <2>1, <2>6, <3>1 DEF P!Withdraw, Fates
    <3> QED
      BY <3>2 DEF P!Next
  <2> QED
    BY <2>2, <2>3, <2>4, <2>5, <2>6
<1>2. CASE Publish(s) \/ PublishFails(s)
  <2>1. \/ MakeLive(s) /\ staging[s] # "absent"
        \/ UNCHANGED backendVars
    BY <1>2 DEF Publish, PublishFails, PublishReturns, PublishRaises
  <2>2. /\ phase[s] = "open" /\ s \in audited /\ s \notin rolledBack /\ s \notin published
        /\ rolledBack' = rolledBack /\ phase'[s] # "unborn"
    BY <1>2 DEF Publish, PublishFails, MayPublish, TypeOK, ControlTypeOK, flagVars, Finish,
                Return, Raise
  <2>3. s \notin everLive /\ staging[s] \notin {"fresh", "dirty"} /\ staging[s] \in Content
    BY <2>2 DEF ClientInv, TypeOK, BackendTypeOK
  <2>4. CASE MakeLive(s) /\ staging[s] # "absent"
    <3>1. Fate(s) = "approved"
      BY <2>2, <2>3, <2>4 DEF Fate, Content
    <3>2. Fate(s)' = "promoted" /\ prod'.from = s
      BY <2>2, <2>4 DEF Fate, MakeLive
    <3>3. Fates' = [Fates EXCEPT ![s] = "promoted"]
      BY <3>2, OtherFates
    <3>4. P!Promote(s)
      BY <3>1, <3>2, <3>3 DEF P!Promote, Fates
    <3> QED
      BY <3>4 DEF P!Next
  <2>5. CASE UNCHANGED backendVars
    <3>1. Fate(s)' = Fate(s)
      BY <2>2, <2>5 DEF Fate, backendVars
    <3>2. Fates' = Fates
      BY <3>1, OtherFates DEF Fates
    <3> QED
      BY <2>5, <3>2 DEF backendVars
  <2> QED
    BY <2>1, <2>4, <2>5
<1> QED
  BY <1>1, <1>2

\* Sessions of careful clients implement the abstract promise, whatever the
\* backend does: initial states map to initial states and steps to steps.
THEOREM SessionsImplementPromotion == Careful => (Spec => ImplementsPromotion)
<1> SUFFICES ASSUME Careful PROVE Spec => ImplementsPromotion
  OBVIOUS
<1>1. Init => P!Init
  BY DEF Init, BackendInit, P!Init, Fate
<1>2. SafetyInv /\ [Next]_vars => [P!Next]_<<prod.from, Fates>>
  <2>1. ASSUME SafetyInv, Next
        PROVE  P!Next \/ UNCHANGED <<prod.from, Fates>>
    BY <2>1, NextIsStep, StepRefines
  <2>2. UNCHANGED vars => UNCHANGED <<prod.from, Fates>>
    BY DEF vars, backendVars, flagVars, Fates, Fate
  <2> QED
    BY <2>1, <2>2
<1>3. SafetyInv /\ [Next]_vars => [P!Next]_<<prod.from, [s \in Versions |-> Fate(s)]>>
  BY <1>2 DEF Fates
<1> QED
  BY <1>1, <1>3, SafetyInvariant, PTL DEF Spec, ImplementsPromotion, P!Spec

---------------------------------------------------------------------------
(* Nothing stays staged behind a session.                                  *)

\* What a session has let go of is not staged, if the backend does what it is
\* asked and nobody writes to a session that is over.
LetGoInv(s) ==
    /\ s \in published \cup rolledBack => staging[s] = "absent"
    /\ phase[s] = "writeFailed" => s \notin published \cup rolledBack
    /\ phase[s] = "gone" => staging[s] = "absent"
OrphanInv == \A s \in Versions : LetGoInv(s)

LEMMA OrphanStep ==
  ASSUME Reliable, ~ReusesSession, SafetyInv, OrphanInv, NEW s \in Versions, Step(s)
  PROVE  OrphanInv'
<1>1. TypeOK /\ FlagInv /\ LetGoInv(s)
  BY DEF SafetyInv, OrphanInv
<1>2. LetGoInv(s)'
  <2>1. /\ phase \in [Versions -> Phases] /\ staging \in [Versions -> Content]
        /\ report \in [Versions -> SUBSET BOOLEAN]
    BY <1>1 DEF TypeOK, BackendTypeOK, ControlTypeOK
  <2>2. phase[s] = "unborn" => s \notin published \cup rolledBack
    BY <1>1 DEF FlagInv
  <2> USE <1>1, <2>1, <2>2 DEF LetGoInv, flagVars, backendVars, Goto, Finish, Return, Raise
  <2>3. CASE Table(s) \/ Waive(s)
    BY <2>3 DEF Table, Waive, CreateVersion, WaiveVersion
  <2>4. CASE Write(s) \/ WriteFails(s) \/ WriteInterrupted(s)
    BY <2>4 DEF Write, WriteFails, WriteInterrupted, Raise, MayWrite, WriteVersion
  <2>5. CASE RollbackAfterWrite(s) \/ Rollback(s) \/ Refuse(s)
    BY <2>5 DEF RollbackAfterWrite, Rollback, Refuse, RollbackReturns, RollbackRaises,
                DiscardVersion, RollbackThenMark, RollbackAndMark
  <2>6. CASE AuditRejected(s) \/ NotifyRaises(s) \/ PassUnsignalled(s) \/ EmitRaises(s)
             \/ PublishRejected(s) \/ RollbackRejected(s) \/ Crash(s) \/ EmitSignal(s)
    BY <2>6 DEF AuditRejected, NotifyRaises, PassUnsignalled, EmitRaises, PublishRejected,
                RollbackRejected, Crash, EmitSignal
  <2>7. CASE \E c \in Ctxs : (\E m \in {"stop", "continue"} : AuditBegin(s, c, m))
                             \/ AuditBeginRaises(s, c)
    BY <2>7 DEF AuditBegin, AuditBeginRaises
  <2>8. ASSUME NEW results \in SUBSET BOOLEAN, RunChecks(s, results) \/ CheckRaises(s, results)
        PROVE  LetGoInv(s)'
    BY <2>8 DEF RunChecks, CheckRaises, AssessVersion
  <2>9. CASE Publish(s) \/ PublishFails(s)
    BY <2>9 DEF Publish, PublishFails, PublishReturns, PublishRaises, MakeLive
  <2>10. CASE Exit(s) \/ Del(s)
    BY <2>10 DEF Exit, Del, LetGo, RollbackReturns, RollbackRaises, DiscardVersion,
                 RollbackAndMark
  <2> QED
    BY <2>3, <2>4, <2>5, <2>6, <2>7, <2>8, <2>9, <2>10 DEF Step
<1>3. ASSUME NEW t \in Versions, t # s PROVE LetGoInv(t)'
  <2>1. LetGoInv(t)
    BY DEF OrphanInv
  <2> QED
    BY <1>1, <1>3, <2>1, OthersUntouched DEF LetGoInv
<1> QED
  BY <1>2, <1>3 DEF OrphanInv

\* A session that was collected leaves nothing staged, over a backend that
\* does what it is asked, for clients that do not write to a session that is
\* over: write, audit, publish, rollback, __exit__ and __del__ between them
\* discard what was not published.
THEOREM NothingOrphaned == Reliable /\ ~ReusesSession => (Spec => []NoOrphan)
<1> SUFFICES ASSUME Reliable, ~ReusesSession PROVE Spec => []NoOrphan
  OBVIOUS
<1>1. Init => OrphanInv
  BY DEF Init, BackendInit, OrphanInv, LetGoInv
<1>2. SafetyInv /\ OrphanInv /\ [Next]_vars => OrphanInv'
  <2>1. ASSUME SafetyInv, OrphanInv, Next PROVE OrphanInv'
    BY <2>1, NextIsStep, OrphanStep
  <2>2. OrphanInv /\ UNCHANGED vars => OrphanInv'
    BY DEF vars, backendVars, flagVars, OrphanInv, LetGoInv
  <2> QED
    BY <2>1, <2>2
<1>3. OrphanInv => NoOrphan
  BY DEF OrphanInv, LetGoInv, NoOrphan
<1> QED
  BY <1>1, <1>2, <1>3, SafetyInvariant, PTL DEF Spec
=============================================================================
