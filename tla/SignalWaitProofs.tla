-------------------------- MODULE SignalWaitProofs --------------------------
(* Safety of SignalWait, for all timeouts, polls and durations of check().   *)
EXTENDS SignalWait, TLAPS

(* What is known at each place of the loop: how far the clock can be past  *)
(* the deadline, how long ago the last look was, and that a signal that    *)
(* stands is no older than it.                                             *)
LookedWithin(time, past) == time <= look + past /\ (present => since >= look)

AtTest ==
    pc = "testing" =>
        /\ now <= deadline + poll + CheckTime
        /\ now = deadline - timeout \/ LookedWithin(now, poll + CheckTime)

AtCheck ==
    pc = "checking" =>
        now <= until /\ until <= now + CheckTime /\ until < deadline + CheckTime

AtReturn ==
    pc = "missed" =>
        /\ now <= until /\ until <= now + CheckTime /\ until < deadline + CheckTime
        /\ LookedWithin(until, CheckTime)

AtSleep ==
    pc = "sleeping" =>
        /\ now <= until /\ until <= now + poll /\ until < deadline + poll + CheckTime
        /\ LookedWithin(until, poll + CheckTime)

AtEnd ==
    pc = "timedOut" =>
        /\ deadline <= now /\ now <= deadline + poll + CheckTime
        /\ timeout > 0 => LookedWithin(now, poll + CheckTime)

WaitInv ==
    /\ TypeOK
    /\ since <= now /\ look <= now
    /\ AtTest /\ AtCheck /\ AtReturn /\ AtSleep /\ AtEnd

---------------------------------------------------------------------------
\* The call begins in the bounds of the invariant.
LEMMA WaitInit == Init => WaitInv
BY WaitAssumption DEF Init, WaitInv, TypeOK, Pcs, AtTest, AtCheck, AtReturn, AtSleep, AtEnd, Never

\* Each step of wait(), of the clock and of others keeps them.
LEMMA WaitStep == WaitInv /\ [Next]_vars => WaitInv'
<1> SUFFICES ASSUME WaitInv, [Next]_vars PROVE WaitInv'
  OBVIOUS
<1> DEFINE T == /\ now \in Nat /\ since \in Nat /\ timeout \in Nat /\ poll \in Nat
                /\ deadline \in Nat /\ until \in Nat /\ CheckTime \in Nat
                /\ Start \in Nat /\ Horizon \in Nat /\ now <= Horizon /\ look \in Int
<1>0. T
  BY WaitAssumption DEF WaitInv, TypeOK, Never
<1> USE DEF AtTest, AtCheck, AtReturn, AtSleep, AtEnd, LookedWithin, Never
<1>1. CASE Call
  BY <1>0, <1>1 DEF WaitInv, Call, Deadline, TypeOK, Pcs
<1>2. CASE Test
  BY <1>0, <1>2 DEF WaitInv, Test, TimeLeft, TypeOK, Pcs
<1>3. CASE Check
  BY <1>0, <1>3 DEF WaitInv, Check, TypeOK, Pcs
<1>4. CASE Sleep
  BY <1>0, <1>4 DEF WaitInv, Sleep, Nap, TypeOK, Pcs
<1>5. CASE Wake
  BY <1>0, <1>5 DEF WaitInv, Wake, TypeOK, Pcs
<1>6. CASE Tick
  BY <1>0, <1>6 DEF WaitInv, Tick, waitVars, TypeOK, Pcs
<1>7. CASE Appear
  BY <1>0, <1>7 DEF WaitInv, Appear, waitVars, TypeOK, Pcs
<1>8. CASE Vanish
  BY <1>0, <1>8 DEF WaitInv, Vanish, waitVars, TypeOK, Pcs
<1>9. CASE UNCHANGED vars
  BY <1>9 DEF WaitInv, vars, waitVars, TypeOK
<1> QED
  BY <1>1, <1>2, <1>3, <1>4, <1>5, <1>6, <1>7, <1>8, <1>9 DEF Next

\* The strengthened invariant of the loop.
LEMMA WaitInvariant == Spec => []WaitInv
BY WaitInit, WaitStep, PTL DEF Spec

\* The variables of the loop keep their types, without a bound on the clock
\* other than the horizon (SignalStore.wait).
THEOREM WaitTypeCorrect == Spec => []TypeOK
<1>1. WaitInv => TypeOK
  BY DEF WaitInv
<1> QED
  BY <1>1, WaitInvariant, PTL

\* Whatever the timeout, the poll interval and the duration of a check: a
\* signal that stands when wait() gives up came after its last look, which was
\* at most one sleep and one check before the deadline; or timeout_s is zero.
THEOREM MissesOnlyLateSignals == Spec => []OnlyLateSignalsMissed
<1>1. WaitInv => OnlyLateSignalsMissed
  BY WaitAssumption DEF WaitInv, TypeOK, AtEnd, LookedWithin, Never, OnlyLateSignalsMissed
<1> QED
  BY <1>1, WaitInvariant, PTL

\* wait() gives up no earlier than its deadline and at most one interval and
\* one check later.
THEOREM TimesOutInTime == Spec => []GivesUpInTime
<1>1. WaitInv => GivesUpInTime
  BY WaitAssumption DEF WaitInv, TypeOK, AtEnd, GivesUpInTime
<1> QED
  BY <1>1, WaitInvariant, PTL
=============================================================================
