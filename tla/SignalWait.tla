----------------------------- MODULE SignalWait -----------------------------
(***************************************************************************)
(* signals/base.py, SignalStore.wait: poll check() until the signal is     *)
(* there or the deadline has passed, while others write and delete it.     *)
(*                                                                         *)
(* Time is discrete.  It passes while wait() sleeps, exactly poll_s, and   *)
(* while check() runs, at most CheckTime; the statements in between take   *)
(* none.                                                                   *)
(***************************************************************************)
EXTENDS Integers

CONSTANTS
    Timeouts,   \* the values of timeout_s tried
    Polls,      \* the values of poll_s tried
    CheckTime,  \* bound: how long a check() may take
    Start,      \* bound: the latest time at which wait() is called
    Horizon     \* bound: the clock stops here

ASSUME WaitAssumption ==
    /\ Timeouts \subseteq Nat /\ Polls \subseteq Nat
    /\ CheckTime \in Nat /\ Start \in Nat /\ Horizon \in Nat

VARIABLES
    now,        \* time.monotonic()
    timeout, poll, deadline,
    pc,         \* idle, testing, checking (check has not read the row yet),
                \* missed (it has, and is still to return), sleeping, found,
                \* timedOut
    until,      \* when the check or the sleep is over at the latest
    present,    \* is there a signal row?
    since,      \* history: when it last appeared
    look        \* history: when check() last read it, Never before the first time

waitVars == <<timeout, poll, deadline, pc, until>>
vars == <<now, waitVars, present, since, look>>

Never == -1

Pcs == {"idle", "testing", "checking", "missed", "sleeping", "found", "timedOut"}

TypeOK ==
    /\ now \in 0..Horizon /\ since \in 0..Horizon /\ look \in Never..Horizon
    /\ timeout \in Timeouts /\ poll \in Polls
    /\ deadline \in Nat /\ until \in Nat
    /\ pc \in Pcs /\ present \in BOOLEAN

Init ==
    /\ now = 0 /\ since = 0 /\ look = Never
    /\ timeout \in Timeouts /\ poll \in Polls
    /\ deadline = 0 /\ until = 0
    /\ pc = "idle"
    /\ present \in BOOLEAN

---------------------------------------------------------------------------
\* Slips: the wrong sign; no further poll if it would end after the deadline;
\* no deadline; two sleeps per check.
PastDeadline == now - timeout
TimeLeftToPoll == now + poll < deadline
Forever == TRUE
TwoNaps == 2 * poll

Deadline == now + timeout
TimeLeft == now < deadline
Nap == poll

Call ==
    /\ pc = "idle"
    /\ deadline' = Deadline
    /\ pc' = "testing"
    /\ UNCHANGED <<now, timeout, poll, until, present, since, look>>

\* while time.monotonic() < deadline
Test ==
    /\ pc = "testing"
    /\ IF TimeLeft
       THEN pc' = "checking" /\ until' = now + CheckTime
       ELSE pc' = "timedOut" /\ UNCHANGED until
    /\ UNCHANGED <<now, timeout, poll, deadline, present, since, look>>

\* check() reads the row at some moment between its call and its return.
Check ==
    /\ pc = "checking"
    /\ pc' = IF present THEN "found" ELSE "missed"
    /\ look' = now
    /\ UNCHANGED <<now, timeout, poll, deadline, until, present, since>>

Sleep ==
    /\ pc = "missed"
    /\ pc' = "sleeping" /\ until' = now + Nap
    /\ UNCHANGED <<now, timeout, poll, deadline, present, since, look>>

Wake ==
    /\ pc = "sleeping" /\ now = until
    /\ pc' = "testing"
    /\ UNCHANGED <<now, timeout, poll, deadline, until, present, since, look>>

Tick ==
    /\ now < Horizon
    /\ \/ pc = "idle" /\ now < Start
       \/ pc \in {"checking", "missed", "sleeping"} /\ now < until
    /\ now' = now + 1
    /\ UNCHANGED <<waitVars, present, since, look>>

\* Other processes write and delete the signal.
Appear ==
    /\ ~present
    /\ present' = TRUE /\ since' = now
    /\ UNCHANGED <<now, waitVars, look>>

Vanish ==
    /\ present
    /\ present' = FALSE
    /\ UNCHANGED <<now, waitVars, since, look>>

Next == Call \/ Test \/ Check \/ Sleep \/ Wake \/ Tick \/ Appear \/ Vanish

Spec == Init /\ [][Next]_vars

\* The waiting thread is scheduled and the clock does not stop.
FairSpec == Spec /\ WF_vars(Call \/ Test \/ Check \/ Sleep \/ Wake) /\ WF_vars(Tick)

---------------------------------------------------------------------------
(* Properties *)

\* wait() gives up over a signal that stands only if the signal came after the
\* last look at the store, and that look was at most one sleep and one check
\* before the deadline.  Without any time (timeout_s <= 0) it never looks.
OnlyLateSignalsMissed ==
    pc = "timedOut" /\ timeout > 0 =>
        look >= deadline - poll - CheckTime /\ (present => since >= look)

\* wait() gives up at most one poll interval and one check late.
GivesUpInTime == pc = "timedOut" => now \in deadline..(deadline + poll + CheckTime)

\* It always answers.
Answers == pc = "testing" ~> pc \in {"found", "timedOut"}
=============================================================================
