---------------------------- MODULE MCSignalWait ----------------------------
(* SignalWait for TLC: timeouts from none to more than two poll intervals.   *)
EXTENDS SignalWait

SomeTimeouts == {0, 1, 3, 5}
SomePolls == 1..3
=============================================================================
