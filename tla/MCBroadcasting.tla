-------------------------- MODULE MCBroadcasting --------------------------
(***************************************************************************)
(* Small instances of Broadcasting for TLC.                                *)
(***************************************************************************)
EXTENDS BroadcastingInvariant, TLC

At(d, hour, minute, second) == d * DAY + hour * 3600 + minute * 60 + second

\* Before, at the start of, at the end of and after the window of day 0, and
\* the same instants of day 1 that matter for a retry key of day 0.
MCInstants == {At(0, 13, 35, 0), At(0, 13, 40, 0),
               At(0, 14, 59, 59), At(0, 15, 0, 0),
               At(1, 13, 40, 0), At(1, 15, 0, 0)}

\* One window, for the liveness check.
MCWindow == {At(0, 13, 35, 0), At(0, 13, 40, 0), At(0, 15, 0, 0)}

\* What the theorem about StepsRunOut needs of the instants.
ASSUME MCClock == ClockReachesDeadline

Symmetry == Permutations(Proc)
=============================================================================
