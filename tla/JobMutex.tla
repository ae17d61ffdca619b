------------------------------ MODULE JobMutex ------------------------------
(***************************************************************************)
(* The lock as the command line uses it (AcquireLock and SkipBusy of Cli): *)
(* one holder at most, and "busy" is said only while there is one.         *)
(***************************************************************************)
CONSTANT Proc

VARIABLES holders, refused

Init == holders = {} /\ refused = {}

Acquire(p) ==
  /\ holders = {} /\ holders' = {p}
  /\ p \notin refused /\ UNCHANGED refused

Refuse(p) ==
  /\ holders # {} /\ p \notin holders
  /\ refused' = refused \cup {p} /\ UNCHANGED holders

Leave(p) == holders' = holders \ {p} /\ refused' = refused \ {p}

Next == \E p \in Proc : Acquire(p) \/ Refuse(p) \/ Leave(p)

Spec == Init /\ [][Next]_<<holders, refused>>
=============================================================================
