------------------------------- MODULE MCBot -------------------------------
(***************************************************************************)
(* Small instances of Bot for TLC.                                         *)
(***************************************************************************)
EXTENDS Bot, TLC

At(d, hour, minute) == d * DAY + hour * 3600 + minute * 60

\* The window of a day.  Between these instants the host is suspended, except
\* from 13:34 to 13:35.
Window(d) == {At(d, 13, 34), At(d, 13, 35), At(d, 13, 40), At(d, 14, 54),
              At(d, 14, 59), At(d, 15, 0)}

MCTwoDays == Window(0) \cup Window(1)
MCTwoDaysSettings == {t \in MCTwoDays : time(t) # 48900}
\* An operator is about when the first day's menu has come out.
MCAttended == {At(0, 14, 54)}
MCPublished == 53640  \* 14:54

\* The host attends to the window, as DayServed needs it.
ASSUME MCHostAttends == HostAttends

Symmetry == Permutations(Proc)
=============================================================================
