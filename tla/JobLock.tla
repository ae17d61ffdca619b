------------------------------- MODULE JobLock -------------------------------
(***************************************************************************)
(* locking.py, down to the file: a path that names an inode, descriptors   *)
(* that name one too, and the flock each inode carries.  Proc are the      *)
(* processes that open the path: executions of the command line, and PID 1 *)
(* of the container, which only looks whether it can.  A process that is   *)
(* done may come back as another execution.                                *)
(***************************************************************************)
CONSTANTS
  Proc,    \* processes
  Inodes,  \* the inodes the file system has to give
  None     \* no process, no inode

ASSUME NoneAssumption == None \notin Proc \cup Inodes

VARIABLES
  file,   \* the inode JOB_LOCK_PATH names, or None
  owner,  \* for each inode, whose exclusive flock it carries
  fd,     \* for each process, the inode it has open
  at      \* where each process is

vars == <<file, owner, fd, at>>

\* The process, not the file, is inside the critical section.
Places == {"idle", "opened", "inside", "busy", "released"}

Move(p, place) == at' = [at EXCEPT ![p] = place]

\* open_lock: the file is created if it is not there (the directory too, which
\* two processes may do at once).
open_lock(p) ==
  /\ at[p] = "idle" /\ Move(p, "opened")
  /\ \E i \in Inodes :
     /\ i = file \/ (file = None /\ \A q \in Proc : fd[q] # i)
     /\ file' = i /\ fd' = [fd EXCEPT ![p] = i]
  /\ UNCHANGED owner

\* fcntl.flock(handle, LOCK_EX | LOCK_NB): granted, or BlockingIOError.
Flock(p) ==
  /\ at[p] = "opened"
  /\ IF owner[fd[p]] = None
       THEN owner' = [owner EXCEPT ![fd[p]] = p] /\ Move(p, "inside")
       ELSE Move(p, "busy") /\ UNCHANGED owner
  /\ UNCHANGED <<file, fd>>

\* Mutant: the lock file is removed by the one who is done with it.
UnlockAndUnlink(p) ==
  /\ at[p] = "inside" /\ Move(p, "released")
  /\ owner' = [owner EXCEPT ![fd[p]] = None]
  /\ file' = None
  /\ UNCHANGED fd

\* The end of the block, however it ends: LOCK_UN; the file stays.
Unlock(p) ==
  /\ at[p] = "inside" /\ Move(p, "released")
  /\ owner' = [owner EXCEPT ![fd[p]] = None]
  /\ UNCHANGED <<file, fd>>

\* Mutant: a dead process keeps its lock (as with a lock file that means
\* "locked" by being there).
DieHolding(p) ==
  /\ Move(p, "idle") /\ fd' = [fd EXCEPT ![p] = None]
  /\ UNCHANGED <<file, owner>>

\* The descriptor is closed: at the end of job_lock, after an flock that
\* failed in another way, by PID 1 after its look, or because the process
\* died.  The kernel drops a lock with its last descriptor.
Close(p) ==
  /\ at[p] # "idle" /\ Move(p, "idle")
  /\ owner' = [i \in Inodes |-> IF owner[i] = p THEN None ELSE owner[i]]
  /\ fd' = [fd EXCEPT ![p] = None]
  /\ UNCHANGED file

Init ==
  /\ file \in Inodes \cup {None}
  /\ owner = [i \in Inodes |-> None]
  /\ fd = [p \in Proc |-> None]
  /\ at = [p \in Proc |-> "idle"]

Next == \E p \in Proc : open_lock(p) \/ Flock(p) \/ Unlock(p) \/ Close(p)

Spec == Init /\ [][Next]_vars

TypeOK ==
  /\ file \in Inodes \cup {None}
  /\ owner \in [Inodes -> Proc \cup {None}]
  /\ fd \in [Proc -> Inodes \cup {None}]
  /\ at \in [Proc -> Places]

-----------------------------------------------------------------------------
\* All who have the lock file open have the same file open, the one a newcomer
\* would open (job_lock: "competing processes must continue locking the same
\* inode").
SameInode == \A p \in Proc : at[p] # "idle" => fd[p] = file /\ file # None

\* At each moment an inode is locked by exactly those inside: nobody is inside
\* beside another, nobody who ended or died still bars the way.
Mutex == INSTANCE JobMutex WITH
  holders <- {p \in Proc : at[p] = "inside"},
  refused <- {p \in Proc : at[p] = "busy"}

\* The lock file implements the lock the command line relies on.
IsMutex == Mutex!Spec
=============================================================================
