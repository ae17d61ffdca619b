--------------------------- MODULE JobLockProofs ---------------------------
(***************************************************************************)
(* The lock file is a lock, for any number of processes.                   *)
(***************************************************************************)
EXTENDS JobLock, TLAPS

\* An inode is locked by exactly those inside who have it open.
LockFileInvariant ==
  /\ TypeOK
  /\ SameInode
  /\ \A p \in Proc : at[p] = "idle" => fd[p] = None
  /\ \A i \in Inodes, p \in Proc : owner[i] = p <=> at[p] = "inside" /\ fd[p] = i

LEMMA OpenStep ==
  ASSUME LockFileInvariant, NEW p \in Proc, open_lock(p)
  PROVE  LockFileInvariant'
<1>1. PICK i \in Inodes :
        /\ i = file \/ (file = None /\ \A q \in Proc : fd[q] # i)
        /\ file' = i /\ fd' = [fd EXCEPT ![p] = i]
  BY DEF open_lock
<1>2. at' = [at EXCEPT ![p] = "opened"] /\ owner' = owner /\ at[p] = "idle" /\ i # None
  BY NoneAssumption DEF open_lock, Move
<1>3. TypeOK'
  BY <1>1, <1>2 DEF LockFileInvariant, TypeOK, Places
<1>4. \A q \in Proc : at'[q] # "idle" => fd'[q] = i
  BY <1>1, <1>2 DEF LockFileInvariant, TypeOK, SameInode
<1>5. \A q \in Proc : at'[q] = "idle" => fd'[q] = None
  BY <1>1, <1>2 DEF LockFileInvariant, TypeOK
<1>6. ASSUME NEW j \in Inodes, NEW q \in Proc
      PROVE  owner'[j] = q <=> at'[q] = "inside" /\ fd'[q] = j
  BY <1>1, <1>2 DEF LockFileInvariant, TypeOK
<1> QED
  BY <1>1, <1>2, <1>3, <1>4, <1>5, <1>6 DEF LockFileInvariant, SameInode

LEMMA FlockStep ==
  ASSUME LockFileInvariant, NEW p \in Proc, Flock(p)
  PROVE  LockFileInvariant'
<1>1. at[p] = "opened" /\ fd' = fd /\ file' = file /\ fd[p] \in Inodes
  BY DEF Flock, LockFileInvariant, TypeOK, SameInode
<1>2. CASE owner[fd[p]] = None
  <2>1. owner' = [owner EXCEPT ![fd[p]] = p] /\ at' = [at EXCEPT ![p] = "inside"]
    BY <1>2 DEF Flock, Move
  <2>2. TypeOK' /\ SameInode' /\ \A q \in Proc : at'[q] = "idle" => fd'[q] = None
    BY <1>1, <2>1 DEF LockFileInvariant, TypeOK, SameInode, Places
  <2>3. ASSUME NEW j \in Inodes, NEW q \in Proc
        PROVE  owner'[j] = q <=> at'[q] = "inside" /\ fd'[q] = j
    <3>1. ~(at[q] = "inside" /\ fd[q] = fd[p])
      BY <1>1, <1>2, NoneAssumption DEF LockFileInvariant
    <3>2. owner[j] = q <=> at[q] = "inside" /\ fd[q] = j
      BY DEF LockFileInvariant
    <3>3. CASE j = fd[p]
      BY <1>1, <2>1, <3>1, <3>3 DEF LockFileInvariant, TypeOK
    <3>4. CASE j # fd[p]
      BY <1>1, <2>1, <3>2, <3>4 DEF LockFileInvariant, TypeOK
    <3> QED
      BY <3>3, <3>4
  <2> QED
    BY <2>2, <2>3 DEF LockFileInvariant
<1>3. CASE owner[fd[p]] # None
  <2>1. owner' = owner /\ at' = [at EXCEPT ![p] = "busy"]
    BY <1>3 DEF Flock, Move
  <2> QED
    BY <1>1, <2>1 DEF LockFileInvariant, TypeOK, SameInode, Places
<1> QED
  BY <1>2, <1>3

LEMMA UnlockStep ==
  ASSUME LockFileInvariant, NEW p \in Proc, Unlock(p)
  PROVE  LockFileInvariant'
<1>1. /\ at[p] = "inside" /\ at' = [at EXCEPT ![p] = "released"]
      /\ owner' = [owner EXCEPT ![fd[p]] = None] /\ fd' = fd /\ file' = file
      /\ fd[p] \in Inodes
  BY DEF Unlock, Move, LockFileInvariant, TypeOK, SameInode
<1>2. TypeOK' /\ SameInode' /\ \A q \in Proc : at'[q] = "idle" => fd'[q] = None
  BY <1>1 DEF LockFileInvariant, TypeOK, SameInode, Places
<1>3. ASSUME NEW j \in Inodes, NEW q \in Proc
      PROVE  owner'[j] = q <=> at'[q] = "inside" /\ fd'[q] = j
  <2>1. owner[fd[p]] = p
    BY <1>1 DEF LockFileInvariant
  <2>2. owner[j] = q <=> at[q] = "inside" /\ fd[q] = j
    BY DEF LockFileInvariant
  <2>3. CASE j = fd[p]
    BY <1>1, <2>1, <2>2, <2>3, NoneAssumption DEF LockFileInvariant, TypeOK
  <2>4. CASE j # fd[p]
    BY <1>1, <2>2, <2>4 DEF LockFileInvariant, TypeOK
  <2> QED
    BY <2>3, <2>4
<1> QED
  BY <1>2, <1>3 DEF LockFileInvariant

LEMMA CloseStep ==
  ASSUME LockFileInvariant, NEW p \in Proc, Close(p)
  PROVE  LockFileInvariant'
<1>1. /\ at' = [at EXCEPT ![p] = "idle"] /\ fd' = [fd EXCEPT ![p] = None]
      /\ owner' = [i \in Inodes |-> IF owner[i] = p THEN None ELSE owner[i]]
      /\ file' = file
  BY DEF Close, Move
<1>2. TypeOK' /\ SameInode' /\ \A q \in Proc : at'[q] = "idle" => fd'[q] = None
  BY <1>1 DEF LockFileInvariant, TypeOK, SameInode, Places
<1>3. ASSUME NEW j \in Inodes, NEW q \in Proc
      PROVE  owner'[j] = q <=> at'[q] = "inside" /\ fd'[q] = j
  <2>1. owner[j] = q <=> at[q] = "inside" /\ fd[q] = j
    BY DEF LockFileInvariant
  <2> QED
    BY <1>1, <2>1, NoneAssumption DEF LockFileInvariant, TypeOK
<1> QED
  BY <1>2, <1>3 DEF LockFileInvariant

LEMMA LockFileInvariance == Spec => []LockFileInvariant
<1>1. Init => LockFileInvariant
  BY NoneAssumption DEF Init, LockFileInvariant, TypeOK, SameInode, Places
<1>2. LockFileInvariant /\ [Next]_vars => LockFileInvariant'
  <2>1. ASSUME LockFileInvariant, UNCHANGED vars PROVE LockFileInvariant'
    BY <2>1 DEF vars, LockFileInvariant, TypeOK, SameInode
  <2> QED
    BY <2>1, OpenStep, FlockStep, UnlockStep, CloseStep DEF Next
<1> QED
  BY <1>1, <1>2, PTL DEF Spec

\* Whoever has the lock file open has the one file the path names: the file is
\* never replaced under a process that holds or awaits the lock.
THEOREM OneLockFile == Spec => []SameInode
<1>1. LockFileInvariant => SameInode
  BY DEF LockFileInvariant
<1> QED
  BY <1>1, LockFileInvariance, PTL

\* The file, its descriptors and their flocks implement JobMutex: one holder at
\* most, "busy" only beside a holder, and nothing left of a process that died.
THEOREM LockFileIsMutex == Spec => IsMutex
<1> DEFINE Holders == {p \in Proc : at[p] = "inside"}
           Refused == {p \in Proc : at[p] = "busy"}
<1>1. Init => Mutex!Init
  BY DEF Init, Mutex!Init
<1>2. LockFileInvariant /\ [Next]_vars => [Mutex!Next]_<<Holders, Refused>>
  <2> SUFFICES ASSUME LockFileInvariant, [Next]_vars
               PROVE  Mutex!Next \/ UNCHANGED <<Holders, Refused>>
    OBVIOUS
  <2>1. ASSUME NEW p \in Proc, open_lock(p) PROVE UNCHANGED <<Holders, Refused>>
    BY <2>1 DEF open_lock, Move, LockFileInvariant, TypeOK
  <2>2. ASSUME NEW p \in Proc, Flock(p) PROVE Mutex!Next
    <3>1. at[p] = "opened" /\ fd[p] \in Inodes /\ fd[p] = file
      BY <2>2 DEF Flock, LockFileInvariant, TypeOK, SameInode
    <3>2. CASE owner[fd[p]] = None
      <4>1. at' = [at EXCEPT ![p] = "inside"]
        BY <2>2, <3>2 DEF Flock, Move
      <4>2. Holders = {}
        BY <3>1, <3>2, NoneAssumption DEF LockFileInvariant, SameInode
      <4>3. Holders' = {p} /\ Refused' = Refused /\ p \notin Refused
        BY <3>1, <4>1, <4>2 DEF LockFileInvariant, TypeOK
      <4> QED
        BY <4>2, <4>3 DEF Mutex!Next, Mutex!Acquire
    <3>3. CASE owner[fd[p]] # None
      <4>1. at' = [at EXCEPT ![p] = "busy"]
        BY <2>2, <3>3 DEF Flock, Move
      <4>2. owner[fd[p]] \in Holders
        BY <3>1, <3>3 DEF LockFileInvariant, TypeOK
      <4>3. Holders' = Holders /\ Refused' = Refused \cup {p} /\ p \notin Holders
        BY <3>1, <4>1 DEF LockFileInvariant, TypeOK
      <4> QED
        BY <4>2, <4>3 DEF Mutex!Next, Mutex!Refuse
    <3> QED
      BY <3>2, <3>3
  <2>3. ASSUME NEW p \in Proc, Unlock(p) \/ Close(p) PROVE Mutex!Next
    <3>1. at' = [at EXCEPT ![p] = "released"] \/ at' = [at EXCEPT ![p] = "idle"]
      BY <2>3 DEF Unlock, Close, Move
    <3>2. Holders' = Holders \ {p} /\ Refused' = Refused \ {p}
      BY <3>1 DEF LockFileInvariant, TypeOK
    <3> QED
      BY <3>2 DEF Mutex!Next, Mutex!Leave
  <2>4. CASE UNCHANGED vars
    BY <2>4 DEF vars
  <2> QED
    BY <2>1, <2>2, <2>3, <2>4 DEF Next
<1> QED
  BY <1>1, <1>2, LockFileInvariance, PTL DEF Spec, IsMutex, Mutex!Spec
=============================================================================
