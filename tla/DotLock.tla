------------------------------ MODULE DotLock ------------------------------
(***************************************************************************)
(* mutilsDotLock and mutilsDotUnlock of mutils.c: processes that exclude   *)
(* each other with flock() on a file that the last user may delete.        *)
(***************************************************************************)
EXTENDS Integers

Nobody == "nobody"
CONSTANTS
  LockProcesses,
  LockFiles      \* bound: the files (inodes) that come to stand at the path

ASSUME LockAssumption == LockFiles \in Nat /\ Nobody \notin LockProcesses

VARIABLES
  dlPath,     \* the file at the path, 0 if there is none
  dlNew,      \* how many files there have been
  dlFd,       \* the file that lock_fd of a process is open on, or -1
  dlPc,       \* "idle", "waits" in flock, "holds" (goes on after it), "unlinks"
  dlOwner     \* the process whose lock is on a file

dlVars == <<dlPath, dlNew, dlFd, dlPc, dlOwner>>
LockInit ==
  /\ dlPath = 0 /\ dlNew = 0
  /\ dlFd = [p \in LockProcesses |-> -1] /\ dlPc = [p \in LockProcesses |-> "idle"]
  /\ dlOwner = [i \in 1 .. LockFiles |-> Nobody]

Becomes(p, pc) == dlPc' = [dlPc EXCEPT ![p] = pc]

(* open with O_CREAT; an open that fails leaves the process without a lock *)
(* and a text in errbuf.                                                   *)
OpenLock(p) ==
  /\ dlPc[p] = "idle"
  /\ dlPath' = IF dlPath # 0 THEN dlPath ELSE dlNew + 1
  /\ dlPath' <= LockFiles
  /\ dlNew' = IF dlPath # 0 THEN dlNew ELSE dlNew + 1
  /\ dlFd' = [dlFd EXCEPT ![p] = dlPath'] /\ Becomes(p, "waits")
  /\ UNCHANGED dlOwner

(* mutilsSetLock: flock(LOCK_EX), whose result is thrown away: when it     *)
(* fails, interrupted or for want of locks, the process goes on without.   *)
SetLock(p) ==
  /\ dlPc[p] = "waits" /\ Becomes(p, "holds")
  /\ \/ dlOwner[dlFd[p]] = Nobody /\ dlOwner' = [dlOwner EXCEPT ![dlFd[p]] = p]
     \/ UNCHANGED dlOwner
  /\ UNCHANGED <<dlPath, dlNew, dlFd>>

(* The kernel closes: what the process had locked is free.                 *)
Released(p) == [i \in DOMAIN dlOwner |-> IF dlOwner[i] = p THEN Nobody ELSE dlOwner[i]]
Closes(p) == dlOwner' = Released(p) /\ dlFd' = [dlFd EXCEPT ![p] = -1]

(* mutilsDotUnlock: close, and then, for delete = 1, unlink, which removes *)
(* whatever file is at the path by then.                                   *)
Unlock(p, delete) ==
  /\ dlPc[p] = "holds" /\ Closes(p) /\ Becomes(p, IF delete THEN "unlinks" ELSE "idle")
  /\ UNCHANGED <<dlPath, dlNew>>
Unlink(p) ==
  /\ dlPc[p] = "unlinks" /\ dlPath' = 0 /\ Becomes(p, "idle")
  /\ UNCHANGED <<dlNew, dlFd, dlOwner>>

(* A process is killed, waiting or holding, and may be started again.      *)
LockCrash(p) ==
  /\ dlPc[p] # "idle" /\ Closes(p) /\ Becomes(p, "idle")
  /\ UNCHANGED <<dlPath, dlNew>>

LockNext ==
  \E p \in LockProcesses :
    \/ OpenLock(p) \/ SetLock(p) \/ Unlink(p) \/ LockCrash(p)
    \/ \E delete \in BOOLEAN : Unlock(p, delete)
LockSpec == LockInit /\ [][LockNext]_dlVars

-----------------------------------------------------------------------------
(* Properties.                                                             *)

(* Types; a lock is given up with the last descriptor of the file it is on *)
(* (mutils.c:1162-1202).                                                   *)
LockTypeOK ==
  /\ dlPath \in 0 .. LockFiles /\ dlNew \in 0 .. LockFiles
  /\ dlFd \in [LockProcesses -> (1 .. LockFiles) \cup {-1}]
  /\ dlPc \in [LockProcesses -> {"idle", "waits", "holds", "unlinks"}]
  /\ dlOwner \in [1 .. LockFiles -> LockProcesses \cup {Nobody}]
  /\ \A i \in DOMAIN dlOwner : dlOwner[i] # Nobody => dlFd[dlOwner[i]] = i
=============================================================================
