---- MODULE InstanceLock ----
(***************************************************************************)
(* ipc::InstanceLock on POSIX: flock(LOCK_EX | LOCK_NB) on a lock file     *)
(* whose descriptor is opened with O_CLOEXEC.                              *)
(*                                                                         *)
(* A flock belongs to an inode and to an open file description.  The       *)
(* description stays open, and the lock held, while the process that       *)
(* opened it or a child it forked that has not executed yet keeps a        *)
(* descriptor; opening the path again gives another description of         *)
(* whatever inode the path names at that moment.                           *)
(***************************************************************************)
EXTENDS Naturals, Processes

CONSTANT LockInodes  \* inodes the lock path may come to name

ASSUME LockInodesAssumption == None \notin LockInodes

VARIABLES
    lockNode,  \* the inode the lock path names, None before the first acquire
    lockFd,    \* lockFd[p]: the inode behind the descriptor of p, or None
    locked,    \* the processes whose description carries the flock
    lockChild  \* lockChild[p]: the inode a forked, not yet executed child of p
               \* keeps locked, or None

lockVars == <<lockNode, lockFd, locked, lockChild>>

LockInit ==
    /\ lockNode = None
    /\ lockFd = [p \in Procs |-> None]
    /\ locked = {}
    /\ lockChild = [p \in Procs |-> None]

LockTypeOK ==
    /\ lockNode \in LockInodes \cup {None}
    /\ lockFd \in [Procs -> LockInodes \cup {None}]
    /\ locked \subseteq Procs
    /\ lockChild \in [Procs -> LockInodes \cup {None}]

\* The inodes on which somebody's description carries the flock.
FlockedInodes == {lockFd[p] : p \in locked} \cup {lockChild[p] : p \in Procs}

\* open(path, O_CREAT | O_RDWR | O_CLOEXEC): creates the file if it is missing.
OpenLock(p) ==
    \E i \in LockInodes :
        /\ IF lockNode = None
           THEN i \notin {lockFd[q] : q \in Procs} \cup {lockChild[q] : q \in Procs}
           ELSE i = lockNode
        /\ lockNode' = i
        /\ lockFd' = [lockFd EXCEPT ![p] = i]
        /\ UNCHANGED <<locked, lockChild>>

\* Variant: the lock is taken shared.
FlockTakenShared(p) ==
    /\ locked' = locked \cup {p}
    /\ UNCHANGED <<lockNode, lockFd, lockChild>>

\* flock succeeds: nobody's description holds this inode.
FlockTaken(p) ==
    /\ lockFd[p] \notin FlockedInodes
    /\ locked' = locked \cup {p}
    /\ UNCHANGED <<lockNode, lockFd, lockChild>>

\* flock fails with EWOULDBLOCK: the descriptor is closed, acquire returns Err.
FlockRefused(p) ==
    /\ lockFd[p] \in FlockedInodes
    /\ lockFd' = [lockFd EXCEPT ![p] = None]
    /\ UNCHANGED <<lockNode, locked, lockChild>>

\* Variant: the lock file is unlinked when the lock is released.
DropLockUnlinking(p) ==
    /\ lockNode' = IF p \in locked THEN None ELSE lockNode
    /\ lockFd' = [lockFd EXCEPT ![p] = None]
    /\ locked' = locked \ {p}
    /\ UNCHANGED lockChild

\* The descriptor of p closes, by release() or because p dies.  The file stays.
DropLock(p) ==
    /\ lockFd' = [lockFd EXCEPT ![p] = None]
    /\ locked' = locked \ {p}
    /\ UNCHANGED <<lockNode, lockChild>>
====
