---- MODULE SingleInstance_proofs ----
(***************************************************************************)
(* The single-instance protocol keeps one primary and keeps it reachable,  *)
(* for every set of processes and sockets and every number of crashes and  *)
(* of spawned children.                                                    *)
(***************************************************************************)
EXTENDS SingleInstance, SequenceTheorems, TLAPS

ListenerUnchanged == UNCHANGED listenerVars
LockUnchanged == UNCHANGED lockVars

\* The lock file, once created, is the one everybody opens, so at most one
\* description carries its flock.
LockInv ==
    /\ \A p \in Procs : lockFd[p] # None => lockFd[p] = lockNode
    /\ \A p \in locked : lockFd[p] # None
    /\ \A p, q \in locked : p = q

\* Where a process is tells what it holds of the lock ...
StageInv ==
    \A p \in Procs : /\ pc[p] = "flock" => lockFd[p] # None
                     /\ Primary(p) <=> p \in locked

\* ... and of the channel.
FdInv == \A p \in Procs : fd[p] # None <=> pc[p] \in {"listen", "owner", "closing"}

NodeInv ==
    \A p \in Procs : /\ pc[p] \in {"listen", "owner"} => node = fd[p]
                     /\ pc[p] = "owner" => fd[p] \in listening

\* A socket listens and queues only while somebody has it open, and what is
\* queued on the socket of a primary came from clients.
QueueInv ==
    /\ listening \subseteq OpenSockets
    /\ \A s \in Sockets \ OpenSockets : backlog[s] = <<>>
    /\ \A p \in Procs : fd[p] # None =>
         \A i \in DOMAIN backlog[fd[p]] : backlog[fd[p]][i] \notin {Probe, p}

IInv ==
    /\ TypeOK
    /\ LockInv
    /\ StageInv
    /\ FdInv
    /\ NodeInv
    /\ QueueInv
    /\ ChannelsHaveClients

----------------------------------------------------------------------------
LEMMA IInvImpliesOnePrimary == IInv => OnePrimary
  BY DEF IInv, LockInv, StageInv, OnePrimary

LEMMA IInvImpliesOwnerReachable == IInv => OwnerReachable
  BY DEF IInv, NodeInv, OwnerReachable, Answers

LEMMA InitIInv == Init => IInv
<1> SUFFICES ASSUME Init PROVE IInv
  OBVIOUS
<1> USE NoneAssumption, ValuesAssumption, BoundsAssumption
        DEF Init, ListenerInit, LockInit
<1>1. TypeOK
  <2>1. ListenerTypeOK
    BY DEF ListenerTypeOK, NoChild, Peers
  <2>2. LockTypeOK
    BY DEF LockTypeOK
  <2> QED  BY <2>1, <2>2 DEF TypeOK
<1>2. LockInv /\ StageInv /\ FdInv /\ NodeInv
  BY DEF LockInv, StageInv, FdInv, NodeInv, Primary, PrimaryStages
<1>3. QueueInv /\ ChannelsHaveClients
  BY DEF QueueInv, ChannelsHaveClients
<1> QED  BY <1>1, <1>2, <1>3 DEF IInv

----------------------------------------------------------------------------
(* The lock. *)

\* A step that leaves the lock alone and takes no process into a stage it
\* does not hold the lock for keeps the invariant of the lock.
LEMMA LockUntouched ==
  ASSUME IInv, LockUnchanged
  PROVE  LockTypeOK' /\ LockInv'
  BY DEF IInv, TypeOK, LockTypeOK, LockInv, LockUnchanged, lockVars

\* Every operation on the lock preserves its invariant; a flock is taken only
\* when nobody has it.
LEMMA OpenLockStep ==
  ASSUME IInv, NEW p \in Procs, pc[p] = "idle", OpenLock(p)
  PROVE  LockTypeOK' /\ LockInv' /\ lockFd'[p] # None /\ locked' = locked
<1> USE LockInodesAssumption DEF IInv, TypeOK, LockTypeOK, OpenLock
<1>1. LockTypeOK'
  OBVIOUS
<1>2. PICK i \in LockInodes : /\ lockNode # None => i = lockNode
                              /\ lockNode' = i
                              /\ lockFd' = [lockFd EXCEPT ![p] = i]
                              /\ locked' = locked
  OBVIOUS
<1>3. LockInv'
  BY <1>2 DEF LockInv
<1> QED  BY <1>1, <1>2, <1>3

LEMMA FlockTakenStep ==
  ASSUME IInv, NEW p \in Procs, pc[p] = "flock", FlockTaken(p)
  PROVE  LockTypeOK' /\ LockInv' /\ locked = {} /\ locked' = {p}
<1> USE DEF IInv, TypeOK, LockTypeOK, LockInv, StageInv, FlockTaken
<1>1. locked = {}
  <2> SUFFICES ASSUME NEW q \in locked PROVE FALSE
    OBVIOUS
  <2>1. lockFd[q] \in FlockedInodes
    BY DEF FlockedInodes
  <2>2. lockFd[q] = lockNode /\ lockFd[p] = lockNode
    OBVIOUS
  <2> QED  BY <2>1, <2>2
<1>2. LockTypeOK'
  OBVIOUS
<1>3. LockInv'
  BY <1>1
<1> QED  BY <1>1, <1>2, <1>3

LEMMA DropLockStep ==
  ASSUME IInv, NEW p \in Procs,
         /\ lockNode' = lockNode
         /\ lockFd' = [lockFd EXCEPT ![p] = None]
         /\ locked' = locked \ {p}
         /\ lockChild' = lockChild
  PROVE  LockTypeOK' /\ LockInv'
  BY DEF IInv, TypeOK, LockTypeOK, LockInv

----------------------------------------------------------------------------
(* Steps that only move a process between stages without a socket. *)

Sockless == {"idle", "flock", "probe", "unlink", "name", "done", "connect", "client"}

\* The node and the sockets stay as they are when no process touches them.
LEMMA OnlyMoves ==
  ASSUME IInv, NEW p \in Procs, NEW where \in Sockless,
         pc[p] \in Sockless, Goto(p, where),
         UNCHANGED <<node, fd, listening, backlog, chan, child>>
  PROVE  ListenerTypeOK' /\ FdInv' /\ NodeInv' /\ QueueInv' /\ ChannelsHaveClients'
<1> USE DEF IInv, TypeOK, ListenerTypeOK, Goto, Sockless
<1>1. ListenerTypeOK'
  OBVIOUS
<1>2. FdInv' /\ NodeInv'
  BY DEF FdInv, NodeInv
<1>3. OpenSockets' = OpenSockets
  BY DEF OpenSockets
<1>4. QueueInv'
  BY <1>3 DEF QueueInv
<1>5. ChannelsHaveClients'
  BY DEF ChannelsHaveClients
<1> QED  BY <1>1, <1>2, <1>4, <1>5

LEMMA OpenStep == ASSUME IInv, NEW p \in Procs, Open(p) PROVE IInv'
<1> USE DEF Open
<1>1. LockTypeOK' /\ LockInv' /\ lockFd'[p] # None /\ locked' = locked
  BY OpenLockStep
<1>2. ListenerTypeOK' /\ FdInv' /\ NodeInv' /\ QueueInv' /\ ChannelsHaveClients'
  BY OnlyMoves DEF Sockless
<1>3. StageInv'
  BY <1>1 DEF IInv, TypeOK, ListenerTypeOK, LockTypeOK, StageInv, Primary, PrimaryStages,
              Goto, OpenLock
<1> QED  BY <1>1, <1>2, <1>3 DEF IInv, TypeOK

LEMMA BecomePrimaryStep == ASSUME IInv, NEW p \in Procs, BecomePrimary(p) PROVE IInv'
<1> USE DEF BecomePrimary
<1>1. LockTypeOK' /\ LockInv' /\ locked = {} /\ locked' = {p} /\ lockFd' = lockFd
  BY FlockTakenStep DEF FlockTaken
<1>2. ListenerTypeOK' /\ FdInv' /\ NodeInv' /\ QueueInv' /\ ChannelsHaveClients'
  BY OnlyMoves DEF Sockless
<1>3. StageInv'
  BY <1>1 DEF IInv, TypeOK, ListenerTypeOK, StageInv, Primary, PrimaryStages, Goto
<1> QED  BY <1>1, <1>2, <1>3 DEF IInv, TypeOK

LEMMA BecomeClientStep == ASSUME IInv, NEW p \in Procs, BecomeClient(p) PROVE IInv'
<1> USE DEF BecomeClient
<1>1. p \notin locked
  BY DEF IInv, StageInv, Primary, PrimaryStages
<1>2. locked \ {p} = locked
  BY <1>1
<1>3. LockTypeOK' /\ LockInv'
  BY <1>2, DropLockStep DEF FlockRefused
<1>4. ListenerTypeOK' /\ FdInv' /\ NodeInv' /\ QueueInv' /\ ChannelsHaveClients'
  BY OnlyMoves DEF Sockless
<1>5. StageInv'
  BY DEF IInv, TypeOK, ListenerTypeOK, LockTypeOK, StageInv, Primary, PrimaryStages,
         Goto, FlockRefused
<1> QED  BY <1>3, <1>4, <1>5 DEF IInv, TypeOK

LEMMA ReleaseStep == ASSUME IInv, NEW p \in Procs, Release(p) PROVE IInv'
<1> USE DEF Release
<1>1. LockTypeOK' /\ LockInv'
  BY DropLockStep DEF DropLock
<1>2. ListenerTypeOK' /\ FdInv' /\ NodeInv' /\ QueueInv' /\ ChannelsHaveClients'
  BY OnlyMoves DEF Sockless
<1>3. StageInv'
  BY DEF IInv, TypeOK, ListenerTypeOK, LockTypeOK, StageInv, Primary, PrimaryStages,
         Goto, DropLock
<1> QED  BY <1>1, <1>2, <1>3 DEF IInv, TypeOK

----------------------------------------------------------------------------
(* The steps of bind, accept, close and connect; none touches the lock, and *)
(* none takes a process into or out of the primary's stages.                *)

LEMMA StageKept ==
  ASSUME IInv, NEW p \in Procs, NEW where,
         Goto(p, where), LockUnchanged,
         where # "flock", where \in PrimaryStages <=> pc[p] \in PrimaryStages
  PROVE  LockTypeOK' /\ LockInv' /\ StageInv'
<1>1. LockTypeOK' /\ LockInv'
  BY LockUntouched
<1>2. StageInv'
  BY DEF IInv, TypeOK, ListenerTypeOK, StageInv, Primary, Goto, LockUnchanged, lockVars
<1> QED  BY <1>1, <1>2

Aside == UNCHANGED <<lockNode, lockFd, locked, lockChild, crashes, spawns>>

\* What a connection queued on the node does to the queues.
LEMMA Queueing ==
  ASSUME IInv, NEW peer \in Peers, Answers, Len(backlog[node]) < Backlog,
         backlog' = [backlog EXCEPT ![node] = Append(@, peer)]
  PROVE  /\ node \in Sockets
         /\ backlog' \in [Sockets -> Seq(Peers)]
         /\ \A s \in Sockets : Len(backlog'[s]) <= Backlog
         /\ \A s \in Sockets \ OpenSockets : backlog'[s] = <<>>
         /\ \A s \in Sockets : \A i \in DOMAIN backlog'[s] :
              \/ i \in DOMAIN backlog[s] /\ backlog'[s][i] = backlog[s][i]
              \/ s = node /\ backlog'[s][i] = peer
<1> USE ValuesAssumption DEF IInv, TypeOK, ListenerTypeOK, Answers, QueueInv
<1>1. node \in Sockets /\ node \in OpenSockets
  OBVIOUS
<1>2. backlog[node] \in Seq(Peers) /\ Len(backlog[node]) \in Nat
  BY <1>1
<1>3. /\ Append(backlog[node], peer) \in Seq(Peers)
      /\ Len(Append(backlog[node], peer)) = Len(backlog[node]) + 1
      /\ \A i \in DOMAIN Append(backlog[node], peer) :
            \/ i \in DOMAIN backlog[node] /\ Append(backlog[node], peer)[i] = backlog[node][i]
            \/ Append(backlog[node], peer)[i] = peer
  BY <1>2
<1>4. \A s \in Sockets : backlog'[s] = IF s = node THEN Append(backlog[node], peer)
                                        ELSE backlog[s]
  OBVIOUS
<1>5. /\ backlog' \in [Sockets -> Seq(Peers)]
      /\ \A s \in Sockets : Len(backlog'[s]) <= Backlog
  BY <1>2, <1>3, <1>4
<1>6. \A s \in Sockets \ OpenSockets : backlog'[s] = <<>>
  BY <1>1, <1>4
<1> QED  BY <1>1, <1>3, <1>4, <1>5, <1>6

LEMMA ProbeAnsweredStep ==
  ASSUME IInv, NEW p \in Procs, ProbeAnswered(p), Aside
  PROVE  IInv'
<1> USE ValuesAssumption DEF ProbeAnswered
<1>1. LockTypeOK' /\ LockInv' /\ StageInv'
  BY StageKept DEF Aside, LockUnchanged, lockVars, PrimaryStages
<1>2. /\ node \in Sockets
      /\ backlog' \in [Sockets -> Seq(Peers)]
      /\ \A s \in Sockets : Len(backlog'[s]) <= Backlog
      /\ \A s \in Sockets \ OpenSockets : backlog'[s] = <<>>
      /\ \A s \in Sockets : \A i \in DOMAIN backlog'[s] :
           \/ i \in DOMAIN backlog[s] /\ backlog'[s][i] = backlog[s][i]
           \/ s = node /\ backlog'[s][i] = Probe
  BY Queueing, Probe \in Peers DEF Peers
<1>3. ListenerTypeOK'
  BY <1>2 DEF IInv, TypeOK, ListenerTypeOK, Goto
<1>4. FdInv' /\ NodeInv' /\ ChannelsHaveClients'
  BY DEF IInv, TypeOK, ListenerTypeOK, FdInv, NodeInv, ChannelsHaveClients, Goto
<1>5. \A q \in Procs : fd[q] = None
  \* Only a primary has a socket, and the one primary is still probing.
  BY IInvImpliesOnePrimary DEF IInv, FdInv, OnePrimary, Primary, PrimaryStages
<1>6. OpenSockets' = OpenSockets
  BY DEF OpenSockets
<1>7. QueueInv'
  BY <1>2, <1>5, <1>6 DEF IInv, QueueInv
<1> QED  BY <1>1, <1>3, <1>4, <1>7 DEF IInv, TypeOK, Aside

LEMMA ConnectAcceptedStep ==
  ASSUME IInv, NEW c \in Procs, ConnectAccepted(c), Aside
  PROVE  IInv'
<1> USE ValuesAssumption DEF ConnectAccepted
<1>1. LockTypeOK' /\ LockInv' /\ StageInv'
  BY StageKept DEF Aside, LockUnchanged, lockVars, PrimaryStages
<1>2. /\ node \in Sockets
      /\ backlog' \in [Sockets -> Seq(Peers)]
      /\ \A s \in Sockets : Len(backlog'[s]) <= Backlog
      /\ \A s \in Sockets \ OpenSockets : backlog'[s] = <<>>
      /\ \A s \in Sockets : \A i \in DOMAIN backlog'[s] :
           \/ i \in DOMAIN backlog[s] /\ backlog'[s][i] = backlog[s][i]
           \/ s = node /\ backlog'[s][i] = c
  BY Queueing, c \in Peers DEF Peers
<1>3. ListenerTypeOK'
  BY <1>2 DEF IInv, TypeOK, ListenerTypeOK, Goto
<1>4. FdInv' /\ NodeInv' /\ ChannelsHaveClients'
  BY DEF IInv, TypeOK, ListenerTypeOK, FdInv, NodeInv, ChannelsHaveClients, Goto
<1>5. OpenSockets' = OpenSockets
  BY DEF OpenSockets
<1>6. ASSUME NEW p \in Procs, fd[p] # None, NEW i \in DOMAIN backlog'[fd[p]]
      PROVE  backlog'[fd[p]][i] \notin {Probe, p}
  <2>1. fd[p] \in Sockets /\ p # c
    BY <1>6 DEF IInv, TypeOK, ListenerTypeOK, FdInv
  <2> QED  BY <1>2, <1>6, <2>1 DEF IInv, QueueInv
<1>7. QueueInv'
  BY <1>2, <1>5, <1>6 DEF IInv, QueueInv
<1> QED  BY <1>1, <1>3, <1>4, <1>7 DEF IInv, TypeOK, Aside

LEMMA QuietStep ==
  ASSUME IInv, NEW p \in Procs, Aside,
         ProbeRefused(p) \/ ConnectRefused(p) \/ PeerClosed(p)
  PROVE  IInv'
<1>1. PICK where \in {"unlink", "idle"} :
        /\ Goto(p, where)
        /\ pc[p] \in Sockless
        /\ where \in PrimaryStages <=> pc[p] \in PrimaryStages
        /\ UNCHANGED <<node, fd, listening, backlog, chan, child>>
  BY DEF ProbeRefused, ConnectRefused, PeerClosed, PrimaryStages, Sockless
<1>2. LockTypeOK' /\ LockInv' /\ StageInv'
  BY <1>1, StageKept DEF Aside, LockUnchanged, lockVars
<1>3. ListenerTypeOK' /\ FdInv' /\ NodeInv' /\ QueueInv' /\ ChannelsHaveClients'
  BY <1>1, OnlyMoves DEF Sockless
<1> QED  BY <1>2, <1>3 DEF IInv, TypeOK, Aside

\* Nobody but p has a socket while p is the primary.
LEMMA PrimaryAlone ==
  ASSUME IInv, NEW p \in Procs, Primary(p)
  PROVE  \A q \in Procs \ {p} : fd[q] = None /\ pc[q] \notin PrimaryStages
  BY IInvImpliesOnePrimary DEF IInv, FdInv, OnePrimary, Primary, PrimaryStages

LEMMA UnlinkStep == ASSUME IInv, NEW p \in Procs, Unlink(p), Aside PROVE IInv'
<1> USE DEF Unlink
<1>1. LockTypeOK' /\ LockInv' /\ StageInv'
  BY StageKept DEF Aside, LockUnchanged, lockVars, PrimaryStages
<1>2. \A q \in Procs \ {p} : fd[q] = None /\ pc[q] \notin PrimaryStages
  BY PrimaryAlone DEF Primary, PrimaryStages
<1>3. ListenerTypeOK'
  BY DEF IInv, TypeOK, ListenerTypeOK, Goto
<1>4. FdInv' /\ NodeInv' /\ ChannelsHaveClients'
  BY <1>2 DEF IInv, TypeOK, ListenerTypeOK, FdInv, NodeInv, ChannelsHaveClients, Goto,
              PrimaryStages
<1>5. OpenSockets' = OpenSockets
  BY DEF OpenSockets
<1>6. QueueInv'
  BY <1>5 DEF IInv, QueueInv
<1> QED  BY <1>1, <1>3, <1>4, <1>6 DEF IInv, TypeOK, Aside

LEMMA CloseUnlinkStep == ASSUME IInv, NEW p \in Procs, CloseUnlink(p), Aside PROVE IInv'
<1> USE DEF CloseUnlink
<1>1. LockTypeOK' /\ LockInv' /\ StageInv'
  BY StageKept DEF Aside, LockUnchanged, lockVars, PrimaryStages
<1>2. \A q \in Procs \ {p} : fd[q] = None /\ pc[q] \notin PrimaryStages
  BY PrimaryAlone DEF Primary, PrimaryStages
<1>3. ListenerTypeOK'
  BY DEF IInv, TypeOK, ListenerTypeOK, Goto
<1>4. FdInv' /\ NodeInv' /\ ChannelsHaveClients'
  BY <1>2 DEF IInv, TypeOK, ListenerTypeOK, FdInv, NodeInv, ChannelsHaveClients, Goto,
              PrimaryStages
<1>5. OpenSockets' = OpenSockets
  BY DEF OpenSockets
<1>6. QueueInv'
  BY <1>5 DEF IInv, QueueInv
<1> QED  BY <1>1, <1>3, <1>4, <1>6 DEF IInv, TypeOK, Aside

LEMMA BindNameStep == ASSUME IInv, NEW p \in Procs, BindName(p), Aside PROVE IInv'
<1> USE ValuesAssumption
<1>1. CASE node # None
  <2>1. /\ pc[p] \in Sockless /\ Goto(p, "done")
        /\ UNCHANGED <<node, fd, listening, backlog, chan, child>>
    BY <1>1 DEF BindName, Sockless
  <2>2. LockTypeOK' /\ LockInv' /\ StageInv'
    BY <1>1, <2>1, StageKept DEF BindName, Aside, LockUnchanged, lockVars, PrimaryStages
  <2>3. ListenerTypeOK' /\ FdInv' /\ NodeInv' /\ QueueInv' /\ ChannelsHaveClients'
    BY <2>1, OnlyMoves DEF Sockless
  <2> QED  BY <2>2, <2>3 DEF IInv, TypeOK, Aside
<1>2. CASE node = None
  <2>1. PICK s \in FreeSockets : /\ pc[p] = "name"
                                 /\ node' = s
                                 /\ fd' = [fd EXCEPT ![p] = s]
                                 /\ Goto(p, "listen")
                                 /\ UNCHANGED <<listening, backlog, chan, child>>
    BY <1>2 DEF BindName
  <2>2. s \in Sockets /\ s \notin OpenSockets /\ s # None
    BY DEF FreeSockets
  <2>3. LockTypeOK' /\ LockInv' /\ StageInv'
    BY <2>1, StageKept DEF Aside, LockUnchanged, lockVars, PrimaryStages
  <2>4. \A q \in Procs \ {p} : fd[q] = None /\ pc[q] \notin PrimaryStages
    BY <2>1, PrimaryAlone DEF Primary, PrimaryStages
  <2>5. fd[p] = None
    BY <2>1 DEF IInv, FdInv
  <2>6. ListenerTypeOK'
    BY <2>1, <2>2 DEF IInv, TypeOK, ListenerTypeOK, Goto
  <2>7. FdInv' /\ NodeInv' /\ ChannelsHaveClients'
    BY <2>1, <2>2, <2>4 DEF IInv, TypeOK, ListenerTypeOK, FdInv, NodeInv,
                            ChannelsHaveClients, Goto, PrimaryStages
  <2>8. OpenSockets \subseteq OpenSockets' /\ s \in OpenSockets'
    BY <2>1, <2>2, <2>5 DEF OpenSockets, IInv, TypeOK, ListenerTypeOK
  <2>9. backlog[s] = <<>>
    BY <2>2 DEF IInv, QueueInv
  <2>10. QueueInv'
    <3>1. \A q \in Procs : fd'[q] # None => q = p /\ fd'[q] = s
      BY <2>1, <2>4 DEF IInv, TypeOK, ListenerTypeOK
    <3>2. DOMAIN backlog'[s] = {}
      BY <2>1, <2>9
    <3> QED  BY <2>1, <2>8, <3>1, <3>2 DEF IInv, QueueInv
  <2> QED  BY <2>3, <2>6, <2>7, <2>10 DEF IInv, TypeOK, Aside
<1> QED  BY <1>1, <1>2

LEMMA ListenStep == ASSUME IInv, NEW p \in Procs, Listen(p), Aside PROVE IInv'
<1> USE DEF Listen
<1>1. LockTypeOK' /\ LockInv' /\ StageInv'
  BY StageKept DEF Aside, LockUnchanged, lockVars, PrimaryStages
<1>2. fd[p] \in Sockets /\ fd[p] \in OpenSockets
  BY ValuesAssumption DEF IInv, TypeOK, ListenerTypeOK, FdInv, OpenSockets
<1>3. ListenerTypeOK'
  BY <1>2 DEF IInv, TypeOK, ListenerTypeOK, Goto
<1>4. FdInv' /\ NodeInv' /\ ChannelsHaveClients'
  BY DEF IInv, TypeOK, ListenerTypeOK, FdInv, NodeInv, ChannelsHaveClients, Goto
<1>5. OpenSockets' = OpenSockets
  BY DEF OpenSockets
<1>6. QueueInv'
  BY <1>2, <1>5 DEF IInv, QueueInv
<1> QED  BY <1>1, <1>3, <1>4, <1>6 DEF IInv, TypeOK, Aside

LEMMA AcceptStep == ASSUME IInv, NEW p \in Procs, Accept(p), Aside PROVE IInv'
<1> USE ValuesAssumption DEF Accept
<1> DEFINE q == backlog[fd[p]]
<1>1. LockTypeOK' /\ LockInv' /\ StageInv'
  <2>1. LockTypeOK' /\ LockInv'
    BY LockUntouched DEF Aside, LockUnchanged, lockVars
  <2> QED  BY <2>1 DEF IInv, StageInv, Primary, Aside
<1>2. /\ fd[p] \in Sockets /\ fd[p] # None
      /\ q \in Seq(Peers) /\ q # <<>> /\ Len(q) <= Backlog
  BY DEF IInv, TypeOK, ListenerTypeOK, FdInv
<1>3. /\ Head(q) \in Peers /\ Head(q) = q[1] /\ 1 \in DOMAIN q
      /\ Tail(q) \in Seq(Peers) /\ Len(Tail(q)) = Len(q) - 1 /\ Len(q) \in Nat
      /\ \A i \in DOMAIN Tail(q) : i + 1 \in DOMAIN q /\ Tail(q)[i] = q[i + 1]
  BY <1>2
<1>4. \A s \in Sockets : backlog'[s] = IF s = fd[p] THEN Tail(q) ELSE backlog[s]
  BY DEF IInv, TypeOK, ListenerTypeOK
<1>5. ListenerTypeOK'
  <2>1. \A s \in Sockets : backlog'[s] \in Seq(Peers) /\ Len(backlog'[s]) <= Backlog
    BY <1>2, <1>3, <1>4 DEF IInv, TypeOK, ListenerTypeOK
  <2>2. backlog' \in [Sockets -> Seq(Peers)]
    BY <2>1 DEF IInv, TypeOK, ListenerTypeOK
  <2>3. chan' \in [Procs -> SUBSET Peers]
    BY <1>2, <1>3 DEF IInv, TypeOK, ListenerTypeOK
  <2> QED  BY <2>1, <2>2, <2>3 DEF IInv, TypeOK, ListenerTypeOK
<1>6. ChannelsHaveClients'
  <2>0. \A i \in DOMAIN q : q[i] \notin {Probe, p}
    BY <1>2 DEF IInv, QueueInv
  <2>1. Head(q) \notin {Probe, p}
    BY <1>3, <2>0
  <2> QED  BY <2>1 DEF IInv, TypeOK, ListenerTypeOK, ChannelsHaveClients
<1>7. FdInv' /\ NodeInv'
  BY DEF IInv, FdInv, NodeInv
<1>8. OpenSockets' = OpenSockets
  BY DEF OpenSockets
<1>9. QueueInv'
  <2>1. fd[p] \in OpenSockets
    BY <1>2 DEF OpenSockets
  <2>2. \A s \in Sockets \ OpenSockets : backlog'[s] = <<>>
    BY <1>4, <2>1 DEF IInv, QueueInv
  <2>3. ASSUME NEW r \in Procs, fd[r] # None, NEW i \in DOMAIN backlog'[fd[r]]
        PROVE  backlog'[fd[r]][i] \notin {Probe, r}
    <3>1. r = p
      BY <2>3, PrimaryAlone DEF Primary, PrimaryStages
    <3>2. backlog'[fd[p]] = Tail(q)
      BY <1>2, <1>4
    <3>3. i + 1 \in DOMAIN q /\ Tail(q)[i] = q[i + 1]
      BY <1>3, <2>3, <3>1, <3>2
    <3>4. q[i + 1] \notin {Probe, p}
      BY <1>2, <3>3 DEF IInv, QueueInv
    <3> HIDE DEF q
    <3> QED  BY <3>1, <3>2, <3>3, <3>4
  <2> QED  BY <1>8, <2>2, <2>3 DEF IInv, QueueInv
<1> QED  BY <1>1, <1>5, <1>6, <1>7, <1>9 DEF IInv, TypeOK, Aside

\* Sockets that lose their last descriptor leave the others as they were.
LEMMA CloseSocketStep == ASSUME IInv, NEW p \in Procs, CloseSocket(p), Aside PROVE IInv'
<1> USE ValuesAssumption DEF CloseSocket, Closes
<1> DEFINE dead == OwnSocket(p)
<1>1. LockTypeOK' /\ LockInv' /\ StageInv'
  BY StageKept DEF Aside, LockUnchanged, lockVars, PrimaryStages
<1>2. \A q \in Procs \ {p} : fd[q] = None /\ pc[q] \notin PrimaryStages
  BY PrimaryAlone DEF Primary, PrimaryStages
<1>3. ListenerTypeOK'
  <2>1. \A s \in Sockets : backlog'[s] = IF s \in dead THEN <<>> ELSE backlog[s]
    OBVIOUS
  <2>2. \A s \in Sockets : backlog'[s] \in Seq(Peers) /\ Len(backlog'[s]) <= Backlog
    BY <2>1 DEF IInv, TypeOK, ListenerTypeOK
  <2>3. backlog' \in [Sockets -> Seq(Peers)]
    BY <2>2
  <2> QED  BY <2>2, <2>3 DEF IInv, TypeOK, ListenerTypeOK, Goto
<1>4. FdInv' /\ NodeInv' /\ ChannelsHaveClients'
  BY <1>2 DEF IInv, TypeOK, ListenerTypeOK, FdInv, NodeInv, ChannelsHaveClients, Goto,
              PrimaryStages
<1>5. \A q \in Procs : fd'[q] = None
  BY <1>2 DEF IInv, TypeOK, ListenerTypeOK
<1>6. OpenSockets \ dead \subseteq OpenSockets'
  <2> SUFFICES ASSUME NEW s \in OpenSockets, s \notin dead PROVE s \in OpenSockets'
    OBVIOUS
  <2>1. s # None
    BY DEF OpenSockets
  <2>2. \E q \in Procs : child[q].sock = s
    BY <1>2, <2>1 DEF OpenSockets, OwnSocket
  <2> QED  BY <2>1, <2>2 DEF OpenSockets
<1>7. QueueInv'
  BY <1>5, <1>6 DEF IInv, QueueInv
<1> QED  BY <1>1, <1>3, <1>4, <1>7 DEF IInv, TypeOK, Aside

LEMMA ListenerStepKeeps ==
  ASSUME IInv, NEW p \in Procs, ListenerStep(p), Aside PROVE IInv'
  BY ProbeAnsweredStep, QuietStep, UnlinkStep, BindNameStep, ListenStep, AcceptStep,
     CloseSocketStep, ConnectAcceptedStep DEF ListenerStep

----------------------------------------------------------------------------
(* Children and crashes. *)

LEMMA ForkStep == ASSUME IInv, NEW p \in Procs, Fork(p) PROVE IInv'
<1> USE ValuesAssumption, BoundsAssumption DEF Fork
<1>1. LockTypeOK' /\ LockInv'
  BY DEF IInv, TypeOK, LockTypeOK, LockInv
<1>2. StageInv' /\ FdInv' /\ NodeInv' /\ ChannelsHaveClients'
  BY DEF IInv, StageInv, FdInv, NodeInv, ChannelsHaveClients, Primary
<1>3. ListenerTypeOK'
  BY DEF IInv, TypeOK, ListenerTypeOK
<1>4. OpenSockets' = OpenSockets
  <2>1. child[p].sock = None /\ fd[p] \in {fd[q] : q \in Procs}
    BY DEF NoChild
  <2>2. \A q \in Procs : child'[q].sock = IF q = p THEN fd[p] ELSE child[q].sock
    BY DEF IInv, TypeOK, ListenerTypeOK
  <2> QED  BY <2>1, <2>2 DEF OpenSockets
<1>5. QueueInv'
  BY <1>4 DEF IInv, QueueInv
<1>6. spawns' \in 0..MaxSpawns
  BY DEF IInv, TypeOK
<1> QED  BY <1>1, <1>2, <1>3, <1>5, <1>6 DEF IInv, TypeOK

LEMMA ExecStep == ASSUME IInv, NEW p \in Procs, Exec(p) PROVE IInv'
<1> USE DEF Exec
<1>1. LockTypeOK' /\ LockInv'
  BY DEF IInv, TypeOK, LockTypeOK, LockInv
<1>2. StageInv' /\ FdInv' /\ NodeInv' /\ ChannelsHaveClients'
  BY DEF IInv, StageInv, FdInv, NodeInv, ChannelsHaveClients, Primary
<1>3. ListenerTypeOK'
  BY DEF IInv, TypeOK, ListenerTypeOK
<1>4. OpenSockets' = OpenSockets
  BY DEF OpenSockets
<1>5. QueueInv'
  BY <1>4 DEF IInv, QueueInv
<1> QED  BY <1>1, <1>2, <1>3, <1>5 DEF IInv, TypeOK

LEMMA ChildExitsStep == ASSUME IInv, NEW p \in Procs, ChildExits(p) PROVE IInv'
<1> USE ValuesAssumption DEF ChildExits, Closes
<1> DEFINE dead == {child[p].sock} \ ({fd[q] : q \in Procs}
                                      \cup {child[q].sock : q \in Procs \ {p}})
<1>1. LockTypeOK' /\ LockInv'
  BY LockUntouched DEF LockUnchanged, lockVars
<1>2. StageInv' /\ FdInv' /\ ChannelsHaveClients'
  BY DEF IInv, StageInv, FdInv, ChannelsHaveClients, Primary
<1>3. \A q \in Procs : fd[q] \notin dead
  OBVIOUS
<1>4. NodeInv'
  BY <1>3 DEF IInv, NodeInv
<1>5. \A s \in Sockets : backlog'[s] = IF s \in dead THEN <<>> ELSE backlog[s]
  OBVIOUS
<1>6. ListenerTypeOK'
  <2>1. \A s \in Sockets : backlog'[s] \in Seq(Peers) /\ Len(backlog'[s]) <= Backlog
    BY <1>5 DEF IInv, TypeOK, ListenerTypeOK
  <2>2. backlog' \in [Sockets -> Seq(Peers)]
    BY <2>1
  <2>3. NoChild \in [sock : Sockets \cup {None}, chans : SUBSET Peers]
    BY DEF NoChild
  <2>4. child' \in [Procs -> [sock : Sockets \cup {None}, chans : SUBSET Peers]]
    BY <2>3 DEF IInv, TypeOK, ListenerTypeOK
  <2> QED  BY <2>1, <2>2, <2>4 DEF IInv, TypeOK, ListenerTypeOK
<1>7. OpenSockets \ dead \subseteq OpenSockets'
  <2> SUFFICES ASSUME NEW s \in OpenSockets, s \notin dead PROVE s \in OpenSockets'
    OBVIOUS
  <2>1. s # None
    BY DEF OpenSockets
  <2>2. (\E q \in Procs : fd[q] = s) \/ (\E q \in Procs \ {p} : child[q].sock = s)
    BY DEF OpenSockets
  <2>3. CASE \E q \in Procs : fd[q] = s
    BY <2>1, <2>3 DEF OpenSockets
  <2>4. CASE \E q \in Procs \ {p} : child[q].sock = s
    BY <2>1, <2>4 DEF OpenSockets, IInv, TypeOK, ListenerTypeOK
  <2> QED  BY <2>2, <2>3, <2>4
<1>8. QueueInv'
  <2>1. listening' \subseteq OpenSockets'
    BY <1>7 DEF IInv, QueueInv
  <2>2. \A s \in Sockets \ OpenSockets' : backlog'[s] = <<>>
    BY <1>5, <1>7 DEF IInv, QueueInv
  <2>3. ASSUME NEW q \in Procs, fd'[q] # None, NEW i \in DOMAIN backlog'[fd'[q]]
        PROVE  backlog'[fd'[q]][i] \notin {Probe, q}
    <3>1. fd[q] \in Sockets /\ fd'[q] = fd[q]
      BY <2>3 DEF IInv, TypeOK, ListenerTypeOK
    <3>2. backlog'[fd[q]] = backlog[fd[q]]
      BY <1>3, <1>5, <3>1
    <3> QED  BY <2>3, <3>1, <3>2 DEF IInv, QueueInv
  <2> QED  BY <2>1, <2>2, <2>3 DEF QueueInv
<1> QED  BY <1>1, <1>2, <1>4, <1>6, <1>8 DEF IInv, TypeOK

MarkedFor(p, q) == [i \in DOMAIN q |-> IF q[i] = p THEN Gone ELSE q[i]]

\* A queue in which the dead client is marked is a queue of the same length.
LEMMA MarkedQueue ==
  ASSUME NEW q \in Seq(Peers), NEW p
  PROVE  /\ MarkedFor(p, q) \in Seq(Peers)
         /\ Len(MarkedFor(p, q)) = Len(q)
         /\ DOMAIN MarkedFor(p, q) = DOMAIN q
<1> DEFINE m == MarkedFor(p, q)
<1> USE DEF MarkedFor
<1>1. Len(q) \in Nat /\ DOMAIN q = 1..Len(q) /\ \A i \in 1..Len(q) : q[i] \in Peers
  OBVIOUS
<1>2. m \in [1..Len(q) -> Peers]
  BY <1>1 DEF Peers
<1>3. m \in Seq(Peers) /\ Len(m) = Len(q)
  BY <1>1, <1>2
<1> QED  BY <1>1, <1>2, <1>3

LEMMA CrashStep == ASSUME IInv, NEW p \in Procs, Crash(p) PROVE IInv'
<1> USE ValuesAssumption DEF Crash
<1> DEFINE dead == OwnSocket(p)
           Marked(s) == MarkedFor(p, backlog[s])
<1>1. /\ node' = IF node \in dead THEN Stale ELSE node
      /\ listening' = listening \ dead
      /\ backlog' = [s \in Sockets |-> IF s \in dead THEN <<>> ELSE Marked(s)]
      /\ fd' = [fd EXCEPT ![p] = None]
      /\ chan' = [q \in Procs |-> IF q = p THEN {} ELSE chan[q] \ {p}]
      /\ child' = [q \in Procs |-> [child[q] EXCEPT !.chans = @ \ {p}]]
      /\ Goto(p, "idle")
  BY DEF Dies, MarkedFor
<1>2. LockTypeOK' /\ LockInv'
  BY DropLockStep DEF DropLock
<1>3. StageInv'
  BY <1>1 DEF IInv, TypeOK, ListenerTypeOK, LockTypeOK, StageInv, Primary, PrimaryStages,
              Goto, DropLock
<1>4. \A s \in Sockets : /\ Marked(s) \in Seq(Peers)
                          /\ Len(Marked(s)) = Len(backlog[s])
                          /\ DOMAIN Marked(s) = DOMAIN backlog[s]
  <2> SUFFICES ASSUME NEW s \in Sockets
               PROVE  /\ Marked(s) \in Seq(Peers)
                      /\ Len(Marked(s)) = Len(backlog[s])
                      /\ DOMAIN Marked(s) = DOMAIN backlog[s]
    OBVIOUS
  <2>1. backlog[s] \in Seq(Peers)
    BY DEF IInv, TypeOK, ListenerTypeOK
  <2> QED  BY <2>1, MarkedQueue
<1>5. \A s \in Sockets : backlog'[s] = IF s \in dead THEN <<>> ELSE Marked(s)
  BY <1>1
<1>6. ListenerTypeOK'
  <2> HIDE DEF Marked
  <2>1. \A s \in Sockets : backlog'[s] \in Seq(Peers) /\ Len(backlog'[s]) <= Backlog
    <3> SUFFICES ASSUME NEW s \in Sockets
                 PROVE  backlog'[s] \in Seq(Peers) /\ Len(backlog'[s]) <= Backlog
      OBVIOUS
    <3>1. CASE s \in dead
      <4>1. backlog'[s] = <<>>
        BY <1>5, <3>1
      <4>2. <<>> \in Seq(Peers) /\ Len(<<>>) = 0
        BY EmptySeq
      <4> QED  BY <4>1, <4>2
    <3>2. CASE s \notin dead
      BY <1>4, <1>5, <3>2 DEF IInv, TypeOK, ListenerTypeOK
    <3> QED  BY <3>1, <3>2
  <2>2. backlog' \in [Sockets -> Seq(Peers)]
    BY <1>1, <2>1
  <2>3. child' \in [Procs -> [sock : Sockets \cup {None}, chans : SUBSET Peers]]
    BY <1>1 DEF IInv, TypeOK, ListenerTypeOK
  <2>4. /\ node' \in Sockets \cup {None, Stale}
        /\ fd' \in [Procs -> Sockets \cup {None}]
        /\ listening' \subseteq Sockets
        /\ chan' \in [Procs -> SUBSET Peers]
    BY <1>1 DEF IInv, TypeOK, ListenerTypeOK
  <2>5. pc' = [pc EXCEPT ![p] = "idle"]
    BY <1>1 DEF Goto
  <2> QED  BY <2>1, <2>2, <2>3, <2>4, <2>5 DEF IInv, TypeOK, ListenerTypeOK
<1>7. ChannelsHaveClients'
  BY <1>1 DEF IInv, ChannelsHaveClients
<1>8. FdInv'
  BY <1>1 DEF IInv, TypeOK, ListenerTypeOK, FdInv, Goto
<1>9. \A q \in Procs : fd'[q] # None => q # p /\ fd'[q] = fd[q] /\ fd[q] \notin dead
  BY <1>1 DEF IInv, TypeOK, ListenerTypeOK, OwnSocket
<1>10. NodeInv'
  <2> SUFFICES ASSUME NEW q \in Procs, pc'[q] \in {"listen", "owner"}
               PROVE  /\ node' = fd'[q]
                      /\ pc'[q] = "owner" => fd'[q] \in listening'
    BY DEF NodeInv
  <2>1. fd'[q] # None
    BY <1>8 DEF FdInv
  <2>2. q # p /\ fd'[q] = fd[q] /\ fd[q] \notin dead
    BY <1>9, <2>1
  <2>3. pc'[q] = pc[q]
    BY <1>1, <2>2 DEF Goto, IInv, TypeOK, ListenerTypeOK
  <2>4. node = fd[q] /\ (pc[q] = "owner" => fd[q] \in listening)
    BY <2>3 DEF IInv, NodeInv
  <2> QED  BY <1>1, <2>2, <2>3, <2>4
<1>11. OpenSockets \ dead \subseteq OpenSockets'
  <2> SUFFICES ASSUME NEW s \in OpenSockets, s \notin dead PROVE s \in OpenSockets'
    OBVIOUS
  <2>1. s # None
    BY DEF OpenSockets
  <2>2. (\E q \in Procs \ {p} : fd[q] = s) \/ (\E q \in Procs : child[q].sock = s)
    BY <2>1 DEF OpenSockets, OwnSocket
  <2>3. CASE \E q \in Procs \ {p} : fd[q] = s
    BY <1>1, <2>1, <2>3 DEF OpenSockets, IInv, TypeOK, ListenerTypeOK
  <2>4. CASE \E q \in Procs : child[q].sock = s
    BY <1>1, <2>1, <2>4 DEF OpenSockets, IInv, TypeOK, ListenerTypeOK
  <2> QED  BY <2>2, <2>3, <2>4
<1>12. QueueInv'
  <2>1. listening' \subseteq OpenSockets'
    BY <1>1, <1>11 DEF IInv, QueueInv
  <2>2. \A s \in Sockets \ OpenSockets' : backlog'[s] = <<>>
    <3> SUFFICES ASSUME NEW s \in Sockets \ OpenSockets', s \notin dead
                 PROVE  backlog'[s] = <<>>
      BY <1>5
    <3>1. backlog[s] = <<>>
      BY <1>11 DEF IInv, QueueInv
    <3>2. Len(Marked(s)) = 0 /\ Marked(s) \in Seq(Peers)
      BY <1>4, <3>1
    <3> HIDE DEF Marked
    <3>3. Marked(s) = <<>>
      BY <3>2, EmptySeq
    <3> QED  BY <1>5, <3>3
  <2>3. ASSUME NEW q \in Procs, fd'[q] # None, NEW i \in DOMAIN backlog'[fd'[q]]
        PROVE  backlog'[fd'[q]][i] \notin {Probe, q}
    <3>1. q # p /\ fd'[q] = fd[q] /\ fd[q] \notin dead
      BY <1>9, <2>3
    <3>2. fd[q] \in Sockets
      BY <2>3, <3>1 DEF IInv, TypeOK, ListenerTypeOK
    <3>3. backlog'[fd[q]] = Marked(fd[q])
      BY <1>5, <3>1, <3>2
    <3>4. i \in DOMAIN backlog[fd[q]] /\ backlog'[fd[q]][i] \in {backlog[fd[q]][i], Gone}
      BY <2>3, <3>1, <3>3 DEF MarkedFor
    <3>5. backlog[fd[q]][i] \notin {Probe, q}
      BY <2>3, <3>1, <3>4 DEF IInv, QueueInv
    <3> QED  BY <3>1, <3>4, <3>5
  <2> QED  BY <2>1, <2>2, <2>3 DEF QueueInv
<1>13. crashes' \in 0..MaxCrashes /\ spawns' \in 0..MaxSpawns
  BY BoundsAssumption DEF IInv, TypeOK
<1> QED  BY <1>2, <1>3, <1>6, <1>7, <1>8, <1>10, <1>12, <1>13 DEF IInv, TypeOK

----------------------------------------------------------------------------
LEMMA StutterStep == ASSUME IInv, UNCHANGED vars PROVE IInv'
<1> USE DEF vars
<1>1. LockTypeOK' /\ LockInv'
  BY LockUntouched DEF LockUnchanged, lockVars
<1>2. ListenerTypeOK' /\ StageInv' /\ FdInv' /\ NodeInv' /\ ChannelsHaveClients'
  BY DEF IInv, TypeOK, ListenerTypeOK, StageInv, FdInv, NodeInv, ChannelsHaveClients, Primary
<1>3. OpenSockets' = OpenSockets
  BY DEF OpenSockets
<1>4. QueueInv'
  BY <1>3 DEF IInv, QueueInv
<1> QED  BY <1>1, <1>2, <1>4 DEF IInv, TypeOK

LEMMA NextIInv == IInv /\ [Next]_vars => IInv'
<1> SUFFICES ASSUME IInv, [Next]_vars PROVE IInv'
  OBVIOUS
<1>1. CASE UNCHANGED vars
  BY <1>1, StutterStep
<1>2. ASSUME NEW p \in Procs, Program(p) PROVE IInv'
  <2>1. CASE Channels(p)
    BY <2>1, ListenerStepKeeps DEF Channels, Aside
  <2> QED  BY <1>2, <2>1, OpenStep, BecomePrimaryStep, BecomeClientStep, ReleaseStep
           DEF Program
<1>3. ASSUME NEW p \in Procs, Stop(p) PROVE IInv'
  BY <1>3, CloseUnlinkStep DEF Stop, Aside
<1> QED  BY <1>1, <1>2, <1>3, ForkStep, ExecStep, ChildExitsStep, CrashStep DEF Next

\* The inductive invariant holds throughout.
LEMMA Inductive == Spec => []IInv
  BY InitIInv, NextIInv, PTL DEF Spec

\* The state of the protocol has its type, whatever fails when.
THEOREM TypeCorrect == Spec => []TypeOK
<1>1. IInv => TypeOK
  BY DEF IInv
<1> QED  BY Inductive, <1>1, PTL

\* There is never a second primary: the flock on a lock file that is never
\* unlinked arbitrates between any number of processes, across crashes.
THEOREM OnePrimaryHolds == Spec => []OnePrimary
  BY Inductive, IInvImpliesOnePrimary, PTL

\* The primary is reached through the name as long as it serves: no bind of a
\* later primary, and no close of an earlier one, removes its node.
THEOREM OwnerReachableHolds == Spec => []OwnerReachable
  BY Inductive, IInvImpliesOwnerReachable, PTL

\* What a primary accepts are clients, never the probe of another's bind.
THEOREM ChannelsHaveClientsHolds == Spec => []ChannelsHaveClients
<1>1. IInv => ChannelsHaveClients
  BY DEF IInv
<1> QED  BY Inductive, <1>1, PTL

----------------------------------------------------------------------------
(* The abstract service: primary is the holder of the lock, and serving is  *)
(* the process whose socket listens, which only the primary can be.         *)

Primaries == {p \in Procs : Primary(p)}
Servers == {p \in Procs : fd[p] \in listening}

LEMMA PrimaryServes ==
  ASSUME IInv
  PROVE  Primaries = locked /\ Servers \subseteq locked /\ \A p, q \in locked : p = q
<1>1. Primaries = locked
  BY DEF IInv, TypeOK, LockTypeOK, StageInv, Primaries
<1>2. ASSUME NEW p \in Procs, fd[p] \in listening
      PROVE  Primary(p)
  <2>1. fd[p] # None
    BY <1>2 DEF IInv, QueueInv, OpenSockets
  <2> QED  BY <2>1 DEF IInv, FdInv, Primary, PrimaryStages
<1> QED  BY <1>1, <1>2 DEF IInv, LockInv, Primaries, Servers

\* The lock changes hands only by way of nobody.
LEMMA LockPasses ==
  ASSUME IInv, [Next]_vars
  PROVE  \/ locked' = locked
         \/ locked = {} /\ (\E p \in Procs : locked' = {p}) /\ UNCHANGED <<fd, listening>>
         \/ locked' = {}
<1>1. CASE UNCHANGED vars
  BY <1>1 DEF vars
<1>2. ASSUME NEW p \in Procs, BecomePrimary(p)
      PROVE  locked = {} /\ locked' = {p} /\ UNCHANGED <<fd, listening>>
  BY <1>2, FlockTakenStep DEF BecomePrimary
<1>3. ASSUME NEW p \in Procs, Release(p) \/ Crash(p)
      PROVE  locked' = locked \/ locked' = {}
  <2>1. locked' = locked \ {p}
    BY <1>3 DEF Release, Crash, DropLock
  <2> QED  BY <2>1 DEF IInv, LockInv
<1>4. ASSUME NEW p \in Procs,
             \/ Open(p) \/ BecomeClient(p) \/ Channels(p) \/ Stop(p)
             \/ Fork(p) \/ Exec(p) \/ ChildExits(p)
      PROVE  locked' = locked
  BY <1>4 DEF Open, OpenLock, BecomeClient, FlockRefused, Channels, Stop, Fork, Exec, ChildExits
<1> QED  BY <1>1, <1>2, <1>3, <1>4 DEF Next, Program

LEMMA ServiceStep ==
  ASSUME IInv, IInv', [Next]_vars
  PROVE  [Service!Next]_Service!vars
<1>1. Primaries = locked /\ Servers \subseteq locked /\ \A p, q \in locked : p = q
  BY PrimaryServes
<1>2. Primaries' = locked' /\ Servers' \subseteq locked' /\ \A p, q \in locked' : p = q
  <2>1. ASSUME IInv'
        PROVE  Primaries' = locked'
    BY <2>1 DEF IInv, TypeOK, LockTypeOK, StageInv, Primaries
  <2>2. ASSUME NEW p \in Procs, fd'[p] \in listening'
        PROVE  p \in locked'
    <3>1. fd'[p] # None
      BY <2>2 DEF IInv, QueueInv, OpenSockets
    <3>2. Primary(p)'
      BY <3>1 DEF IInv, FdInv, Primary, PrimaryStages
    <3> QED  BY <3>2 DEF IInv, StageInv
  <2> QED  BY <2>1, <2>2 DEF IInv, LockInv, Servers
<1>3. locked \subseteq Procs /\ locked' \subseteq Procs
  BY DEF IInv, TypeOK, LockTypeOK
<1> USE DEF Service!Next, Service!vars, Service!Take, Service!Serve, Service!Withdraw,
            Service!Leave, Primaries, Servers
<1>4. CASE locked' = locked
  <2>1. Servers' = Servers \/ Servers' = {} \/ (Servers = {} /\ \E p \in Procs : locked = {p} /\ Servers' = {p})
    BY <1>1, <1>2, <1>3, <1>4
  <2> QED  BY <1>1, <1>2, <1>4, <2>1
<1>5. CASE locked = {} /\ (\E p \in Procs : locked' = {p}) /\ UNCHANGED <<fd, listening>>
  BY <1>1, <1>2, <1>5
<1>6. CASE locked' = {}
  BY <1>2, <1>6
<1> QED  BY <1>4, <1>5, <1>6, LockPasses

\* Lock and channel together implement the service of one process at a time:
\* whoever takes over finds the one before it gone, and its socket with it.
THEOREM ServiceImplemented == Spec => ImplementsService
<1>1. Init => Service!Init
  BY NoneAssumption, ValuesAssumption
     DEF Init, ListenerInit, LockInit, Service!Init, Primary, PrimaryStages
<1>2. IInv /\ IInv' /\ [Next]_vars => [Service!Next]_Service!vars
  BY ServiceStep
<1> QED  BY <1>1, <1>2, Inductive, PTL DEF Spec, ImplementsService, Service!Spec

----------------------------------------------------------------------------
(* Why a bind under the lock fails. *)

\* Between the unlink of a bind and the new node nobody else makes one.
NameFree == \A p \in Procs : pc[p] = "name" => node = None

LEMMA StepKeepsName ==
  ASSUME IInv, NameFree, [Next]_vars
  PROVE  NameFree'
<1> SUFFICES ASSUME NEW p \in Procs, pc'[p] = "name" PROVE node' = None
  BY DEF NameFree
<1> USE NoneAssumption, ValuesAssumption
<1>0. pc \in [Procs -> {"idle", "flock", "probe", "unlink", "name", "listen",
                        "owner", "closing", "done", "connect", "client"}]
  BY DEF IInv, TypeOK, ListenerTypeOK
<1>1. CASE pc[p] # "name"
  \* The step is the unlink of p.
  <2>1. ASSUME NEW q \in Procs, NEW where, pc' = [pc EXCEPT ![q] = where], where # "name"
        PROVE  FALSE
    BY <1>0, <1>1, <2>1
  <2>2. ASSUME UNCHANGED pc
        PROVE  FALSE
    BY <1>1, <2>2
  <2>3. ASSUME NEW q \in Procs, Unlink(q)
        PROVE  node' = None
    BY <2>3 DEF Unlink
  <2>4. ASSUME NEW q \in Procs, BindName(q)
        PROVE  \E where : pc' = [pc EXCEPT ![q] = where] /\ where # "name"
    BY <2>4 DEF BindName, Goto
  <2>5. ASSUME NEW q \in Procs, ListenerStep(q)
        PROVE  \/ \E where : pc' = [pc EXCEPT ![q] = where] /\ where # "name"
               \/ UNCHANGED pc \/ node' = None
    BY <2>3, <2>4, <2>5 DEF ListenerStep, ProbeAnswered, ProbeRefused, Listen, Accept, CloseSocket,
                            ConnectAccepted, ConnectRefused, PeerClosed, Goto
  <2>6. ASSUME NEW q \in Procs, Program(q) \/ Stop(q)
        PROVE  \/ \E where : pc' = [pc EXCEPT ![q] = where] /\ where # "name"
               \/ UNCHANGED pc \/ node' = None
    BY <2>5, <2>6 DEF Program, Open, BecomePrimary, BecomeClient, Release, Channels, Stop,
                      CloseUnlink, Goto
  <2>7. ASSUME NEW q \in Procs, Fork(q) \/ Exec(q) \/ ChildExits(q) \/ Crash(q)
        PROVE  \/ \E where : pc' = [pc EXCEPT ![q] = where] /\ where # "name"
               \/ UNCHANGED pc
    BY <2>7 DEF Fork, Exec, ChildExits, Crash, Dies, Goto
  <2> QED  BY <2>1, <2>2, <2>6, <2>7 DEF Next, vars
<1>2. CASE pc[p] = "name"
  \* Only a primary touches a node that is no socket, and that is p.
  <2>1. node = None /\ fd[p] = None /\ \A q \in Procs \ {p} : pc[q] \notin PrimaryStages
    BY <1>2, PrimaryAlone DEF NameFree, IInv, FdInv, Primary, PrimaryStages
  <2>2. ASSUME NEW q \in Procs, BindName(q) \/ CloseSocket(q) \/ Unlink(q) \/ CloseUnlink(q)
        PROVE  FALSE
    <3>1. q = p
      BY <2>1, <2>2 DEF BindName, CloseSocket, Unlink, CloseUnlink, PrimaryStages
    <3>2. BindName(p)
      BY <1>2, <2>2, <3>1 DEF CloseSocket, Unlink, CloseUnlink
    <3>3. pc' = [pc EXCEPT ![p] = "done"] \/ pc' = [pc EXCEPT ![p] = "listen"]
      BY <3>2 DEF BindName, Goto
    <3> QED  BY <1>0, <3>3
  <2>3. ASSUME NEW q \in Procs, ListenerStep(q)
        PROVE  node' = node
    BY <2>2, <2>3 DEF ListenerStep, ProbeAnswered, ProbeRefused, Listen, Accept,
                      ConnectAccepted, ConnectRefused, PeerClosed
  <2>4. ASSUME NEW q \in Procs, ChildExits(q)
        PROVE  node' = node
    BY <2>1, <2>4 DEF ChildExits, Closes
  <2>5. ASSUME NEW q \in Procs, Crash(q)
        PROVE  node' = node
    BY <2>1, <2>5 DEF Crash, Dies, OwnSocket
  <2> QED  BY <2>1, <2>2, <2>3, <2>4, <2>5
           DEF Next, vars, Program, Open, BecomePrimary, BecomeClient, Release, Channels, Stop,
               Fork, Exec
<1> QED  BY <1>1, <1>2

\* However processes crash, a bind of the primary is refused only by a socket
\* that children keep open; the way out of it is their end.
THEOREM RefusedOnlyByChildHolds == Spec => RefusedOnlyByChild
<1>1. ASSUME IInv, NameFree, [Next]_vars, NEW p \in Procs,
             pc[p] \in {"probe", "name"}, pc'[p] = "done"
      PROVE  /\ node \in listening
             /\ \E q \in Procs : child[q].sock = node
             /\ \A q \in Procs : fd[q] # node
  <2>0. pc \in [Procs -> {"idle", "flock", "probe", "unlink", "name", "listen",
                          "owner", "closing", "done", "connect", "client"}]
    BY <1>1 DEF IInv, TypeOK, ListenerTypeOK
  <2>1. ASSUME NEW q \in Procs, NEW where, pc' = [pc EXCEPT ![q] = where],
               where # "done" \/ pc[q] \notin {"probe", "name"}
        PROVE  FALSE
    BY <1>1, <2>0, <2>1
  <2>2. ASSUME UNCHANGED pc
        PROVE  FALSE
    BY <1>1, <2>2
  <2>3. ASSUME NEW q \in Procs, BindName(q)
        PROVE  FALSE
    <3>1. node = None
      BY <1>1, <2>3 DEF BindName, NameFree
    <3> QED  BY <2>1, <2>3, <3>1 DEF BindName, Goto
  <2>4. ASSUME NEW q \in Procs, ListenerStep(q)
        PROVE  ProbeAnswered(q)
    BY <2>1, <2>2, <2>3, <2>4 DEF ListenerStep, ProbeRefused, Unlink, Listen, Accept, CloseSocket,
                                  ConnectAccepted, ConnectRefused, PeerClosed, Goto
  <2>5. PICK q \in Procs : ProbeAnswered(q)
    <3>1. ASSUME NEW q \in Procs, Program(q) \/ Stop(q)
          PROVE  ProbeAnswered(q)
      BY <2>1, <2>4, <3>1 DEF Program, Open, BecomePrimary, BecomeClient, Release, Channels, Stop,
                              CloseUnlink, Goto
    <3>2. ASSUME NEW q \in Procs, Fork(q) \/ Exec(q) \/ ChildExits(q) \/ Crash(q)
          PROVE  FALSE
      BY <2>1, <2>2, <3>2 DEF Fork, Exec, ChildExits, Crash, Dies, Goto
    <3> QED  BY <1>1, <2>2, <3>1, <3>2 DEF Next, vars
  <2>6. node \in listening /\ Primary(q)
    BY <2>5 DEF ProbeAnswered, Answers, Primary, PrimaryStages
  <2>7. \A r \in Procs : fd[r] = None
    BY <1>1, <2>5, <2>6, PrimaryAlone DEF ProbeAnswered, IInv, FdInv
  <2>8. node \in OpenSockets
    BY <1>1, <2>6 DEF IInv, QueueInv
  <2> QED  BY <2>6, <2>7, <2>8 DEF OpenSockets
<1>2. Init => NameFree
  BY DEF Init, ListenerInit, NameFree
<1>3. IInv /\ NameFree /\ [Next]_vars => NameFree'
  BY StepKeepsName
<1>4. IInv /\ NameFree /\ [Next]_vars =>
        [\A p \in Procs : pc[p] \in {"probe", "name"} /\ pc'[p] = "done"
           => /\ node \in listening
              /\ \E q \in Procs : child[q].sock = node
              /\ \A q \in Procs : fd[q] # node]_vars
  BY <1>1
<1> QED  BY <1>2, <1>3, <1>4, Inductive, PTL DEF Spec, RefusedOnlyByChild
====
