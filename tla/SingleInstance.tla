---- MODULE SingleInstance ----
(***************************************************************************)
(* The single-instance protocol InstanceLock and ChannelListener are made  *)
(* for: a process that gets the lock is the primary, binds the channel,    *)
(* serves it, and on its way out closes the listener and then releases the *)
(* lock; a process refused the lock connects to the primary's channel.     *)
(* Processes crash and start again, and a primary spawns children with     *)
(* proc::spawn: fork copies every descriptor, exec closes those opened     *)
(* with O_CLOEXEC, the lock's but neither the listener's nor a channel's.  *)
(***************************************************************************)
EXTENDS ChannelListener, InstanceLock

CONSTANTS
    MaxCrashes,  \* crashes in a behaviour
    MaxSpawns    \* children spawned in a behaviour

ASSUME BoundsAssumption == MaxCrashes \in Nat /\ MaxSpawns \in Nat

VARIABLES crashes, spawns

vars == <<node, pc, fd, listening, backlog, chan, child,
          lockNode, lockFd, locked, lockChild, crashes, spawns>>

TypeOK ==
    /\ ListenerTypeOK
    /\ LockTypeOK
    /\ crashes \in 0..MaxCrashes
    /\ spawns \in 0..MaxSpawns

Init == ListenerInit /\ LockInit /\ crashes = 0 /\ spawns = 0

----------------------------------------------------------------------------
(* InstanceLock::acquire, and what its result tells the process to do *)

Open(p) ==
    /\ pc[p] = "idle"
    /\ OpenLock(p)
    /\ Goto(p, "flock")
    /\ UNCHANGED <<node, fd, listening, backlog, chan, child, crashes, spawns>>

BecomePrimary(p) ==
    /\ pc[p] = "flock"
    /\ FlockTaken(p)
    /\ Goto(p, "probe")
    /\ UNCHANGED <<node, fd, listening, backlog, chan, child, crashes, spawns>>

\* Variant: a process refused the lock binds the channel all the same.
BecomeRival(p) ==
    /\ pc[p] = "flock"
    /\ FlockRefused(p)
    /\ Goto(p, "probe")
    /\ UNCHANGED <<node, fd, listening, backlog, chan, child, crashes, spawns>>

BecomeClient(p) ==
    /\ pc[p] = "flock"
    /\ FlockRefused(p)
    /\ Goto(p, "connect")
    /\ UNCHANGED <<node, fd, listening, backlog, chan, child, crashes, spawns>>

\* The primary's listener is closed, or its bind failed: the lock is released.
Release(p) ==
    /\ pc[p] = "done"
    /\ DropLock(p)
    /\ Goto(p, "idle")
    /\ UNCHANGED <<node, fd, listening, backlog, chan, child, crashes, spawns>>

Channels(p) ==
    /\ ListenerStep(p)
    /\ UNCHANGED <<lockNode, lockFd, locked, lockChild, crashes, spawns>>

\* The primary decides to stop: nothing forces it to.
Stop(p) ==
    /\ CloseUnlink(p)
    /\ UNCHANGED <<lockNode, lockFd, locked, lockChild, crashes, spawns>>

----------------------------------------------------------------------------
(* Children and crashes *)

\* fork(): the child has every descriptor of the primary.
Fork(p) ==
    /\ pc[p] = "owner"
    /\ child[p] = NoChild
    /\ spawns < MaxSpawns
    /\ child' = [child EXCEPT ![p] = [sock |-> fd[p], chans |-> chan[p]]]
    /\ lockChild' = [lockChild EXCEPT ![p] = lockFd[p]]
    /\ spawns' = spawns + 1
    /\ UNCHANGED <<node, pc, fd, listening, backlog, chan, lockNode, lockFd, locked, crashes>>

\* exec(): O_CLOEXEC closes the descriptor of the lock.
Exec(p) ==
    /\ lockChild[p] # None
    /\ lockChild' = [lockChild EXCEPT ![p] = None]
    /\ UNCHANGED <<node, pc, fd, listening, backlog, chan, child,
                   lockNode, lockFd, locked, crashes, spawns>>

\* The child exits after its exec, when it likes.
ChildExits(p) ==
    /\ child[p] # NoChild
    /\ lockChild[p] = None
    /\ Closes({child[p].sock} \ ({fd[q] : q \in Procs}
                                 \cup {child[q].sock : q \in Procs \ {p}}))
    /\ child' = [child EXCEPT ![p] = NoChild]
    /\ UNCHANGED <<pc, fd, chan, lockNode, lockFd, locked, lockChild, crashes, spawns>>

Crash(p) ==
    /\ pc[p] # "idle"
    /\ crashes < MaxCrashes
    /\ crashes' = crashes + 1
    /\ Dies(p)
    /\ DropLock(p)
    /\ UNCHANGED spawns

Program(p) ==
    Open(p) \/ BecomePrimary(p) \/ BecomeClient(p) \/ Release(p) \/ Channels(p)

Next == \E p \in Procs :
    Program(p) \/ Stop(p) \/ Fork(p) \/ Exec(p) \/ ChildExits(p) \/ Crash(p)

Spec == Init /\ [][Next]_vars

\* A process is restarted, and its calls return when the kernel can answer; a
\* forked child reaches its exec.  Nothing makes a primary stop, a child exit
\* or a process crash.
FairSpec == Spec /\ \A p \in Procs : WF_vars(Program(p)) /\ WF_vars(Exec(p))

----------------------------------------------------------------------------
(* Properties *)

\* A process is the primary from the flock that succeeded to the release.
PrimaryStages == {"probe", "unlink", "name", "listen", "owner", "closing", "done"}
Primary(p) == pc[p] \in PrimaryStages

\* There is one primary at a time, crashes, restarts and forked children that
\* still hold the lock's descriptor notwithstanding (InstanceLock::acquire).
OnePrimary == \A p, q \in Procs : Primary(p) /\ Primary(q) => p = q

Service == INSTANCE SingleService WITH
    primary <- {p \in Procs : Primary(p)},
    serving <- {p \in Procs : fd[p] \in listening}

\* Processes take turns as the primary and only it serves: nobody takes over
\* before the one before it has left, with its socket, by release or by crash.
ImplementsService == Service!Spec

\* The owner of the channel is reached through its name: nobody unlinks or
\* replaces the node of a live listener, so a client that connects reaches it
\* (the unlinks of ChannelListener::bind and close).
OwnerReachable == \A p \in Procs : pc[p] = "owner" => node = fd[p] /\ Answers

\* A primary never accepts the probe of a rival's bind as if it were a client,
\* nor a connection of its own (ChannelListener::accept: one Channel per
\* client).
ChannelsHaveClients == \A p \in Procs : Probe \notin chan[p] /\ p \notin chan[p]

\* No child keeps inherited descriptors open.
NoInheritance == \A p \in Procs : child[p] = NoChild

\* Unless children keep inherited sockets open, the service always returns:
\* after any stop or crash some process again owns the channel, whatever node
\* was left behind (the stale-socket recovery of ChannelListener::bind).
ServiceReturns == <>[]NoInheritance => []<>(\E p \in Procs : pc[p] = "owner")

\* Unless children keep inherited sockets open, a client whose connection is
\* queued is accepted, or learns that the primary is gone.
ClientsAnswered ==
    \A c \in Procs : <>[]NoInheritance => (Queued(c) ~> ~Queued(c))

\* A bind is refused with EADDRINUSE by a live owner of the name; a dead
\* owner's node is recovered (the contract of ChannelListener::bind).
RefusedByLiveOwner ==
    [][\A p \in Procs : pc[p] = "probe" /\ pc'[p] = "done"
                             => \E q \in Procs : pc[q] = "owner" /\ fd[q] = node]_vars

\* What is true of it: under the lock a bind fails only because a child, and
\* nobody else, has the socket that its dead owner left listening.
RefusedOnlyByChild ==
    [][\A p \in Procs : pc[p] \in {"probe", "name"} /\ pc'[p] = "done"
           => /\ node \in listening
              /\ \E q \in Procs : child[q].sock = node
              /\ \A q \in Procs : fd[q] # node]_vars
====
