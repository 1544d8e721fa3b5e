---- MODULE WinService ----
(***************************************************************************)
(* A single-instance service on Windows.  The application that gets the    *)
(* InstanceLock, the primary, starts children if it is Parent, binds the   *)
(* channel and serves it; one that is refused tries again later.  Threads  *)
(* of Parent spawn at the same time, some into a LifetimeGroup.  A child   *)
(* connects to the channel and writes a message.  Applications crash, and  *)
(* children end, at any step.                                              *)
(***************************************************************************)
EXTENDS NamedPipe, NamedMutex, WinProc

vars == <<server, client, sent, buf, got, m_native, pc, tries, mutex, m_lock,
          parent, step, kid, job, group, childEnds, parentEnds, m_process>>

Apps == Procs \ Kids

TypeOK == PipeTypeOK /\ LockTypeOK /\ ProcTypeOK

Init == PipeInit /\ LockInit /\ ProcInit

----------------------------------------------------------------------------
(* InstanceLock::acquire, and what its result tells the application to do *)

\* Parent does not come back after a crash; another application may.
Up(p) == p = Parent => parent

Acquire(p) ==
    /\ Up(p) /\ pc[p] = "idle"
    /\ AcquireCreated(p)
    /\ Goto(p, "bind")
    /\ UNCHANGED <<ends, m_native, tries, procVars>>

Refuse(p) ==
    /\ Up(p) /\ pc[p] = "idle"
    /\ AcquireRefused(p)
    /\ Goto(p, "refused")
    /\ UNCHANGED <<ends, m_native, tries, procVars>>

\* Variant: acquire returns Err and leaves its handle open.
CloseRefusedLeaking(p) ==
    /\ pc[p] = "refused"
    /\ Goto(p, "idle")
    /\ UNCHANGED <<ends, m_native, tries, lockVars, procVars>>

\* acquire closes its handle and returns Err; the application tries again.
CloseRefused(p) ==
    /\ pc[p] = "refused"
    /\ DropLock(p)
    /\ Goto(p, "idle")
    /\ UNCHANGED <<ends, m_native, tries, procVars>>

\* The listener is closed, or was never bound: the channels go, then the lock.
Release(p) ==
    /\ pc[p] = "closed"
    /\ Channels(p) = {}
    /\ DropLock(p)
    /\ Goto(p, "idle")
    /\ UNCHANGED <<ends, m_native, tries, procVars>>

Program(p) == Acquire(p) \/ Refuse(p) \/ CloseRefused(p) \/ Release(p)

----------------------------------------------------------------------------
(* The channel *)

Spawning == \E h \in Kids : step[h] \in InProgress

\* The primary serves once its children are started.  It accepts until it
\* stops or accept fails, which it answers by closing the listener.
Serve(p) ==
    /\ p = Parent => ~Spawning
    /\ \/ ServerStep(p)
       \/ pc[p] = "failed" /\ CloseListener(p)
    /\ UNCHANGED <<lockVars, procVars>>

Stop(p) ==
    /\ CloseListener(p)
    /\ UNCHANGED <<lockVars, procVars>>

\* Every channel is read to its end, unless the primary stops before.
Receive(i) ==
    /\ \/ Read(i)
       \/ ReadEof(i)
       \/ server[i] # None /\ pc[server[i]] = "closed" /\ CloseChannel(i)
    /\ UNCHANGED <<lockVars, procVars>>

\* A child reports, once.
Call(h) ==
    /\ kid[h] = "running" /\ pc[h] = "idle"
    /\ Goto(h, "connect")
    /\ UNCHANGED <<ends, m_native, tries, lockVars, procVars>>

Report(h) == ClientStep(h) /\ UNCHANGED <<lockVars, procVars>>

----------------------------------------------------------------------------
(* Children and crashes *)

BeginSpawn(h) == pc[Parent] = "bind" /\ PrepareIn(h) /\ UNCHANGED <<pipeVars, lockVars>>

Spawn(h) == SpawnStep(h) /\ UNCHANGED <<pipeVars, lockVars>>

Destroy(h) == Detach(h) /\ UNCHANGED <<pipeVars, lockVars>>

ChildEnds(h) == (Terminate(h) \/ Exits(h)) /\ PipesOf({h}) /\ UNCHANGED lockVars

GroupEnds == (GroupClose \/ JobRundown) /\ PipesOf(job) /\ UNCHANGED lockVars

Crash(p) ==
    /\ IF p = Parent THEN ParentDies ELSE pc[p] # "idle" /\ UNCHANGED procVars
    /\ PipesOf({p})
    /\ DropLock(p)

Next ==
    \/ \E p \in Apps : Program(p) \/ Serve(p) \/ Stop(p) \/ Crash(p)
    \/ \E i \in Instances : Receive(i)
    \/ \E h \in Kids :
        Call(h) \/ Report(h) \/ BeginSpawn(h) \/ Spawn(h) \/ Destroy(h) \/ ChildEnds(h)
    \/ GroupEnds

Spec == Init /\ [][Next]_vars

\* The primary goes on accepting, and reading some channel that has something
\* to read; the clients go on.  No application has to start, stop or crash, no
\* child to end.
FairSpec ==
    /\ Spec
    /\ WF_vars(\E p \in Apps : Serve(p))
    /\ WF_vars(\E i \in Instances : Receive(i))
    /\ WF_vars(\E h \in Kids : Report(h))

----------------------------------------------------------------------------
(* Properties *)

\* The bytes read from a channel, and those still in it, are what its client
\* has written so far, in order, none lost and none twice, however short the
\* writes and reads are and whoever closes or dies (Channel::write_all, read).
StreamIntact ==
    \A i \in Instances : server[i] # None => got[i] \o buf[i] = SubSeq(Message, 1, sent[i])

\* The name of the channel leads to the holder of the InstanceLock and to
\* nobody else, although CreateNamedPipeW adds an instance to a pipe that
\* another process serves (ChannelListener::bind, InstanceLock::acquire).
OnlyPrimaryServes == \A i \in Instances : server[i] # None => m_lock = {server[i]}

Service == INSTANCE SingleService WITH
    primary <- m_lock,
    serving <- {server[i] : i \in Instances} \ {None}

\* Applications take turns as the primary and only it has server ends of the
\* pipe: nobody takes over before the one before it has left with all of them.
ImplementsService == Service!Spec

\* acquire is refused only while somebody holds the lock or another acquire,
\* itself refused, has not closed its handle yet: no handle to the mutex is
\* forgotten (InstanceLock::acquire, release).
RefusedForAReason ==
    [][\A p \in Procs : pc[p] = "idle" /\ pc'[p] = "refused"
           => m_lock # {} \/ \E q \in Procs : pc[q] = "refused"]_vars

\* While a listener is in service its name exists, also between two accepts
\* and when the only channel is closed at once: connect may find the pipe busy
\* but never absent (accept stages the next instance before it returns).
NameLasts ==
    \A p \in Procs : pc[p] \in {"serving", "waiting", "staging"}
                        => \E i \in Instances : server[i] = p

\* A spawn that returned an error has left no process behind, suspended or
\* not, and no end of a pipe, unless it was a later prepare_stdio that failed
\* (the clean-up of CreateProcessW and of the enrollment).
FailedSpawnLeavesNothing ==
    \A h \in Kids : step[h] = "failed" =>
        /\ kid[h] \in {"none", "ended"}
        /\ parentEnds[h] = {}
        /\ \A s \in Streams : {h, Parent} \cap childEnds[h][s] = {}

\* When the job's handle is closed, by the group or by the crash of the parent,
\* no child spawned into the group runs, wherever the crash struck the spawn
\* (CREATE_SUSPENDED until the enrollment; the contract of LifetimeGroup).
CrashKillsGrouped == ~group => \A h \in Grouped : kid[h] # "running"

\* A process gets an end of another child's pipe, and so may delay its end of
\* file, only while the spawn of that child is in progress in another thread
\* or after it failed half-way (the caveat of the contract on bInheritHandles).
EndsLeakOnlyToOverlap ==
    [][\A h, g \in Kids, s \in Streams :
        h # g /\ g \in childEnds'[h][s] \ childEnds[h][s]
            => step[h] \in InProgress \cup {"leaked"}]_vars

\* Every connection comes to its end: its client is accepted and read to the
\* end, or learns that nobody will read.  As a child reports once, the time
\* comes when no connection is left (ChannelListener::accept, write_all).
ClientsServed ==
    (\E i \in Instances : client[i] # None) ~> (\A i \in Instances : client[i] = None)
====
