---- MODULE WinProc ----
(***************************************************************************)
(* auxid.proc on Windows: spawn (pipes, CreateProcessW, enrollment in the  *)
(* job object, ResumeThread), which several threads of the parent may run  *)
(* at once, the Process objects it returns, and a LifetimeGroup.           *)
(*                                                                         *)
(* The kernel as far as the code relies on it: CreateProcessW gives the    *)
(* child every inheritable handle of the parent; a suspended process does  *)
(* nothing; the last handle to a job with KILL_ON_JOB_CLOSE ends what is   *)
(* in it; a crash closes the handles of a process one after the other.     *)
(***************************************************************************)
EXTENDS Naturals, Processes

CONSTANTS
    Kids,    \* the children, and the Process objects of the parent
    Parent,  \* the process that spawns them
    Grouped  \* the children it spawns with opts.lifetime set

ASSUME KidsAssumption ==
    Kids \subseteq Procs /\ Parent \in Procs \ Kids /\ Grouped \subseteq Kids

VARIABLES
    parent,      \* is the parent alive
    step,        \* step[h]: where the spawn of h is
    kid,         \* kid[h]: the state of the process of h
    job,         \* the children in the job object
    group,       \* is the job's handle open
    childEnds,   \* childEnds[h][s]: who has the child's end of stream s of h
    parentEnds,  \* parentEnds[h]: the streams of h whose other end is open
    m_process    \* the Process objects that hold a handle

procVars == <<parent, step, kid, job, group, childEnds, parentEnds, m_process>>

\* The streams that are piped, in the order in which spawn prepares them.
Streams == {"in", "out"}
Holders == Kids \cup {Parent}
InProgress == {"in", "ready", "created", "enrolled", "resumed"}
Alive == {"suspended", "running"}

ProcTypeOK ==
    /\ parent \in BOOLEAN
    /\ step \in [Kids -> InProgress \cup {"none", "returned", "failed", "leaked"}]
    /\ kid \in [Kids -> Alive \cup {"none", "ended"}]
    /\ job \subseteq Kids
    /\ group \in BOOLEAN
    /\ childEnds \in [Kids -> [Streams -> SUBSET Holders]]
    /\ parentEnds \in [Kids -> SUBSET Streams]
    /\ m_process \subseteq Kids

ProcInit ==
    /\ parent = TRUE
    /\ step = [h \in Kids |-> "none"]
    /\ kid = [h \in Kids |-> "none"]
    /\ job = {}
    /\ group = TRUE
    /\ childEnds = [h \in Kids |-> [s \in Streams |-> {}]]
    /\ parentEnds = [h \in Kids |-> {}]
    /\ m_process = {}

\* The processes in D end and leave the job; their handles close.
Ends(D) ==
    /\ kid' = [h \in Kids |-> IF h \in D /\ kid[h] \in Alive THEN "ended" ELSE kid[h]]
    /\ childEnds' = [h \in Kids |-> [s \in Streams |-> childEnds[h][s] \ D]]
    /\ job' = job \ D

----------------------------------------------------------------------------
(* prepare_stdio *)

\* A pipe whose child end is made inheritable.
PrepareStdio(h, s) ==
    /\ childEnds' = [childEnds EXCEPT ![h][s] = {Parent}]
    /\ parentEnds' = [parentEnds EXCEPT ![h] = @ \cup {s}]

PrepareIn(h) ==
    /\ parent /\ step[h] = "none"
    /\ PrepareStdio(h, "in")
    /\ step' = [step EXCEPT ![h] = "in"]
    /\ UNCHANGED <<parent, kid, job, group, m_process>>

PrepareOut(h) ==
    /\ parent /\ step[h] = "in"
    /\ PrepareStdio(h, "out")
    /\ step' = [step EXCEPT ![h] = "ready"]
    /\ UNCHANGED <<parent, kid, job, group, m_process>>

\* AU_TRY_VAR returns; the ends that were prepared before are raw handles that
\* nothing closes.
PrepareFails(h) ==
    /\ parent /\ step[h] \in {"none", "in"}
    /\ step' = [step EXCEPT ![h] = IF step[h] = "none" THEN "failed" ELSE "leaked"]
    /\ UNCHANGED <<parent, kid, job, group, childEnds, parentEnds, m_process>>

----------------------------------------------------------------------------
(* spawn *)

\* Variant: the child is not created suspended.
CreateRunning(h) ==
    /\ parent /\ step[h] = "ready"
    /\ kid' = [kid EXCEPT ![h] = "running"]
    /\ childEnds' = [g \in Kids |-> [s \in Streams |->
                        IF Parent \in childEnds[g][s] THEN childEnds[g][s] \cup {h}
                        ELSE childEnds[g][s]]]
    /\ step' = [step EXCEPT ![h] = "created"]
    /\ UNCHANGED <<parent, job, group, parentEnds, m_process>>

\* CreateProcessW with bInheritHandles: the child also gets the child ends that
\* the spawns of other threads have prepared.  It starts suspended if it is to
\* be enrolled.
Create(h) ==
    /\ parent /\ step[h] = "ready"
    /\ kid' = [kid EXCEPT ![h] = IF h \in Grouped THEN "suspended" ELSE "running"]
    /\ childEnds' = [g \in Kids |-> [s \in Streams |->
                        IF Parent \in childEnds[g][s] THEN childEnds[g][s] \cup {h}
                        ELSE childEnds[g][s]]]
    /\ step' = [step EXCEPT ![h] = "created"]
    /\ UNCHANGED <<parent, job, group, parentEnds, m_process>>

\* cleanup_stdio: the parent closes both ends of every stream.
CleanupStdio(h, ce) ==
    /\ childEnds' = [ce EXCEPT ![h] = [s \in Streams |-> @[s] \ {Parent}]]
    /\ parentEnds' = [parentEnds EXCEPT ![h] = {}]

CreateFails(h) ==
    /\ parent /\ step[h] = "ready"
    /\ CleanupStdio(h, childEnds)
    /\ step' = [step EXCEPT ![h] = "failed"]
    /\ UNCHANGED <<parent, kid, job, group, m_process>>

Enroll(h) ==
    /\ parent /\ step[h] = "created" /\ h \in Grouped
    /\ group
    /\ job' = job \cup {h}
    /\ step' = [step EXCEPT ![h] = "enrolled"]
    /\ UNCHANGED <<parent, kid, group, childEnds, parentEnds, m_process>>

\* Variant: the child that could not be enrolled is left behind.
EnrollFailsOnly(h) ==
    /\ parent /\ step[h] = "created" /\ h \in Grouped
    /\ CleanupStdio(h, childEnds)
    /\ step' = [step EXCEPT ![h] = "failed"]
    /\ UNCHANGED <<parent, kid, job, group, m_process>>

\* AssignProcessToJobObject fails, as it must when the group is closed:
\* TerminateProcess, then the clean-up.
EnrollFails(h) ==
    /\ parent /\ step[h] = "created" /\ h \in Grouped
    /\ kid' = [kid EXCEPT ![h] = "ended"]
    /\ CleanupStdio(h, [g \in Kids |-> [s \in Streams |-> childEnds[g][s] \ {h}]])
    /\ step' = [step EXCEPT ![h] = "failed"]
    /\ UNCHANGED <<parent, job, group, m_process>>

Resume(h) ==
    /\ parent /\ step[h] = "enrolled"
    /\ kid' = [kid EXCEPT ![h] = IF @ = "suspended" THEN "running" ELSE @]
    /\ step' = [step EXCEPT ![h] = "resumed"]
    /\ UNCHANGED <<parent, job, group, childEnds, parentEnds, m_process>>

\* Variant: the parent keeps its copies of the child's ends.
ReturnKeepingEnds(h) ==
    /\ parent /\ step[h] = IF h \in Grouped THEN "resumed" ELSE "created"
    /\ m_process' = m_process \cup {h}
    /\ step' = [step EXCEPT ![h] = "returned"]
    /\ UNCHANGED <<parent, kid, job, group, childEnds, parentEnds>>

\* The child ends are the child's now; the Process gets the others.
Return(h) ==
    /\ parent /\ step[h] = IF h \in Grouped THEN "resumed" ELSE "created"
    /\ childEnds' = [childEnds EXCEPT ![h] = [s \in Streams |-> @[s] \ {Parent}]]
    /\ m_process' = m_process \cup {h}
    /\ step' = [step EXCEPT ![h] = "returned"]
    /\ UNCHANGED <<parent, kid, job, group, parentEnds>>

----------------------------------------------------------------------------
(* Process *)

Terminate(h) ==
    /\ h \in m_process
    /\ kid[h] \in Alive
    /\ Ends({h})
    /\ UNCHANGED <<parent, step, group, parentEnds, m_process>>

\* The destructor: detach() closes the handle, the pipes close theirs.
Detach(h) ==
    /\ h \in m_process
    /\ m_process' = m_process \ {h}
    /\ parentEnds' = [parentEnds EXCEPT ![h] = {}]
    /\ UNCHANGED <<parent, step, kid, job, group, childEnds>>

----------------------------------------------------------------------------
(* LifetimeGroup, and the ends of processes *)

\* close() and the destructor, outside every spawn into the group.
GroupClose ==
    /\ parent /\ group
    /\ \A h \in Grouped : step[h] \notin InProgress
    /\ group' = FALSE
    /\ Ends(job)
    /\ UNCHANGED <<parent, step, parentEnds, m_process>>

\* A child ends by itself.
Exits(h) ==
    /\ kid[h] = "running"
    /\ Ends({h})
    /\ UNCHANGED <<parent, step, group, parentEnds, m_process>>

\* The parent dies: its handles to pipes and processes close ...
ParentDies ==
    /\ parent
    /\ parent' = FALSE
    /\ Ends({Parent})
    /\ parentEnds' = [h \in Kids |-> {}]
    /\ step' = [h \in Kids |-> "none"]
    /\ m_process' = {}
    /\ UNCHANGED group

\* ... and in its turn, the one to the job.
JobRundown ==
    /\ ~parent /\ group
    /\ group' = FALSE
    /\ Ends(job)
    /\ UNCHANGED <<parent, step, parentEnds, m_process>>

SpawnStep(h) ==
    \/ PrepareOut(h) \/ Create(h) \/ Enroll(h) \/ Resume(h) \/ Return(h)
    \/ PrepareFails(h) \/ CreateFails(h) \/ EnrollFails(h)
====
