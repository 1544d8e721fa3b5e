---- MODULE Proc ----
(***************************************************************************)
(* auxid.proc on Linux: spawn (fork, prctl, dup2, exec), the Process       *)
(* objects a parent keeps, and a LifetimeGroup.                            *)
(*                                                                         *)
(* The kernel is modelled as far as the code relies on it: a pid names one *)
(* process until that process is reaped, and may then name a stranger; a   *)
(* signal goes to whatever the pid names; a pipe reads end of file when no *)
(* process has its write end open; PR_SET_PDEATHSIG acts on the death of   *)
(* the parent only if it was set before it.                                *)
(***************************************************************************)
EXTENDS Naturals, Sequences, SequencesExt, Processes

CONSTANTS
    Pids,    \* process ids the kernel may give out
    Parent,  \* the process that spawns, as a holder of descriptors
    Killed,  \* the status of a child that died of SIGKILL
    Code     \* the status of a child that exited by itself

(* Procs are the Process objects of the parent.  Each gets a child at most  *)
(* once in a behaviour, so it also names the child it was spawned for.      *)
(* Threads of the parent may spawn at the same time.  A LifetimeGroup has   *)
(* no lock: calls that use it are made one at a time.                       *)

ASSUME ProcAssumption == Parent \notin Procs /\ None \notin Pids /\ None \notin {Killed, Code}

VARIABLES
    parent,         \* is the parent alive
    spawning,       \* the objects whose spawn has made its pipe and not returned
    kid,            \* kid[h]: the stage of the child of h
    pid,            \* pid[h]: the pid fork returned for it
    status,         \* status[h]: how it ended
    enrolled,       \* the objects spawned with opts.lifetime set
    writers,        \* writers[h]: who has the write end of its stdin pipe open
    strangers,      \* the pids of unrelated processes
    m_process,      \* m_process[h]: the pid the Process object holds, or None
    m_reaped,       \* the Process objects whose status is cached
    m_last_status,  \* m_last_status[h]: that status
    m_pids          \* the pids the LifetimeGroup tracks

kernel == <<parent, kid, pid, status, writers, strangers>>
objects == <<m_process, m_reaped, m_last_status, m_pids>>
vars == <<parent, spawning, kid, pid, status, enrolled, writers, strangers,
          m_process, m_reaped, m_last_status, m_pids>>

\* Between fork and exec a child is forked, or armed once it called prctl.
Alive == {"forked", "armed", "running"}
Holders == Procs \cup {Parent}

TypeOK ==
    /\ parent \in BOOLEAN
    /\ spawning \subseteq Procs
    /\ kid \in [Procs -> Alive \cup {"none", "zombie", "gone"}]
    /\ pid \in [Procs -> Pids \cup {None}]
    /\ status \in [Procs -> {None, Killed, Code}]
    /\ enrolled \subseteq Procs
    /\ writers \in [Procs -> SUBSET Holders]
    /\ strangers \subseteq Pids
    /\ m_process \in [Procs -> Pids \cup {None}]
    /\ m_reaped \subseteq Procs
    /\ m_last_status \in [Procs -> {None, Killed, Code}]
    /\ \A h \in Procs : m_last_status[h] # None <=> h \in m_reaped
    /\ m_pids \in Seq(Pids)

Init ==
    /\ parent = TRUE
    /\ spawning = {}
    /\ kid = [h \in Procs |-> "none"]
    /\ pid = [h \in Procs |-> None]
    /\ status = [h \in Procs |-> None]
    /\ enrolled = {}
    /\ writers = [h \in Procs |-> {}]
    /\ strangers = {}
    /\ m_process = [h \in Procs |-> None]
    /\ m_reaped = {}
    /\ m_last_status = [h \in Procs |-> None]
    /\ m_pids = <<>>

\* The child a pid names, alive or not yet reaped.
Names(p, h) == pid[h] = p /\ kid[h] \in Alive \cup {"zombie"}
FreePids == {p \in Pids \ strangers : \A h \in Procs : ~Names(p, h)}

\* The children in dead end with status s; their descriptors close.  With no
\* parent left to wait for them they do not stay zombies.
Ends(dead, s, up) ==
    /\ kid' = [h \in Procs |-> IF h \in dead THEN IF up THEN "zombie" ELSE "gone"
                               ELSE IF kid[h] = "zombie" /\ ~up THEN "gone" ELSE kid[h]]
    /\ status' = [h \in Procs |-> IF h \in dead THEN s ELSE status[h]]
    /\ writers' = [h \in Procs |-> writers[h] \ (dead \cup (IF up THEN {} ELSE {Parent}))]

\* SIGKILL to each pid of P, whatever it names.
SigKill(P) ==
    /\ Ends({h \in Procs : kid[h] \in Alive /\ pid[h] \in P}, Killed, parent)
    /\ strangers' = strangers \ P

----------------------------------------------------------------------------
(* proc::spawn, with stdin piped *)

\* prepare_stdio: both ends of the pipe are the parent's.
Prepare(h, enroll) ==
    /\ parent
    /\ kid[h] = "none" /\ h \notin spawning
    /\ enroll => spawning \cap enrolled = {}
    /\ spawning' = spawning \cup {h}
    /\ enrolled' = IF enroll THEN enrolled \cup {h} ELSE enrolled
    /\ writers' = [writers EXCEPT ![h] = {Parent}]
    /\ UNCHANGED <<parent, kid, pid, status, strangers, objects>>

\* fork(): the child has a copy of every descriptor of the parent, the parent's
\* ends of the pipes of other children included.
Fork(h) ==
    /\ parent /\ h \in spawning
    /\ kid[h] = "none"
    /\ \E p \in FreePids : pid' = [pid EXCEPT ![h] = p]
    /\ kid' = [kid EXCEPT ![h] = "forked"]
    /\ writers' = [g \in Procs |-> IF Parent \in writers[g] THEN writers[g] \cup {h}
                                   ELSE writers[g]]
    /\ UNCHANGED <<parent, spawning, status, enrolled, strangers, objects>>

\* fork() fails: both ends are closed and spawn returns the error.
ForkFails(h) ==
    /\ parent /\ h \in spawning
    /\ kid[h] = "none"
    /\ writers' = [writers EXCEPT ![h] = @ \ {Parent}]
    /\ spawning' = spawning \ {h}
    /\ enrolled' = enrolled \ {h}
    /\ UNCHANGED <<parent, kid, pid, status, strangers, objects>>

\* Variant: the group is not told of the child.
RecordUnenrolled(h) ==
    /\ parent /\ h \in spawning
    /\ kid[h] # "none"
    /\ m_process' = [m_process EXCEPT ![h] = pid[h]]
    /\ spawning' = spawning \ {h}
    /\ UNCHANGED <<kernel, enrolled, m_reaped, m_last_status, m_pids>>

\* The parent's side after fork: enroll the pid, fill the Process object.
Record(h) ==
    /\ parent /\ h \in spawning
    /\ kid[h] # "none"
    /\ m_pids' = IF h \in enrolled THEN Append(m_pids, pid[h]) ELSE m_pids
    /\ m_process' = [m_process EXCEPT ![h] = pid[h]]
    /\ spawning' = spawning \ {h}
    /\ UNCHANGED <<kernel, enrolled, m_reaped, m_last_status>>

\* The child's side: prctl(PR_SET_PDEATHSIG, SIGKILL), if it is enrolled ...
Arm(h) ==
    /\ kid[h] = "forked" /\ h \in enrolled
    /\ kid' = [kid EXCEPT ![h] = "armed"]
    /\ UNCHANGED <<parent, spawning, pid, status, enrolled, writers, strangers, objects>>

\* Variant: the child keeps the parent's end of its own pipe.
ExecKeepingParentEnd(h) ==
    /\ kid[h] = IF h \in enrolled THEN "armed" ELSE "forked"
    /\ kid' = [kid EXCEPT ![h] = "running"]
    /\ UNCHANGED <<parent, spawning, pid, status, enrolled, writers, strangers, objects>>

\* ... then it closes the parent's end of its own pipe and executes.
Exec(h) ==
    /\ kid[h] = IF h \in enrolled THEN "armed" ELSE "forked"
    /\ kid' = [kid EXCEPT ![h] = "running"]
    /\ writers' = [writers EXCEPT ![h] = @ \ {h}]
    /\ UNCHANGED <<parent, spawning, pid, status, enrolled, strangers, objects>>

----------------------------------------------------------------------------
(* Children *)

\* A child ends by itself: its program exits, or dup2, chdir or exec failed.
Exits(h) ==
    /\ kid[h] \in Alive
    /\ Ends({h}, Code, parent)
    /\ UNCHANGED <<parent, spawning, pid, enrolled, strangers, objects>>

\* The program that ran reads end of file on its stdin, and exits.
ReadsEof(h) ==
    /\ kid[h] = "running"
    /\ writers[h] = {}
    /\ Ends({h}, Code, parent)
    /\ UNCHANGED <<parent, spawning, pid, enrolled, strangers, objects>>

----------------------------------------------------------------------------
(* Process *)

\* Variant: wait asks the kernel although the status is cached.
ReapAgain(h) ==
    /\ parent
    /\ m_process[h] # None
    /\ \E k \in Procs :
        /\ pid[k] = m_process[h] /\ kid[k] = "zombie"
        /\ kid' = [kid EXCEPT ![k] = "gone"]
        /\ m_last_status' = [m_last_status EXCEPT ![h] = status[k]]
    /\ m_reaped' = m_reaped \cup {h}
    /\ UNCHANGED <<parent, spawning, pid, status, enrolled, writers, strangers,
                   m_process, m_pids>>

\* Variant: the status is returned but not cached.
ReapUncached(h) ==
    /\ parent
    /\ h \notin m_reaped
    /\ m_process[h] # None
    /\ \E k \in Procs :
        /\ pid[k] = m_process[h] /\ kid[k] = "zombie"
        /\ kid' = [kid EXCEPT ![k] = "gone"]
    /\ UNCHANGED <<parent, spawning, pid, status, enrolled, writers, strangers, objects>>

\* wait() and try_status() when waitpid reports the end of the child: wait
\* blocks until it does, try_status returns none.  Once the status is cached
\* both return it and ask the kernel no more.
Reap(h) ==
    /\ parent
    /\ h \notin m_reaped
    /\ m_process[h] # None
    /\ \E k \in Procs :
        /\ pid[k] = m_process[h] /\ kid[k] = "zombie"
        /\ kid' = [kid EXCEPT ![k] = "gone"]
        /\ m_last_status' = [m_last_status EXCEPT ![h] = status[k]]
    /\ m_reaped' = m_reaped \cup {h}
    /\ UNCHANGED <<parent, spawning, pid, status, enrolled, writers, strangers,
                   m_process, m_pids>>

Terminate(h) ==
    /\ parent
    /\ m_process[h] # None
    /\ SigKill({m_process[h]})
    /\ UNCHANGED <<parent, spawning, pid, enrolled, objects>>

\* detach() and the destructor: the pid is forgotten, the pipe closed.
Destroy(h) ==
    /\ parent
    /\ m_process[h] # None
    /\ m_process' = [m_process EXCEPT ![h] = None]
    /\ writers' = [writers EXCEPT ![h] = @ \ {Parent}]
    /\ UNCHANGED <<parent, spawning, kid, pid, status, enrolled, strangers,
                   m_reaped, m_last_status, m_pids>>

\* stdin_pipe().close()
CloseStdin(h) ==
    /\ parent
    /\ h \notin spawning
    /\ Parent \in writers[h]
    /\ writers' = [writers EXCEPT ![h] = @ \ {Parent}]
    /\ UNCHANGED <<parent, spawning, kid, pid, status, enrolled, strangers, objects>>

----------------------------------------------------------------------------
(* LifetimeGroup *)

\* close() and the destructor: SIGKILL to every pid tracked, then forget them.
GroupClose ==
    /\ parent /\ spawning \cap enrolled = {}
    /\ SigKill(ToSet(m_pids))
    /\ m_pids' = <<>>
    /\ UNCHANGED <<parent, spawning, pid, enrolled, m_process, m_reaped, m_last_status>>

\* The parent dies: armed children, before or after their exec, are killed.
ParentDies ==
    /\ parent
    /\ parent' = FALSE
    /\ Ends({h \in enrolled : kid[h] \in {"armed", "running"}}, Killed, FALSE)
    /\ UNCHANGED <<spawning, pid, enrolled, strangers, objects>>

\* PR_SET_PDEATHSIG watches the thread that forked: when that thread ends, its
\* armed children are killed although the parent lives.
SpawnerEnds(h) ==
    /\ parent
    /\ h \in enrolled \ spawning
    /\ kid[h] \in {"armed", "running"}
    /\ Ends({h}, Killed, parent)
    /\ UNCHANGED <<parent, spawning, pid, enrolled, strangers, objects>>

----------------------------------------------------------------------------
(* The rest of the system takes and leaves pids. *)

StrangerStarts ==
    /\ \E p \in FreePids : strangers' = strangers \cup {p}
    /\ UNCHANGED <<parent, spawning, kid, pid, status, enrolled, writers, objects>>

StrangerEnds ==
    /\ \E p \in strangers : strangers' = strangers \ {p}
    /\ UNCHANGED <<parent, spawning, kid, pid, status, enrolled, writers, objects>>

Next ==
    \/ \E h \in Procs :
        \/ \E enroll \in BOOLEAN : Prepare(h, enroll)
        \/ Fork(h) \/ ForkFails(h) \/ SpawnerEnds(h)
        \/ Record(h) \/ Arm(h) \/ Exec(h) \/ Exits(h) \/ ReadsEof(h)
        \/ Reap(h) \/ Terminate(h) \/ Destroy(h) \/ CloseStdin(h)
    \/ GroupClose \/ ParentDies \/ StrangerStarts \/ StrangerEnds

Spec == Init /\ [][Next]_vars

\* spawn returns, a forked child gets to its exec, and a program whose stdin is
\* at its end sees it.  Nothing makes a program exit, or the parent close.
FairSpec ==
    Spec /\ \A h \in Procs : /\ WF_vars(Fork(h) \/ ForkFails(h))
                             /\ WF_vars(Record(h))
                             /\ WF_vars(Arm(h) \/ Exec(h))
                             /\ WF_vars(ReadsEof(h))

----------------------------------------------------------------------------
(* Properties *)

\* Until its status is cached, the pid in a Process names the child it was
\* spawned for, dead or alive: terminate cannot hit, nor wait reap, another
\* process, however pids are reused meanwhile.
ProcessNamesItsChild ==
    \A h \in Procs : parent /\ m_process[h] # None /\ h \notin m_reaped
                        => Names(m_process[h], h)

\* The status a Process reports is the one its own child ended with, on every
\* call (wait is idempotent).
StatusIsTheChilds == \A h \in m_reaped : m_last_status[h] = status[h] /\ status[h] # None

\* An enrolled child that is alive is on the list its group will kill, unless
\* the group was closed; so a closed group leaves no enrolled child behind.
EnrolledIsTracked ==
    parent => \A h \in enrolled : kid[h] \in Alive /\ h \notin spawning
                                    => pid[h] \in ToSet(m_pids)

\* At most one spawn at a time is in progress.
NoOverlap == \A g, h \in spawning : g = h

\* When the parent has closed its pipes, or died, every program that reads its
\* stdin to the end ends, although later siblings inherit the write ends of
\* earlier ones (spawn closes only the parent's end of the child's own pipe).
\* Only if no two spawns overlap: children of overlapping spawns may hold each
\* other's write end, and then neither ever sees its end of file.
EofEndsChildren ==
    /\ <>[](\A h \in Procs : Parent \notin writers[h])
    /\ []NoOverlap
    => \A h \in Procs : kid[h] = "running" ~> kid[h] # "running"

\* Among any running programs there is one whose stdin none of them can write.
NoRing ==
    \A S \in SUBSET {h \in Procs : kid[h] = "running"} :
        S # {} => \E h \in S : writers[h] \cap S = {}

\* As long as no two spawns overlap, children never wait for each other's end of
\* file in a ring, whatever ends of earlier siblings each of them has.
EofOrder == []NoOverlap => []NoRing

\* No enrolled child outlives a parent that crashed (the LifetimeGroup
\* guarantee for Linux).
CrashKillsEnrolled == ~parent => \A h \in enrolled : kid[h] # "running"
====
