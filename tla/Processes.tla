---- MODULE Processes ----
(***************************************************************************)
(* What the modules of auxid.ipc and auxid.proc share: the processes of    *)
(* the application, and the absence of a file, socket or process.          *)
(***************************************************************************)
CONSTANTS
    Procs,  \* the processes that run the application
    None    \* no inode, no socket, no process

ASSUME NoneAssumption == None \notin Procs
====
