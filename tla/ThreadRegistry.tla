--------------------------- MODULE ThreadRegistry ---------------------------
(***************************************************************************)
(* The registry of auxid.thread: what the guards keep for each native      *)
(* thread id.  Every operation holds registry_mutex from its first access  *)
(* to its last, so each is one step.  Entries are never erased: an id that *)
(* is in use again finds the entry of the thread that had it before.       *)
(***************************************************************************)
EXTENDS Integers

CONSTANTS
    Ids,   \* native thread ids
    None

ASSUME NoneAssumption == None \notin Ids

VARIABLES
    init_counter,   \* init_counter[i]: guards of the thread with id i
    logger,         \* logger[i]: the entry of i owns a logger
    main_thread_id

registryVars == <<init_counter, logger, main_thread_id>>

RegistryInit ==
    /\ init_counter = [i \in Ids |-> 0]
    /\ logger = [i \in Ids |-> FALSE]
    /\ main_thread_id = None

InitializeMain(i) ==
    /\ init_counter' = [init_counter EXCEPT ![i] = @ + 1]
    /\ IF init_counter[i] + 1 > 1
       THEN UNCHANGED <<logger, main_thread_id>>
       ELSE logger' = [logger EXCEPT ![i] = TRUE] /\ main_thread_id' = i

\* Variant: the first guard of all makes the main thread.
InitializeWorkerFirstIsMain(i) ==
    /\ init_counter' = [init_counter EXCEPT ![i] = @ + 1]
    /\ IF init_counter[i] + 1 > 1
       THEN UNCHANGED <<logger, main_thread_id>>
       ELSE /\ logger' = [logger EXCEPT ![i] = TRUE]
            /\ main_thread_id' = IF main_thread_id = None THEN i ELSE main_thread_id
InitializeWorker(i) ==
    /\ init_counter' = [init_counter EXCEPT ![i] = @ + 1]
    /\ IF init_counter[i] + 1 > 1
       THEN UNCHANGED logger
       ELSE logger' = [logger EXCEPT ![i] = TRUE]
    /\ UNCHANGED main_thread_id

\* Variant: the logger goes with the innermost guard.
TerminateWithLogger(i) ==
    /\ init_counter' = [init_counter EXCEPT ![i] = @ - 1]
    /\ logger' = [logger EXCEPT ![i] = FALSE]
    /\ UNCHANGED main_thread_id
\* terminate_main_thread and terminate_worker_thread do the same to the
\* registry; main_thread_id outlives the guard that set it.
Terminate(i) ==
    /\ init_counter' = [init_counter EXCEPT ![i] = @ - 1]
    /\ IF init_counter[i] - 1 > 0
       THEN UNCHANGED logger
       ELSE logger' = [logger EXCEPT ![i] = FALSE]
    /\ UNCHANGED main_thread_id

IsMainThread(i) == main_thread_id = i
=============================================================================
