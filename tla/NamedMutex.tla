---- MODULE NamedMutex ----
(***************************************************************************)
(* ipc::InstanceLock on Windows: a named mutex that exists while somebody  *)
(* has a handle to it.  To hold the lock is to have created the mutex; its *)
(* ownership is never asked for again.                                     *)
(***************************************************************************)
EXTENDS Processes

VARIABLES
    mutex,  \* the processes with a handle to the mutex
    m_lock  \* those whose InstanceLock is that handle

lockVars == <<mutex, m_lock>>

LockTypeOK == mutex \subseteq Procs /\ m_lock \subseteq Procs

LockInit == mutex = {} /\ m_lock = {}

\* Variant: ERROR_ALREADY_EXISTS is not looked at.
AcquireIgnoringExisting(p) ==
    /\ mutex' = mutex \cup {p}
    /\ m_lock' = m_lock \cup {p}

\* CreateMutexW creates the mutex: acquire returns Ok.
AcquireCreated(p) ==
    /\ mutex = {}
    /\ mutex' = {p}
    /\ m_lock' = m_lock \cup {p}

\* CreateMutexW opens the mutex of another: ERROR_ALREADY_EXISTS.  Until the
\* handle is closed it keeps the mutex in being.
AcquireRefused(p) ==
    /\ mutex # {}
    /\ mutex' = mutex \cup {p}
    /\ UNCHANGED m_lock

\* CloseHandle, by a refused acquire, by release() or because p dies.
DropLock(p) ==
    /\ mutex' = mutex \ {p}
    /\ m_lock' = m_lock \ {p}
====
