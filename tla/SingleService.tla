---- MODULE SingleService ----
(***************************************************************************)
(* What InstanceLock and ChannelListener promise together, on either       *)
(* platform: one process at a time is the primary, only the primary        *)
(* serves the name, and the next one takes over when there is none left.   *)
(***************************************************************************)
CONSTANT Procs

VARIABLES
    primary,  \* the processes that have the lock
    serving   \* the processes that answer under the name

vars == <<primary, serving>>

Init == primary = {} /\ serving = {}

Take(p) ==
    /\ primary = {}
    /\ primary' = {p}
    /\ UNCHANGED serving

Serve(p) ==
    /\ primary = {p} /\ serving = {}
    /\ serving' = {p}
    /\ UNCHANGED primary

Withdraw ==
    /\ serving' = {}
    /\ UNCHANGED primary

\* By its own decision, or by a crash.
Leave == primary' = {} /\ serving' = {}

Next ==
    \/ \E p \in Procs : Take(p) \/ Serve(p)
    \/ Withdraw \/ Leave

Spec == Init /\ [][Next]_vars
====
