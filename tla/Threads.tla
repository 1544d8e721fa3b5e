------------------------------ MODULE Threads ------------------------------
(***************************************************************************)
(* ThreadT, the native threads it starts and joins, and the guards the     *)
(* threads take.  Thread::create allocates an invoker and a baton, hands   *)
(* the baton to a new native thread and the native handle to a ThreadT;    *)
(* the new thread frees both, its guard around the call.  A native id is   *)
(* free again once its thread is joined.                                   *)
(*                                                                         *)
(* A ThreadT is a variable of the thread that uses it: joining, moving and *)
(* destroying one from two threads at once is the caller's data race.      *)
(* Definitions introduced by "Variant:" are faulty readings of the one     *)
(* below them; nothing else uses them.                                     *)
(***************************************************************************)
EXTENDS ThreadRegistry, Sequences, SequencesExt, FiniteSets

CONSTANTS
    Workers,    \* threads made by create
    Root,       \* the thread that runs main()
    Names,      \* the ThreadT variables of a thread
    Temp,       \* the ThreadT that create returns, before it is moved
    RootCalls,  \* bound: the calls Root begins
    WorkerCalls \* bound: the calls a worker begins

Threads == {Root} \cup Workers
Handles == Threads \X (Names \cup {Temp})
Own(t) == {t} \X Names

ASSUME ThreadsAssumption ==
    /\ Root \notin Workers /\ Temp \notin Names /\ None \notin Threads
    /\ RootCalls \in Nat /\ WorkerCalls \in Nat

VARIABLES
    stage,     \* stage[t]: where thread t is between creation and join
    id,        \* id[t]: its native id, or None
    guards,    \* guards[t]: the guards it is inside, the innermost last
    calls,     \* calls[t]: calls it may still begin
    call,      \* call[t]: the call it is in
    baton,     \* baton[t]: allocations of its EntryBaton that are not freed
    invoker,   \* invoker[t]: the same of its Invoker
    m_native,  \* m_native[h]: the thread a ThreadT names, or None
    logging    \* the thread that holds logger_mutex, or None

heapVars == <<baton, invoker>>
vars == <<registryVars, stage, id, guards, calls, call, heapVars, m_native, logging>>

Idle == [pc |-> "idle", dst |-> None, src |-> None]

Init ==
    /\ RegistryInit
    /\ stage = [t \in Threads |-> IF t = Root THEN "running" ELSE "none"]
    /\ \E i \in Ids : id = [t \in Threads |-> IF t = Root THEN i ELSE None]
    /\ guards = [t \in Threads |-> <<>>]
    /\ calls = [t \in Threads |-> IF t = Root THEN RootCalls ELSE WorkerCalls]
    /\ call = [t \in Threads |-> Idle]
    /\ baton = [t \in Threads |-> 0]
    /\ invoker = [t \in Threads |-> 0]
    /\ m_native = [h \in Handles |-> None]
    /\ logging = None

FreeIds == Ids \ {id[t] : t \in Threads}

-----------------------------------------------------------------------------
(* Calls *)

Free(t) == stage[t] = "running" /\ call[t].pc = "idle"

Begin(t, pc, dst, src) ==
    /\ Free(t)
    /\ calls[t] > 0
    /\ calls' = [calls EXCEPT ![t] = @ - 1]
    /\ call' = [call EXCEPT ![t] = [pc |-> pc, dst |-> dst, src |-> src]]

Goto(t, pc) == call' = [call EXCEPT ![t].pc = pc]
Return(t) == call' = [call EXCEPT ![t] = Idle]

\* ThreadT::create for a new thread w: the invoker and the baton.
Create(t, dst, w) ==
    /\ Begin(t, "spawn", dst, <<t, Temp>>)
    /\ stage[w] = "none"
    /\ stage' = [stage EXCEPT ![w] = "made"]
    /\ invoker' = [invoker EXCEPT ![w] = @ + 1]
    /\ baton' = [baton EXCEPT ![w] = @ + 1]
    /\ m_native' = [m_native EXCEPT ![<<t, Temp>>] = w]
    /\ UNCHANGED <<registryVars, id, guards, logging>>

Made(t) == m_native[<<t, Temp>>]

\* pthread_create; the new thread runs from here on.
Spawn(t) ==
    /\ call[t].pc = "spawn"
    /\ \E i \in FreeIds : id' = [id EXCEPT ![Made(t)] = i]
    /\ stage' = [stage EXCEPT ![Made(t)] = "started"]
    /\ Goto(t, "assign")
    /\ UNCHANGED <<registryVars, guards, calls, heapVars, m_native, logging>>

\* There is no thread; spawn_native_thread frees its baton.
SpawnFails(t) ==
    /\ call[t].pc = "spawn"
    /\ baton' = [baton EXCEPT ![Made(t)] = @ - 1]
    /\ Goto(t, "undo")
    /\ UNCHANGED <<registryVars, stage, id, guards, calls, invoker, m_native, logging>>

\* Variant: the invoker is left behind when there is no thread to free it.
UndoLeaking(t) ==
    /\ call[t].pc = "undo"
    /\ stage' = [stage EXCEPT ![Made(t)] = "none"]
    /\ m_native' = [m_native EXCEPT ![<<t, Temp>>] = None]
    /\ Return(t)
    /\ UNCHANGED <<registryVars, id, guards, calls, heapVars, logging>>
\* create returns the error.
Undo(t) ==
    /\ call[t].pc = "undo"
    /\ invoker' = [invoker EXCEPT ![Made(t)] = @ - 1]
    /\ stage' = [stage EXCEPT ![Made(t)] = "none"]
    /\ m_native' = [m_native EXCEPT ![<<t, Temp>>] = None]
    /\ Return(t)
    /\ UNCHANGED <<registryVars, id, guards, calls, baton, logging>>

\* The move assignment; the move constructor is the one to an empty ThreadT.
MoveAssign(t, dst, src) ==
    /\ Begin(t, "assign", dst, src)
    /\ dst # src /\ m_native[src] # None
    /\ UNCHANGED <<registryVars, stage, id, guards, heapVars, m_native, logging>>

\* join, and the destructor of a JThread, which a thread must get to before
\* it returns whatever else it does.
Join(t, h) ==
    /\ Free(t)
    /\ m_native[h] # None
    /\ call' = [call EXCEPT ![t] = [pc |-> "join", dst |-> h, src |-> None]]
    /\ UNCHANGED <<registryVars, stage, id, guards, calls, heapVars, m_native, logging>>

\* pthread_join returns.
Joined(t) ==
    LET h == call[t].dst
        w == m_native[h]
    IN  /\ call[t].pc \in {"join", "assign"}
        /\ w # None
        /\ stage[w] = "ended"
        /\ stage' = [stage EXCEPT ![w] = "none"]
        /\ id' = [id EXCEPT ![w] = None]
        /\ calls' = [calls EXCEPT ![w] = WorkerCalls]
        /\ m_native' = [m_native EXCEPT ![h] = None]
        /\ IF call[t].pc = "join" THEN Return(t) ELSE UNCHANGED call
        /\ UNCHANGED <<registryVars, guards, heapVars, logging>>

\* Variant: the source of a move keeps its thread.
TakeKeepingSource(t) ==
    LET c == call[t]
    IN  /\ c.pc = "assign"
        /\ m_native[c.dst] = None
        /\ m_native' = [m_native EXCEPT ![c.dst] = m_native[c.src]]
        /\ Return(t)
        /\ UNCHANGED <<registryVars, stage, id, guards, calls, heapVars, logging>>
Take(t) ==
    LET c == call[t]
    IN  /\ c.pc = "assign"
        /\ m_native[c.dst] = None
        /\ m_native' = [m_native EXCEPT ![c.dst] = m_native[c.src], ![c.src] = None]
        /\ Return(t)
        /\ UNCHANGED <<registryVars, stage, id, guards, calls, heapVars, logging>>

-----------------------------------------------------------------------------
(* Guards and the logger *)

\* Root takes its main guard first, as the README has it.
GuardMain(t) ==
    /\ t = Root
    /\ Begin(t, "idle", None, None)
    /\ InitializeMain(id[t])
    /\ guards' = [guards EXCEPT ![t] = Append(@, "main")]
    /\ UNCHANGED <<stage, id, heapVars, m_native, logging>>

GuardWorker(t) ==
    /\ t = Root => guards[t] # <<>>
    /\ Begin(t, "idle", None, None)
    /\ InitializeWorker(id[t])
    /\ guards' = [guards EXCEPT ![t] = Append(@, "worker")]
    /\ UNCHANGED <<stage, id, heapVars, m_native, logging>>

\* The end of a scope with a guard.
Unguard(t) ==
    /\ Free(t)
    /\ guards[t] # <<>>
    /\ t # Root => Len(guards[t]) > 1
    /\ Terminate(id[t])
    /\ guards' = [guards EXCEPT ![t] = Front(@)]
    /\ UNCHANGED <<stage, id, calls, call, heapVars, m_native, logging>>

\* Logger::log_impl, on the logger that get_thread_logger finds; without one
\* it panics.
Log(t) ==
    /\ Begin(t, "lock", None, None)
    /\ logger[id[t]]
    /\ UNCHANGED <<registryVars, stage, id, guards, heapVars, m_native, logging>>

LogLock(t) ==
    /\ call[t].pc = "lock"
    /\ logging = None
    /\ logging' = t
    /\ Goto(t, "log")
    /\ UNCHANGED <<registryVars, stage, id, guards, calls, heapVars, m_native>>

\* Variant: the mutex stays locked.
LogUnlockForgotten(t) ==
    /\ call[t].pc = "log"
    /\ Return(t)
    /\ UNCHANGED <<registryVars, stage, id, guards, calls, heapVars, m_native, logging>>
LogUnlock(t) ==
    /\ call[t].pc = "log"
    /\ logging' = None
    /\ Return(t)
    /\ UNCHANGED <<registryVars, stage, id, guards, calls, heapVars, m_native>>

-----------------------------------------------------------------------------
(* The life of a native thread *)

Consume(t) ==
    /\ stage[t] = "started"
    /\ baton' = [baton EXCEPT ![t] = @ - 1]
    /\ stage' = [stage EXCEPT ![t] = "entered"]
    /\ UNCHANGED <<registryVars, id, guards, calls, call, invoker, m_native, logging>>

Enter(t) ==
    /\ stage[t] = "entered"
    /\ InitializeWorker(id[t])
    /\ guards' = [guards EXCEPT ![t] = Append(@, "worker")]
    /\ stage' = [stage EXCEPT ![t] = "running"]
    /\ UNCHANGED <<id, calls, call, heapVars, m_native, logging>>

\* The callable returns, its own guards and ThreadT variables gone.
Returns(t) ==
    /\ t # Root
    /\ Free(t)
    /\ Len(guards[t]) = 1
    /\ \A h \in Own(t) : m_native[h] = None
    /\ stage' = [stage EXCEPT ![t] = "returned"]
    /\ UNCHANGED <<registryVars, id, guards, calls, call, heapVars, m_native, logging>>

FreeInvoker(t) ==
    /\ stage[t] = "returned"
    /\ invoker' = [invoker EXCEPT ![t] = @ - 1]
    /\ stage' = [stage EXCEPT ![t] = "freed"]
    /\ UNCHANGED <<registryVars, id, guards, calls, call, baton, m_native, logging>>

\* Variant: the thread ends without running the destructor of its guard.
ExitGuarded(t) ==
    /\ stage[t] = "freed"
    /\ guards' = [guards EXCEPT ![t] = <<>>]
    /\ stage' = [stage EXCEPT ![t] = "ended"]
    /\ UNCHANGED <<registryVars, id, calls, call, heapVars, m_native, logging>>
Exit(t) ==
    /\ stage[t] = "freed"
    /\ Terminate(id[t])
    /\ guards' = [guards EXCEPT ![t] = Front(@)]
    /\ stage' = [stage EXCEPT ![t] = "ended"]
    /\ UNCHANGED <<id, calls, call, heapVars, m_native, logging>>

-----------------------------------------------------------------------------
Step(t) ==
    \/ Spawn(t) \/ SpawnFails(t) \/ Undo(t)
    \/ Joined(t) \/ Take(t)
    \/ LogLock(t) \/ LogUnlock(t)
    \/ Consume(t) \/ Enter(t) \/ FreeInvoker(t) \/ Exit(t)

Program(t) ==
    \/ \E dst \in Own(t) : \/ \E w \in Workers : Create(t, dst, w)
                           \/ \E src \in Own(t) : MoveAssign(t, dst, src)
                           \/ Join(t, dst)
    \/ GuardMain(t) \/ GuardWorker(t) \/ Unguard(t)
    \/ Log(t)
    \/ Returns(t)

Next == \E t \in Threads : Program(t) \/ Step(t)

Spec == Init /\ [][Next]_vars

\* A call that was begun goes on when what it waits for is there, and the
\* callable of a worker comes to an end.
FairSpec ==
    /\ Spec
    /\ \A t \in Threads : WF_vars(Step(t))
    /\ \A t \in Workers : WF_vars(Program(t))

-----------------------------------------------------------------------------
(* Properties *)

\* Every variable has its type; nothing is freed twice.
TypeOK ==
    /\ init_counter \in [Ids -> Nat]
    /\ logger \in [Ids -> BOOLEAN]
    /\ main_thread_id \in Ids \cup {None}
    /\ stage \in [Threads -> {"none", "made", "started", "entered", "running",
                              "returned", "freed", "ended"}]
    /\ id \in [Threads -> Ids \cup {None}]
    /\ guards \in [Threads -> Seq({"main", "worker"})]
    /\ calls \in [Threads -> Nat]
    /\ call \in [Threads -> [pc : {"idle", "spawn", "undo", "assign", "join", "lock", "log"},
                             dst : Handles \cup {None}, src : Handles \cup {None}]]
    /\ baton \in [Threads -> {0, 1}]
    /\ invoker \in [Threads -> {0, 1}]
    /\ m_native \in [Handles -> Workers \cup {None}]
    /\ logging \in Threads \cup {None}

\* The registry says of an id what holds for the thread that has it now: an
\* id whose thread was joined keeps nothing for the next one that gets it.
RegistryMatches ==
    /\ \A t \in Threads : id[t] # None =>
         /\ init_counter[id[t]] = Len(guards[t])
         /\ logger[id[t]] = (guards[t] # <<>>)
    /\ \A i \in FreeIds : init_counter[i] = 0 /\ ~logger[i]

\* is_main_thread is true of Root while it is inside a guard, and of no other
\* thread ever, although ids are reused.
MainIsRoot ==
    /\ guards[Root] # <<>> => IsMainThread(id[Root])
    /\ \A t \in Workers : id[t] # None => ~IsMainThread(id[t])

\* A thread that was started and not joined is named by one ThreadT, through
\* every move and failure: it is joined, and not twice.
HeldOnce ==
    \A w \in Workers :
        Cardinality({h \in Handles : m_native[h] = w}) = IF stage[w] = "none" THEN 0 ELSE 1

\* The new thread finds the baton and the invoker alive whatever the creator
\* does meanwhile, and nothing of either is left when the thread is gone.
ClosureLifetime ==
    \A w \in Workers :
        /\ stage[w] = "started" => baton[w] = 1
        /\ stage[w] \in {"started", "entered", "running", "returned"} => invoker[w] = 1
        /\ stage[w] = "none" => baton[w] = 0 /\ invoker[w] = 0

\* The thread whose end, or whose unlocking, t waits for.
Awaits(t) ==
    CASE call[t].pc \in {"join", "assign"} -> m_native[call[t].dst]
      [] call[t].pc = "lock" -> logging
      [] OTHER -> None

\* Threads that join and log never wait for each other in a ring: among any
\* of them is one that waits for none of them (ThreadT::join, its destructor
\* and move assignment, Logger::log_impl).
NoWaitRing == \A S \in (SUBSET Threads) \ {{}} : \E t \in S : Awaits(t) \notin S

\* Every join returns: the joined thread ends, although threads join threads
\* and wait for the logger.
JoinReturns == \A t \in Threads : call[t].pc = "join" ~> call[t].pc # "join"

\* The registry by native id is a context of each thread.
Context == INSTANCE ThreadContext WITH
    depth <- [t \in Threads |-> IF id[t] = None THEN 0 ELSE init_counter[id[t]]],
    logged <- [t \in Threads |-> id[t] # None /\ logger[id[t]]],
    main <- IF \E t \in Threads : id[t] # None /\ IsMainThread(id[t])
            THEN CHOOSE t \in Threads : id[t] # None /\ IsMainThread(id[t])
            ELSE None
ImplementsContext == Context!Spec
=============================================================================
