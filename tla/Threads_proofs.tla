--------------------------- MODULE Threads_proofs ---------------------------
(***************************************************************************)
(* Threads, their closures and their registry entries, for every number of *)
(* workers, ThreadT variables, native ids and calls.                       *)
(***************************************************************************)
EXTENDS Threads, FiniteSetTheorems, SequenceTheorems, TLAPS

Native == {"started", "entered", "running", "returned", "freed", "ended"}

\* A thread has an id from its start to its join, and shares it with none.
IdInv ==
    /\ stage[Root] = "running"
    /\ \A t \in Threads : id[t] # None <=> stage[t] \in Native
    /\ \A t, u \in Threads : id[t] = id[u] /\ id[t] # None => t = u

\* A worker is inside its first guard exactly while the entry runs.
GuardInv ==
    \A w \in Workers :
        /\ stage[w] \in {"none", "made", "started", "entered", "ended"} => guards[w] = <<>>
        /\ stage[w] = "running" => guards[w] # <<>>
        /\ stage[w] \in {"returned", "freed"} => Len(guards[w]) = 1

\* What a call works on is the calling thread's own.
CallInvAt(t) ==
    /\ call[t].pc # "idle" => stage[t] = "running"
    /\ call[t].pc \in {"spawn", "undo"} =>
         /\ call[t].dst \in Own(t) /\ call[t].src = <<t, Temp>>
         /\ Made(t) \in Workers
         /\ stage[Made(t)] = "made"
         /\ invoker[Made(t)] = 1
         /\ baton[Made(t)] = IF call[t].pc = "spawn" THEN 1 ELSE 0
    /\ call[t].pc \in {"assign", "join"} => call[t].dst \in Own(t)
    /\ call[t].pc = "assign" => /\ call[t].src \in Own(t) \cup {<<t, Temp>>}
                                /\ call[t].src # call[t].dst
    /\ Made(t) # None => \/ call[t].pc \in {"spawn", "undo"}
                         \/ call[t].pc = "assign" /\ call[t].src = <<t, Temp>>
CallInv == \A t \in Threads : CallInvAt(t)

\* The ThreadT that names a thread.
NativeInv ==
    /\ \A h \in Handles : m_native[h] # None => stage[m_native[h]] # "none"
    /\ \A g, h \in Handles : m_native[g] = m_native[h] /\ m_native[g] # None => g = h
    /\ \A w \in Workers : stage[w] # "none" => \E h \in Handles : m_native[h] = w

HeapInv ==
    \A w \in Workers :
        /\ stage[w] = "started" => baton[w] = 1
        /\ stage[w] \in {"none", "entered", "running", "returned", "freed", "ended"} => baton[w] = 0
        /\ stage[w] \in {"started", "entered", "running", "returned"} => invoker[w] = 1
        /\ stage[w] \in {"none", "freed", "ended"} => invoker[w] = 0

MainInv ==
    /\ main_thread_id \in {None, id[Root]}
    /\ guards[Root] # <<>> => main_thread_id = id[Root]

IInv ==
    /\ TypeOK
    /\ IdInv
    /\ GuardInv
    /\ CallInv
    /\ NativeInv
    /\ HeapInv
    /\ MainInv
    /\ RegistryMatches

----------------------------------------------------------------------------
(* Threads and handles *)

LEMMA HandleFacts ==
    /\ Root \in Threads /\ Workers \subseteq Threads /\ Root \notin Workers
    /\ Threads = Workers \cup {Root}
    /\ None \notin Threads /\ None \notin Ids
    /\ \A t \in Threads : Own(t) \subseteq Handles /\ <<t, Temp>> \in Handles
    /\ \A t, u \in Threads : <<t, Temp>> \notin Own(u)
    /\ \A t, u \in Threads : <<t, Temp>> = <<u, Temp>> => t = u
    /\ \A t, u \in Threads : \A h : h \in Own(t) /\ h \in Own(u) => t = u
  BY ThreadsAssumption, NoneAssumption DEF Threads, Handles, Own

\* No step of t changes the call of another thread or its temporary; what
\* that call has made stays as it is unless the step made it.
LEMMA CallFrame ==
    ASSUME IInv, NEW u \in Threads,
           call'[u] = call[u], m_native'[<<u, Temp>>] = m_native[<<u, Temp>>],
           stage[u] = "running" => stage'[u] = "running",
           call[u].pc \in {"spawn", "undo"} =>
             /\ stage'[Made(u)] = stage[Made(u)]
             /\ invoker'[Made(u)] = invoker[Made(u)]
             /\ baton'[Made(u)] = baton[Made(u)]
    PROVE  CallInvAt(u)'
  BY DEF IInv, CallInv, CallInvAt, Made, Own

\* Two threads never make the same thread.
LEMMA MadeOnce ==
    ASSUME IInv, NEW t \in Threads, NEW u \in Threads, u # t,
           Made(t) # None
    PROVE  Made(u) # Made(t)
  BY HandleFacts DEF IInv, NativeInv, Made

----------------------------------------------------------------------------
(* Creating, joining and moving *)

Calls == [pc : {"idle", "spawn", "undo", "assign", "join", "lock", "log"},
          dst : Handles \cup {None}, src : Handles \cup {None}]

LEMMA GotoType ==
    ASSUME call \in [Threads -> Calls], NEW t \in Threads,
           NEW pc \in {"idle", "spawn", "undo", "assign", "join", "lock", "log"}, Goto(t, pc)
    PROVE  call' \in [Threads -> Calls]
  BY DEF Goto, Calls

LEMMA CreatePreserves ==
    ASSUME IInv, NEW t \in Threads, NEW dst \in Own(t), NEW w \in Workers, Create(t, dst, w)
    PROVE  IInv'
<1> USE HandleFacts DEF IInv, Create, Begin, Free
<1>1. stage[t] = "running" /\ call[t].pc = "idle" /\ stage[w] = "none" /\ w # t
  OBVIOUS
<1>2. Made(t) = None /\ \A h \in Handles : m_native[h] # w
  BY <1>1 DEF CallInv, CallInvAt, NativeInv
<1>3. TypeOK'
  <2>1. baton[w] = 0 /\ invoker[w] = 0
    BY <1>1 DEF HeapInv
  <2>2. calls' \in [Threads -> Nat] /\ call' \in [Threads -> Calls]
    BY DEF TypeOK, Calls
  <2> QED
    BY <2>1, <2>2 DEF TypeOK, Calls, registryVars
<1>4. IdInv'
  BY <1>1 DEF IdInv, TypeOK, Native
<1>5. GuardInv'
  BY <1>1 DEF GuardInv, TypeOK
<1>6. CallInv'
  <2>1. ASSUME NEW u \in Threads \ {t} PROVE CallInvAt(u)'
    <3>1. call'[u] = call[u] /\ m_native'[<<u, Temp>>] = m_native[<<u, Temp>>]
      BY DEF TypeOK
    <3>2. stage[u] = "running" => stage'[u] = "running"
      BY <1>1 DEF TypeOK
    <3>3. ASSUME call[u].pc \in {"spawn", "undo"}
          PROVE  Made(u) \in Workers \ {w}
      BY <1>1, <3>3 DEF CallInv, CallInvAt
    <3> QED
      BY <3>1, <3>2, <3>3, CallFrame DEF TypeOK
  <2>2. CallInvAt(t)'
    BY <1>1 DEF CallInvAt, Made, TypeOK, HeapInv
  <2> QED
    BY <2>1, <2>2 DEF CallInv
<1>7. NativeInv'
  <2>1. /\ m_native'[<<t, Temp>>] = w
        /\ \A h \in Handles \ {<<t, Temp>>} : m_native'[h] = m_native[h]
    BY DEF TypeOK
  <2>2. stage'[w] = "made" /\ \A v \in Workers \ {w} : stage'[v] = stage[v]
    BY DEF TypeOK
  <2>3. w # None /\ \A h \in Handles : m_native[h] \in Workers \cup {None}
    BY DEF TypeOK
  <2>4. \A v \in Workers \ {w} : stage'[v] # "none" => \E h \in Handles : m_native'[h] = v
    BY <1>2, <2>1, <2>2, <2>3 DEF NativeInv, Made
  <2> QED
    BY <1>2, <2>1, <2>2, <2>3, <2>4 DEF NativeInv
<1>8. HeapInv'
  BY <1>1 DEF HeapInv, TypeOK
<1>9. MainInv' /\ RegistryMatches'
  BY DEF MainInv, RegistryMatches, FreeIds, IsMainThread, registryVars
<1> QED
  BY <1>3, <1>4, <1>5, <1>6, <1>7, <1>8, <1>9

LEMMA SpawnPreserves ==
    ASSUME IInv, NEW t \in Threads, Spawn(t)
    PROVE  IInv'
<1> USE HandleFacts DEF IInv, Spawn, Goto, registryVars, heapVars
<1>1. PICK i \in FreeIds : id' = [id EXCEPT ![Made(t)] = i]
  OBVIOUS
<1>2. /\ Made(t) \in Workers /\ stage[Made(t)] = "made" /\ Made(t) # t
      /\ id[Made(t)] = None /\ guards[Made(t)] = <<>>
      /\ baton[Made(t)] = 1 /\ invoker[Made(t)] = 1
      /\ stage[t] = "running"
  BY DEF CallInv, CallInvAt, IdInv, Native, GuardInv
<1>3. i \in Ids /\ \A u \in Threads : id[u] # i
  BY DEF FreeIds
<1>4. TypeOK'
  <2>1. call' \in [Threads -> Calls]
    BY GotoType DEF TypeOK, Calls
  <2> QED
    BY <1>1, <1>2, <1>3, <2>1 DEF TypeOK, Calls
<1>5. IdInv'
  BY <1>1, <1>2, <1>3 DEF IdInv, TypeOK, Native
<1>6. GuardInv'
  BY <1>2 DEF GuardInv, TypeOK
<1>7. CallInv'
  <2>1. ASSUME NEW u \in Threads \ {t} PROVE CallInvAt(u)'
    <3>1. call'[u] = call[u] /\ m_native'[<<u, Temp>>] = m_native[<<u, Temp>>]
      BY DEF TypeOK
    <3>2. stage[u] = "running" => stage'[u] = "running"
      BY <1>2 DEF TypeOK
    <3>3. ASSUME call[u].pc \in {"spawn", "undo"}
          PROVE  Made(u) \in Workers /\ Made(u) # Made(t)
      BY <1>2, <3>3, MadeOnce DEF CallInv, CallInvAt
    <3> QED
      BY <3>1, <3>2, <3>3, CallFrame DEF TypeOK
  <2>2. CallInvAt(t)'
    BY <1>2 DEF CallInv, CallInvAt, Made, TypeOK, Own
  <2> QED
    BY <2>1, <2>2 DEF CallInv
<1>8. NativeInv'
  BY <1>2 DEF NativeInv, TypeOK
<1>9. HeapInv'
  BY <1>2 DEF HeapInv, TypeOK
<1>10. MainInv'
  BY <1>1, <1>2 DEF MainInv, IsMainThread, TypeOK
<1>11. RegistryMatches'
  <2>1. FreeIds' = FreeIds \ {i}
    BY <1>1, <1>2, <1>3 DEF FreeIds, TypeOK
  <2> QED
    <3>1. id'[Made(t)] = i /\ \A u \in Threads \ {Made(t)} : id'[u] = id[u]
      BY <1>1, <1>2 DEF TypeOK
    <3>2. init_counter[i] = 0 /\ ~logger[i]
      BY DEF RegistryMatches
    <3>3. init_counter' = init_counter /\ logger' = logger /\ guards' = guards
      OBVIOUS
    <3>4. ASSUME NEW u \in Threads, id'[u] # None
          PROVE  init_counter[id'[u]] = Len(guards[u]) /\ logger[id'[u]] = (guards[u] # <<>>)
      <4>1. CASE u = Made(t)
        <5>1. id'[u] = i /\ guards[u] = <<>> /\ Len(<<>>) = 0
          BY <1>2, <3>1, <4>1
        <5> QED
          BY <1>3, <3>2, <5>1 DEF TypeOK
      <4>2. CASE u # Made(t)
        BY <3>1, <3>4, <4>2 DEF RegistryMatches
      <4> QED
        BY <4>1, <4>2
    <3> QED
      BY <2>1, <3>3, <3>4 DEF RegistryMatches
<1> QED
  BY <1>4, <1>5, <1>6, <1>7, <1>8, <1>9, <1>10, <1>11

LEMMA SpawnFailsPreserves ==
    ASSUME IInv, NEW t \in Threads, SpawnFails(t)
    PROVE  IInv'
<1> USE HandleFacts DEF IInv, SpawnFails, Goto, registryVars
<1>1. /\ Made(t) \in Workers /\ stage[Made(t)] = "made" /\ stage[t] = "running"
      /\ baton[Made(t)] = 1 /\ invoker[Made(t)] = 1
  BY DEF CallInv, CallInvAt
<1>2. TypeOK'
  <2>1. call' \in [Threads -> Calls]
    BY GotoType DEF TypeOK, Calls
  <2> QED
    BY <1>1, <2>1 DEF TypeOK, Calls
<1>3. CallInv'
  <2>1. ASSUME NEW u \in Threads \ {t} PROVE CallInvAt(u)'
    <3>1. call'[u] = call[u]
      BY DEF TypeOK
    <3>2. ASSUME call[u].pc \in {"spawn", "undo"}
          PROVE  Made(u) \in Workers /\ Made(u) # Made(t)
      BY <1>1, <3>2, MadeOnce DEF CallInv, CallInvAt
    <3> QED
      BY <3>1, <3>2, CallFrame DEF TypeOK
  <2>2. CallInvAt(t)'
    BY <1>1 DEF CallInv, CallInvAt, Made, TypeOK, Own
  <2> QED
    BY <2>1, <2>2 DEF CallInv
<1>4. HeapInv'
  BY <1>1 DEF HeapInv, TypeOK
<1>5. IdInv' /\ GuardInv' /\ NativeInv' /\ MainInv' /\ RegistryMatches'
  BY DEF IdInv, GuardInv, NativeInv, MainInv, RegistryMatches, FreeIds, IsMainThread
<1> QED
  BY <1>2, <1>3, <1>4, <1>5

LEMMA UndoPreserves ==
    ASSUME IInv, NEW t \in Threads, Undo(t)
    PROVE  IInv'
<1> USE HandleFacts DEF IInv, Undo, Return, Idle, registryVars
<1>1. /\ Made(t) \in Workers /\ stage[Made(t)] = "made" /\ stage[t] = "running"
      /\ baton[Made(t)] = 0 /\ invoker[Made(t)] = 1 /\ Made(t) # t
      /\ guards[Made(t)] = <<>>
  BY DEF CallInv, CallInvAt, GuardInv
<1>2. TypeOK'
  BY <1>1 DEF TypeOK
<1>3. IdInv'
  BY <1>1 DEF IdInv, TypeOK, Native
<1>4. GuardInv'
  BY <1>1 DEF GuardInv, TypeOK
<1>5. CallInv'
  <2>1. ASSUME NEW u \in Threads \ {t} PROVE CallInvAt(u)'
    <3>1. call'[u] = call[u] /\ m_native'[<<u, Temp>>] = m_native[<<u, Temp>>]
      BY DEF TypeOK
    <3>2. stage[u] = "running" => stage'[u] = "running"
      BY <1>1 DEF TypeOK
    <3>3. ASSUME call[u].pc \in {"spawn", "undo"}
          PROVE  Made(u) \in Workers /\ Made(u) # Made(t)
      BY <1>1, <3>3, MadeOnce DEF CallInv, CallInvAt
    <3> QED
      BY <3>1, <3>2, <3>3, CallFrame DEF TypeOK
  <2>2. CallInvAt(t)'
    BY <1>1 DEF CallInv, CallInvAt, Made, TypeOK, Own
  <2> QED
    BY <2>1, <2>2 DEF CallInv
<1>6. NativeInv'
  <2>1. /\ m_native'[<<t, Temp>>] = None
        /\ \A h \in Handles \ {<<t, Temp>>} : m_native'[h] = m_native[h]
    BY DEF TypeOK
  <2>2. stage'[Made(t)] = "none" /\ \A v \in Workers \ {Made(t)} : stage'[v] = stage[v]
    BY <1>1 DEF TypeOK
  <2>3. \A h \in Handles : m_native[h] = Made(t) => h = <<t, Temp>>
    BY <1>1 DEF NativeInv, Made
  <2>4. \A h \in Handles : m_native[h] \in Workers \cup {None}
    BY DEF TypeOK
  <2>5. ASSUME NEW v \in Workers, stage'[v] # "none" PROVE \E h \in Handles : m_native'[h] = v
    BY <2>1, <2>2, <2>5 DEF NativeInv, Made
  <2> QED
    BY <2>1, <2>2, <2>3, <2>4, <2>5 DEF NativeInv
<1>7. HeapInv'
  BY <1>1 DEF HeapInv, TypeOK
<1>8. MainInv' /\ RegistryMatches'
  BY DEF MainInv, RegistryMatches, FreeIds, IsMainThread
<1> QED
  BY <1>2, <1>3, <1>4, <1>5, <1>6, <1>7, <1>8
LEMMA StartCallPreserves ==
    ASSUME IInv, NEW t \in Threads, Free(t),
           NEW c \in Calls, c.pc \in {"assign", "join", "lock", "idle"},
           c.pc \in {"assign", "join"} => c.dst \in Own(t),
           c.pc = "assign" => c.src \in Own(t) /\ c.src # c.dst,
           call' = [call EXCEPT ![t] = c],
           calls' \in [Threads -> Nat],
           UNCHANGED <<registryVars, stage, id, guards, heapVars, m_native, logging>>
    PROVE  IInv'
<1> USE HandleFacts DEF IInv, Free, heapVars, registryVars
<1>1. TypeOK'
  BY DEF TypeOK, Calls
<1>2. CallInv'
  <2>1. ASSUME NEW u \in Threads \ {t} PROVE CallInvAt(u)'
    BY CallFrame DEF TypeOK
  <2>2. CallInvAt(t)'
    BY DEF CallInv, CallInvAt, Made, TypeOK
  <2> QED
    BY <2>1, <2>2 DEF CallInv
<1>3. IdInv' /\ GuardInv' /\ NativeInv' /\ HeapInv' /\ MainInv' /\ RegistryMatches'
  BY DEF IdInv, GuardInv, NativeInv, HeapInv, MainInv, RegistryMatches, FreeIds, IsMainThread
<1> QED
  BY <1>1, <1>2, <1>3

LEMMA MoveAssignPreserves ==
    ASSUME IInv, NEW t \in Threads, NEW dst \in Own(t), NEW src \in Own(t),
           MoveAssign(t, dst, src)
    PROVE  IInv'
<1> DEFINE c == [pc |-> "assign", dst |-> dst, src |-> src]
<1>1. c \in Calls
  BY HandleFacts DEF Calls
<1>2. calls' \in [Threads -> Nat]
  BY DEF IInv, TypeOK, MoveAssign, Begin
<1>3. call' = [call EXCEPT ![t] = c]
  BY DEF MoveAssign, Begin
<1>4. UNCHANGED <<registryVars, stage, id, guards, heapVars, m_native, logging>>
  BY DEF MoveAssign
<1>5. Free(t) /\ dst # src
  BY DEF MoveAssign, Begin
<1>6. c.pc = "assign" /\ c.dst = dst /\ c.src = src
  OBVIOUS
<1> HIDE DEF c
<1> QED
  BY <1>1, <1>2, <1>3, <1>4, <1>5, <1>6, StartCallPreserves

LEMMA JoinPreserves ==
    ASSUME IInv, NEW t \in Threads, NEW h \in Own(t), Join(t, h)
    PROVE  IInv'
<1> DEFINE c == [pc |-> "join", dst |-> h, src |-> None]
<1>1. c \in Calls
  BY HandleFacts DEF Calls
<1>2. calls' \in [Threads -> Nat]
  BY DEF IInv, TypeOK, Join
<1>3. call' = [call EXCEPT ![t] = c]
  BY DEF Join
<1>4. UNCHANGED <<registryVars, stage, id, guards, heapVars, m_native, logging>>
  BY DEF Join
<1>5. Free(t)
  BY DEF Join
<1>6. c.pc = "join" /\ c.dst = h
  OBVIOUS
<1> HIDE DEF c
<1> QED
  BY <1>1, <1>2, <1>3, <1>4, <1>5, <1>6, StartCallPreserves

LEMMA LogPreserves ==
    ASSUME IInv, NEW t \in Threads, Log(t)
    PROVE  IInv'
<1> DEFINE c == [pc |-> "lock", dst |-> None, src |-> None]
<1>1. c \in Calls
  BY DEF Calls
<1>2. calls' \in [Threads -> Nat]
  BY DEF IInv, TypeOK, Log, Begin
<1>3. call' = [call EXCEPT ![t] = c]
  BY DEF Log, Begin
<1>4. UNCHANGED <<registryVars, stage, id, guards, heapVars, m_native, logging>>
  BY DEF Log
<1>5. Free(t)
  BY DEF Log, Begin
<1>6. c.pc = "lock"
  OBVIOUS
<1> HIDE DEF c
<1> QED
  BY <1>1, <1>2, <1>3, <1>4, <1>5, <1>6, StartCallPreserves

LEMMA JoinedPreserves ==
    ASSUME IInv, NEW t \in Threads, Joined(t)
    PROVE  IInv'
<1> DEFINE h == call[t].dst
           w == m_native[h]
<1> USE HandleFacts DEF IInv, Joined, registryVars, heapVars
<1>1. /\ call[t].pc \in {"join", "assign"} /\ h \in Own(t) /\ h \in Handles
      /\ w \in Workers /\ stage[w] = "ended" /\ w # t /\ stage[t] = "running"
  <2>1. call[t].pc \in {"join", "assign"} /\ w # None /\ stage[w] = "ended"
    OBVIOUS
  <2>2. CallInvAt(t)
    BY DEF CallInv
  <2>3. h \in Own(t) /\ stage[t] = "running"
    BY <2>1, <2>2 DEF CallInvAt
  <2>4. w \in Workers /\ h \in Handles
    BY <2>1, <2>3 DEF TypeOK
  <2> QED
    BY <2>1, <2>3, <2>4
<1>2. /\ stage' = [stage EXCEPT ![w] = "none"] /\ id' = [id EXCEPT ![w] = None]
      /\ calls' = [calls EXCEPT ![w] = WorkerCalls]
      /\ m_native' = [m_native EXCEPT ![h] = None]
      /\ \/ call' = call
         \/ call' = [call EXCEPT ![t] = Idle] /\ call[t].pc = "join"
      /\ UNCHANGED <<init_counter, logger, main_thread_id, guards, baton, invoker, logging>>
  BY DEF Return
<1> HIDE DEF Joined, h, w
<1>3. guards[w] = <<>> /\ id[w] \in Ids /\ id[w] # None /\ baton[w] = 0 /\ invoker[w] = 0
  BY <1>1 DEF GuardInv, IdInv, Native, TypeOK, HeapInv
<1>4. TypeOK'
  <2>1. call' \in [Threads -> Calls]
    <3>1. Idle \in Calls /\ call \in [Threads -> Calls]
      BY DEF Calls, Idle, TypeOK
    <3> QED
      BY <1>2, <3>1
  <2>2. calls' \in [Threads -> Nat]
    BY <1>1, <1>2, ThreadsAssumption DEF TypeOK
  <2> QED
    BY <1>1, <1>2, <2>1, <2>2 DEF TypeOK, Calls
<1>5. IdInv'
  BY <1>1, <1>2 DEF IdInv, TypeOK, Native
<1>6. GuardInv'
  BY <1>1, <1>2, <1>3 DEF GuardInv, TypeOK
<1>7. CallInv'
  <2>1. ASSUME NEW u \in Threads \ {t} PROVE CallInvAt(u)'
    <3>1. call'[u] = call[u] /\ m_native'[<<u, Temp>>] = m_native[<<u, Temp>>]
      BY <1>1, <1>2 DEF TypeOK
    <3>2. stage[u] = "running" => stage'[u] = "running"
      BY <1>1, <1>2 DEF TypeOK
    <3>3. ASSUME call[u].pc \in {"spawn", "undo"}
          PROVE  Made(u) \in Workers /\ Made(u) # w
      BY <1>1, <3>3 DEF CallInv, CallInvAt
    <3> QED
      BY <1>2, <3>1, <3>2, <3>3, CallFrame DEF TypeOK
  <2>2. CallInvAt(t)'
    <3>1. /\ stage'[t] = "running" /\ Made(t)' = Made(t)
          /\ \/ call'[t] = call[t]
             \/ call'[t] = Idle /\ call[t].pc = "join"
      <4>1. <<t, Temp>> \in Handles \ {h} /\ t # w
        BY <1>1
      <4> QED
        <5>1. m_native'[<<t, Temp>>] = m_native[<<t, Temp>>]
          BY <1>2, <4>1 DEF TypeOK
        <5>2. stage'[t] = "running"
          BY <1>1, <1>2, <4>1 DEF TypeOK
        <5>3. call'[t] = call[t] \/ (call'[t] = Idle /\ call[t].pc = "join")
          BY <1>2 DEF TypeOK
        <5> QED
          BY <5>1, <5>2, <5>3 DEF Made
    <3>2. CallInvAt(t)
      BY DEF CallInv
    <3>3. CASE call'[t] = call[t]
      BY <1>1, <3>1, <3>2, <3>3 DEF CallInvAt
    <3>4. CASE call'[t] = Idle /\ call[t].pc = "join"
      BY <3>1, <3>2, <3>4 DEF CallInvAt, Idle
    <3> QED
      BY <3>1, <3>3, <3>4
  <2> QED
    BY <2>1, <2>2 DEF CallInv
<1>8. NativeInv'
  <2>1. /\ m_native'[h] = None
        /\ \A g \in Handles \ {h} : m_native'[g] = m_native[g]
    BY <1>1, <1>2 DEF TypeOK
  <2>2. stage'[w] = "none" /\ \A v \in Workers \ {w} : stage'[v] = stage[v]
    BY <1>1, <1>2 DEF TypeOK
  <2>3. \A g \in Handles : m_native[g] = w => g = h
    BY <1>1 DEF NativeInv, w
  <2>4. \A g \in Handles : m_native[g] \in Workers \cup {None}
    BY DEF TypeOK
  <2>5. ASSUME NEW v \in Workers, stage'[v] # "none" PROVE \E g \in Handles : m_native'[g] = v
    BY <2>1, <2>2, <2>5 DEF NativeInv, w
  <2> QED
    BY <2>1, <2>2, <2>3, <2>4, <2>5 DEF NativeInv
<1>9. HeapInv'
  BY <1>1, <1>2, <1>3 DEF HeapInv, TypeOK
<1>10. MainInv'
  BY <1>1, <1>2 DEF MainInv, IsMainThread, TypeOK
<1>11. RegistryMatches'
  <2>1. /\ id'[w] = None /\ \A u \in Threads \ {w} : id'[u] = id[u]
        /\ \A u \in Threads \ {w} : id[u] # id[w]
    BY <1>1, <1>2, <1>3 DEF TypeOK, IdInv
  <2>2. FreeIds' = FreeIds \cup {id[w]}
    BY <1>1, <1>3, <2>1 DEF FreeIds
  <2>3. init_counter[id[w]] = 0 /\ ~logger[id[w]]
    BY <1>1, <1>3 DEF RegistryMatches
  <2>4. ASSUME NEW u \in Threads, id'[u] # None
        PROVE  init_counter[id'[u]] = Len(guards[u]) /\ logger[id'[u]] = (guards[u] # <<>>)
    BY <2>1, <2>4 DEF RegistryMatches
  <2>5. \A i \in FreeIds' : init_counter[i] = 0 /\ ~logger[i]
    BY <2>2, <2>3 DEF RegistryMatches
  <2> QED
    BY <1>2, <2>4, <2>5 DEF RegistryMatches
<1> QED
  BY <1>4, <1>5, <1>6, <1>7, <1>8, <1>9, <1>10, <1>11

LEMMA TakePreserves ==
    ASSUME IInv, NEW t \in Threads, Take(t)
    PROVE  IInv'
<1> DEFINE c == call[t]
<1> USE HandleFacts DEF IInv, Take, Return, registryVars, heapVars
<1>1. /\ c.pc = "assign" /\ c.dst \in Own(t) /\ c.dst \in Handles
      /\ c.src \in Own(t) \cup {<<t, Temp>>} /\ c.src \in Handles /\ c.src # c.dst
      /\ m_native[c.dst] = None
  <2>1. c.pc = "assign" /\ m_native[c.dst] = None
    OBVIOUS
  <2>2. CallInvAt(t)
    BY DEF CallInv
  <2>3. c.dst \in Own(t) /\ c.src \in Own(t) \cup {<<t, Temp>>} /\ c.src # c.dst
    BY <2>1, <2>2 DEF CallInvAt
  <2>4. Own(t) \cup {<<t, Temp>>} \subseteq Handles
    BY DEF Handles, Own
  <2> QED
    BY <2>1, <2>3, <2>4
<1>2. /\ m_native'[c.dst] = m_native[c.src] /\ m_native'[c.src] = None
      /\ \A g \in Handles \ {c.dst, c.src} : m_native'[g] = m_native[g]
  BY <1>1 DEF TypeOK
<1>3. /\ call' = [call EXCEPT ![t] = Idle]
      /\ UNCHANGED <<init_counter, logger, main_thread_id, stage, id, guards, calls, baton,
                     invoker, logging>>
  OBVIOUS
<1>4. TypeOK'
  <2>1. call' \in [Threads -> Calls]
    BY DEF TypeOK, Calls, Idle
  <2>2. m_native' \in [Handles -> Workers \cup {None}]
    BY <1>1 DEF TypeOK
  <2> QED
    BY <1>3, <2>1, <2>2 DEF TypeOK, Calls
<1> HIDE DEF Take, c
<1>5. CallInv'
  <2>1. ASSUME NEW u \in Threads \ {t} PROVE CallInvAt(u)'
    <3>1. <<u, Temp>> \in Handles \ {c.dst, c.src}
      BY <1>1
    <3>2. call'[u] = call[u] /\ m_native'[<<u, Temp>>] = m_native[<<u, Temp>>]
      BY <1>2, <1>3, <3>1 DEF TypeOK
    <3> QED
      BY <1>3, <3>2, CallFrame
  <2>2. Made(t)' = None
    BY <1>1, <1>2 DEF CallInv, CallInvAt, Made, c
  <2>3. CallInvAt(t)'
    BY <1>3, <2>2 DEF CallInvAt, TypeOK, Idle
  <2> QED
    BY <2>1, <2>3 DEF CallInv
<1>6. NativeInv'
  <2>1. ASSUME NEW v \in Workers, stage[v] # "none" PROVE \E g \in Handles : m_native'[g] = v
    BY <1>1, <1>2, <2>1 DEF NativeInv
  <2>2. \A g \in Handles : m_native'[g] # None => stage[m_native'[g]] # "none"
    BY <1>1, <1>2 DEF NativeInv
  <2>3. \A g, k \in Handles : m_native'[g] = m_native'[k] /\ m_native'[g] # None => g = k
    BY <1>1, <1>2 DEF NativeInv
  <2> QED
    BY <1>3, <2>1, <2>2, <2>3 DEF NativeInv
<1>7. IdInv' /\ GuardInv' /\ HeapInv' /\ MainInv' /\ RegistryMatches'
  BY <1>3 DEF IdInv, GuardInv, HeapInv, MainInv, RegistryMatches, FreeIds, IsMainThread
<1> QED
  BY <1>4, <1>5, <1>6, <1>7
----------------------------------------------------------------------------
(* Guards *)

LEMMA SeqFacts ==
    ASSUME NEW S, NEW s \in Seq(S), NEW x \in S
    PROVE  /\ Append(s, x) \in Seq(S) /\ Len(Append(s, x)) = Len(s) + 1
           /\ Append(s, x) # <<>>
           /\ Len(s) \in Nat
           /\ s = <<>> <=> Len(s) = 0
           /\ s # <<>> => Front(s) \in Seq(S) /\ Len(Front(s)) = Len(s) - 1
           /\ s # <<>> => (Front(s) = <<>> <=> Len(s) = 1)
<1>1. s = <<>> <=> Len(s) = 0
  BY EmptySeq
<1>2. ASSUME s # <<>>
      PROVE  Front(s) \in Seq(S) /\ Len(Front(s)) = Len(s) - 1
  <2>1. Len(s) \in Nat \ {0}
    BY <1>1, <1>2
  <2> DEFINE n == Len(s) - 1
  <2>2. n \in Nat /\ (\A j \in 1 .. n : s[j] \in S) /\ Front(s) = SubSeq(s, 1, n)
    BY <2>1 DEF Front
  <2> HIDE DEF n
  <2>3. SubSeq(s, 1, n) \in Seq(S) /\ Len(SubSeq(s, 1, n)) = n
    BY <2>2, SubSeqProperties
  <2> QED
    BY <2>2, <2>3 DEF n
<1>3. ASSUME s # <<>> PROVE Front(s) = <<>> <=> Len(s) = 1
  <2>1. Front(s) = <<>> <=> Len(Front(s)) = 0
    BY <1>2, <1>3, EmptySeq
  <2> QED
    BY <1>2, <1>3, <2>1
<1> QED
  BY <1>1, <1>2, <1>3

\* The same of the lengths alone.
LEMMA SeqFactsOf ==
    ASSUME NEW S, NEW s \in Seq(S)
    PROVE  /\ Len(s) \in Nat
           /\ s = <<>> <=> Len(s) = 0
           /\ s # <<>> => Len(s) # 0 /\ Len(Front(s)) = Len(s) - 1
           /\ s # <<>> => (Front(s) = <<>> <=> Len(s) = 1)
<1>1. s = <<>> <=> Len(s) = 0
  BY EmptySeq
<1>2. ASSUME s # <<>> PROVE s[1] \in S
  BY <1>1, <1>2
<1> QED  BY <1>1, <1>2, SeqFacts

\* The entry of t follows its guards, the other entries stay.
LEMMA EntryFollows ==
    ASSUME IInv, NEW t \in Threads, id[t] # None, id' = id,
           init_counter'[id[t]] = Len(guards'[t]),
           logger'[id[t]] = (guards'[t] # <<>>),
           \A i \in Ids \ {id[t]} : init_counter'[i] = init_counter[i] /\ logger'[i] = logger[i],
           \A u \in Threads \ {t} : guards'[u] = guards[u]
    PROVE  RegistryMatches'
<1>1. FreeIds' = FreeIds /\ \A i \in FreeIds : i \in Ids \ {id[t]}
  BY DEF FreeIds
<1>2. ASSUME NEW u \in Threads, id[u] # None
      PROVE  init_counter'[id[u]] = Len(guards'[u]) /\ logger'[id[u]] = (guards'[u] # <<>>)
  <2>1. CASE u = t
    BY <2>1
  <2>2. CASE u # t
    <3>1. id[u] \in Ids \ {id[t]}
      BY <1>2, <2>2 DEF IInv, IdInv, TypeOK
    <3> QED
      BY <1>2, <2>2, <3>1 DEF IInv, RegistryMatches
  <2> QED
    BY <2>1, <2>2
<1>3. \A i \in FreeIds : init_counter'[i] = 0 /\ ~logger'[i]
  BY <1>1 DEF IInv, RegistryMatches
<1> QED
  BY <1>1, <1>2, <1>3 DEF RegistryMatches

LEMMA InitializeFollows ==
    ASSUME IInv, NEW t \in Threads, id[t] # None, id' = id,
           NEW g \in {"main", "worker"},
           guards' = [guards EXCEPT ![t] = Append(@, g)],
           InitializeMain(id[t]) \/ InitializeWorker(id[t])
    PROVE  /\ init_counter' \in [Ids -> Nat] /\ logger' \in [Ids -> BOOLEAN]
           /\ guards' \in [Threads -> Seq({"main", "worker"})]
           /\ guards'[t] # <<>> /\ \A u \in Threads \ {t} : guards'[u] = guards[u]
           /\ RegistryMatches'
<1> DEFINE i == id[t]
           G == {"main", "worker"}
<1>1. /\ i \in Ids /\ init_counter[i] = Len(guards[t]) /\ guards[t] \in Seq(G)
      /\ logger[i] = (guards[t] # <<>>) /\ logger[i] \in BOOLEAN
  BY DEF IInv, TypeOK, RegistryMatches
<1>2. /\ guards'[t] = Append(guards[t], g)
      /\ \A u \in Threads \ {t} : guards'[u] = guards[u]
  BY DEF IInv, TypeOK
<1>3. /\ Append(guards[t], g) \in Seq(G) /\ Append(guards[t], g) # <<>>
      /\ Len(Append(guards[t], g)) = Len(guards[t]) + 1
      /\ Len(guards[t]) \in Nat /\ (guards[t] = <<>> <=> Len(guards[t]) = 0)
  BY <1>1, SeqFacts
<1>4. init_counter' = [init_counter EXCEPT ![i] = @ + 1]
  BY DEF InitializeMain, InitializeWorker
<1>5. \/ init_counter[i] + 1 > 1 /\ logger' = logger
      \/ logger' = [logger EXCEPT ![i] = TRUE]
  BY DEF InitializeMain, InitializeWorker
<1> HIDE DEF i
<1>6. init_counter' \in [Ids -> Nat] /\ logger' \in [Ids -> BOOLEAN]
  <2>1. init_counter \in [Ids -> Nat] /\ logger \in [Ids -> BOOLEAN]
    BY DEF IInv, TypeOK
  <2>2. init_counter[i] + 1 \in Nat
    BY <1>1, <1>3
  <2>3. init_counter' \in [Ids -> Nat]
    BY <1>4, <2>1, <2>2
  <2>4. logger' \in [Ids -> BOOLEAN]
    BY <1>5, <2>1
  <2> QED
    BY <2>3, <2>4
<1>7. guards' \in [Threads -> Seq(G)]
  BY <1>1, <1>3 DEF IInv, TypeOK
<1>8. /\ init_counter'[i] = init_counter[i] + 1
      /\ \A j \in Ids \ {i} : init_counter'[j] = init_counter[j]
  BY <1>1, <1>4 DEF IInv, TypeOK
<1>9. logger'[i] = TRUE /\ \A j \in Ids \ {i} : logger'[j] = logger[j]
  <2>1. CASE init_counter[i] + 1 > 1 /\ logger' = logger
    <3>1. guards[t] # <<>>
      BY <1>1, <1>3, <2>1
    <3> QED
      BY <1>1, <2>1, <3>1
  <2>2. CASE logger' = [logger EXCEPT ![i] = TRUE]
    BY <1>1, <2>2 DEF IInv, TypeOK
  <2> QED
    BY <1>5, <2>1, <2>2
<1>10. logger'[i] = (guards'[t] # <<>>)
  BY <1>2, <1>3, <1>9
<1>11. RegistryMatches'
  BY <1>1, <1>2, <1>3, <1>8, <1>9, <1>10, EntryFollows DEF i
<1> QED
  BY <1>2, <1>3, <1>6, <1>7, <1>11

LEMMA TerminateFollows ==
    ASSUME IInv, NEW t \in Threads, id[t] # None, id' = id, guards[t] # <<>>,
           guards' = [guards EXCEPT ![t] = Front(@)],
           Terminate(id[t])
    PROVE  /\ init_counter' \in [Ids -> Nat] /\ logger' \in [Ids -> BOOLEAN]
           /\ guards' \in [Threads -> Seq({"main", "worker"})]
           /\ guards'[t] = Front(guards[t])
           /\ guards'[t] = <<>> <=> Len(guards[t]) = 1
           /\ Len(guards'[t]) = Len(guards[t]) - 1
           /\ \A u \in Threads \ {t} : guards'[u] = guards[u]
           /\ RegistryMatches'
<1> DEFINE i == id[t]
           G == {"main", "worker"}
<1>1. /\ i \in Ids /\ init_counter[i] = Len(guards[t]) /\ guards[t] \in Seq(G)
      /\ logger[i] = (guards[t] # <<>>) /\ logger[i] \in BOOLEAN
  BY DEF IInv, TypeOK, RegistryMatches
<1>2. /\ guards'[t] = Front(guards[t])
      /\ \A u \in Threads \ {t} : guards'[u] = guards[u]
  BY DEF IInv, TypeOK
<1>3. /\ Front(guards[t]) \in Seq(G) /\ Len(Front(guards[t])) = Len(guards[t]) - 1
      /\ Front(guards[t]) = <<>> <=> Len(guards[t]) = 1
      /\ Len(guards[t]) \in Nat \ {0}
  BY <1>1, SeqFacts
<1>4. init_counter' = [init_counter EXCEPT ![i] = @ - 1]
  BY DEF Terminate
<1>5. IF init_counter[i] - 1 > 0 THEN logger' = logger
                                 ELSE logger' = [logger EXCEPT ![i] = FALSE]
  BY DEF Terminate
<1> HIDE DEF i
<1>6. init_counter' \in [Ids -> Nat] /\ logger' \in [Ids -> BOOLEAN]
  <2>1. init_counter \in [Ids -> Nat] /\ logger \in [Ids -> BOOLEAN]
    BY DEF IInv, TypeOK
  <2>2. init_counter[i] - 1 \in Nat
    BY <1>1, <1>3
  <2>3. init_counter' \in [Ids -> Nat]
    BY <1>4, <2>1, <2>2
  <2>4. logger' \in [Ids -> BOOLEAN]
    BY <1>5, <2>1
  <2> QED
    BY <2>3, <2>4
<1>7. guards' \in [Threads -> Seq(G)]
  BY <1>1, <1>3 DEF IInv, TypeOK
<1>8. /\ init_counter'[i] = init_counter[i] - 1
      /\ \A j \in Ids \ {i} : init_counter'[j] = init_counter[j]
  BY <1>1, <1>4 DEF IInv, TypeOK
<1>9. /\ logger'[i] = (Len(guards[t]) # 1)
      /\ \A j \in Ids \ {i} : logger'[j] = logger[j]
  <2>1. CASE init_counter[i] - 1 > 0
    <3>1. Len(guards[t]) # 1 /\ logger' = logger
      BY <1>1, <1>3, <1>5, <2>1
    <3>2. logger[i] = TRUE
      BY <1>1
    <3> QED
      BY <3>1, <3>2
  <2>2. CASE ~(init_counter[i] - 1 > 0)
    <3>1. Len(guards[t]) = 1 /\ logger' = [logger EXCEPT ![i] = FALSE]
      BY <1>1, <1>3, <1>5, <2>2
    <3> QED
      BY <1>1, <3>1 DEF IInv, TypeOK
  <2> QED
    BY <2>1, <2>2
<1>10. logger'[i] = (guards'[t] # <<>>)
  BY <1>2, <1>3, <1>9
<1>11. RegistryMatches'
  BY <1>1, <1>2, <1>3, <1>8, <1>9, <1>10, EntryFollows DEF i
<1> QED
  BY <1>2, <1>3, <1>6, <1>7, <1>11
LEMMA GuardMainPreserves ==
    ASSUME IInv, NEW t \in Threads, GuardMain(t)
    PROVE  IInv'
<1> USE HandleFacts DEF IInv
<1>1. /\ t = Root /\ stage[t] = "running" /\ call[t].pc = "idle" /\ InitializeMain(id[t])
      /\ guards' = [guards EXCEPT ![t] = Append(@, "main")]
      /\ calls' \in [Threads -> Nat]
      /\ call' = [call EXCEPT ![t] = Idle]
      /\ UNCHANGED <<stage, id, baton, invoker, m_native, logging>>
  BY DEF GuardMain, Begin, Free, heapVars, Idle, TypeOK
<1>2. id[t] # None /\ id[t] \in Ids
  BY <1>1 DEF IdInv, Native, TypeOK
<1>3. /\ init_counter' \in [Ids -> Nat] /\ logger' \in [Ids -> BOOLEAN]
      /\ guards' \in [Threads -> Seq({"main", "worker"})]
      /\ guards'[t] # <<>> /\ \A u \in Threads \ {t} : guards'[u] = guards[u]
      /\ RegistryMatches'
  BY <1>1, <1>2, InitializeFollows
<1>4. main_thread_id' = IF init_counter[id[t]] + 1 > 1 THEN main_thread_id ELSE id[t]
  BY <1>1 DEF InitializeMain
<1>5. TypeOK'
  <2>1. call' \in [Threads -> Calls]
    BY <1>1 DEF TypeOK, Calls, Idle
  <2>2. main_thread_id' \in Ids \cup {None}
    BY <1>2, <1>4 DEF TypeOK
  <2> QED
    BY <1>1, <1>3, <2>1, <2>2 DEF TypeOK, Calls
<1>6. MainInv'
  <2>1. CASE guards[t] = <<>>
    <3>1. init_counter[id[t]] = 0
      BY <1>2, <2>1, EmptySeq DEF RegistryMatches
    <3>2. main_thread_id' = id[Root]
      BY <1>1, <1>4, <3>1
    <3> QED
      BY <1>1, <3>2 DEF MainInv
  <2>2. CASE guards[t] # <<>>
    <3>1. main_thread_id = id[Root]
      BY <1>1, <2>2 DEF MainInv
    <3>2. main_thread_id' = id[Root]
      BY <1>1, <1>4, <3>1
    <3> QED
      BY <1>1, <3>2 DEF MainInv
  <2> QED
    BY <2>1, <2>2
<1>7. CallInv'
  <2>1. ASSUME NEW u \in Threads \ {t} PROVE CallInvAt(u)'
    BY <1>1, CallFrame DEF TypeOK
  <2>2. CallInvAt(t)'
    BY <1>1 DEF CallInv, CallInvAt, Made, TypeOK, Idle
  <2> QED
    BY <2>1, <2>2 DEF CallInv
<1>8. GuardInv'
  BY <1>1, <1>3 DEF GuardInv
<1>9. IdInv' /\ NativeInv' /\ HeapInv'
  BY <1>1 DEF IdInv, NativeInv, HeapInv
<1> QED
  BY <1>3, <1>5, <1>6, <1>7, <1>8, <1>9

LEMMA GuardWorkerPreserves ==
    ASSUME IInv, NEW t \in Threads, GuardWorker(t)
    PROVE  IInv'
<1> USE HandleFacts DEF IInv
<1>1. /\ t = Root => guards[t] # <<>>
      /\ stage[t] = "running" /\ call[t].pc = "idle" /\ InitializeWorker(id[t])
      /\ guards' = [guards EXCEPT ![t] = Append(@, "worker")]
      /\ calls' \in [Threads -> Nat]
      /\ call' = [call EXCEPT ![t] = Idle]
      /\ UNCHANGED <<main_thread_id, stage, id, baton, invoker, m_native, logging>>
  BY DEF GuardWorker, Begin, Free, heapVars, Idle, TypeOK, InitializeWorker
<1>2. id[t] # None
  BY <1>1 DEF IdInv, Native
<1>3. /\ init_counter' \in [Ids -> Nat] /\ logger' \in [Ids -> BOOLEAN]
      /\ guards' \in [Threads -> Seq({"main", "worker"})]
      /\ guards'[t] # <<>> /\ \A u \in Threads \ {t} : guards'[u] = guards[u]
      /\ RegistryMatches'
  BY <1>1, <1>2, InitializeFollows
<1>4. TypeOK'
  <2>1. call' \in [Threads -> Calls]
    BY <1>1 DEF TypeOK, Calls, Idle
  <2> QED
    BY <1>1, <1>3, <2>1 DEF TypeOK, Calls
<1>5. CallInv'
  <2>1. ASSUME NEW u \in Threads \ {t} PROVE CallInvAt(u)'
    BY <1>1, CallFrame DEF TypeOK
  <2>2. CallInvAt(t)'
    BY <1>1 DEF CallInv, CallInvAt, Made, TypeOK, Idle
  <2> QED
    BY <2>1, <2>2 DEF CallInv
<1>6. GuardInv'
  <2> SUFFICES ASSUME NEW w \in Workers, w = t
               PROVE  stage[t] = "running" /\ guards'[t] # <<>>
    BY <1>1, <1>3 DEF GuardInv
  <2> QED
    BY <1>1, <1>3
<1>7. MainInv'
  BY <1>1, <1>3 DEF MainInv
<1>8. IdInv' /\ NativeInv' /\ HeapInv'
  BY <1>1 DEF IdInv, NativeInv, HeapInv
<1> QED
  BY <1>3, <1>4, <1>5, <1>6, <1>7, <1>8

LEMMA UnguardPreserves ==
    ASSUME IInv, NEW t \in Threads, Unguard(t)
    PROVE  IInv'
<1> USE HandleFacts DEF IInv
<1>1. /\ guards[t] # <<>> /\ (t # Root => Len(guards[t]) > 1)
      /\ stage[t] = "running" /\ Terminate(id[t])
      /\ guards' = [guards EXCEPT ![t] = Front(@)]
      /\ UNCHANGED <<main_thread_id, stage, id, calls, call, baton, invoker, m_native, logging>>
  BY DEF Unguard, Free, heapVars, Terminate
<1>2. id[t] # None
  BY <1>1 DEF IdInv, Native
<1>3. /\ init_counter' \in [Ids -> Nat] /\ logger' \in [Ids -> BOOLEAN]
      /\ guards' \in [Threads -> Seq({"main", "worker"})]
      /\ guards'[t] = <<>> <=> Len(guards[t]) = 1
      /\ \A u \in Threads \ {t} : guards'[u] = guards[u]
      /\ RegistryMatches'
  BY <1>1, <1>2, TerminateFollows
<1>4. TypeOK'
  BY <1>1, <1>3 DEF TypeOK
<1>5. CallInv'
  BY <1>1 DEF CallInv, CallInvAt, Made
<1>6. GuardInv'
  <2> SUFFICES ASSUME NEW w \in Workers, w = t
               PROVE  stage[t] = "running" /\ guards'[t] # <<>>
    BY <1>1, <1>3 DEF GuardInv
  <2> DEFINE n == Len(guards[t])
  <2>1. n \in Nat
    BY DEF TypeOK
  <2>2. t # Root
    BY HandleFacts
  <2>3. n > 1
    BY <1>1, <2>2
  <2> HIDE DEF n
  <2>4. n # 1
    BY <2>1, <2>3
  <2> QED
    BY <1>1, <1>3, <2>4 DEF n
<1>7. MainInv'
  BY <1>1, <1>3 DEF MainInv
<1>8. IdInv' /\ NativeInv' /\ HeapInv'
  BY <1>1 DEF IdInv, NativeInv, HeapInv
<1> QED
  BY <1>3, <1>4, <1>5, <1>6, <1>7, <1>8

----------------------------------------------------------------------------
(* Logging and the life of a native thread *)

LEMMA LogLockPreserves ==
    ASSUME IInv, NEW t \in Threads, LogLock(t)
    PROVE  IInv'
<1> USE HandleFacts DEF IInv
<1>1. /\ call[t].pc = "lock" /\ logging' = t /\ Goto(t, "log")
      /\ UNCHANGED <<init_counter, logger, main_thread_id, stage, id, guards, calls, baton,
                     invoker, m_native>>
  BY DEF LogLock, registryVars, heapVars
<1>2. TypeOK'
  <2>1. call' \in [Threads -> Calls]
    BY <1>1, GotoType DEF TypeOK, Calls
  <2> QED
    BY <1>1, <2>1 DEF TypeOK, Calls
<1>3. CallInv'
  <2>1. ASSUME NEW u \in Threads \ {t} PROVE CallInvAt(u)'
    BY <1>1, CallFrame DEF TypeOK, Goto
  <2>2. CallInvAt(t)'
    BY <1>1 DEF CallInv, CallInvAt, Made, TypeOK, Goto
  <2> QED
    BY <2>1, <2>2 DEF CallInv
<1>4. IdInv' /\ GuardInv' /\ NativeInv' /\ HeapInv' /\ MainInv' /\ RegistryMatches'
  BY <1>1 DEF IdInv, GuardInv, NativeInv, HeapInv, MainInv, RegistryMatches, FreeIds
<1> QED
  BY <1>2, <1>3, <1>4

LEMMA LogUnlockPreserves ==
    ASSUME IInv, NEW t \in Threads, LogUnlock(t)
    PROVE  IInv'
<1> USE HandleFacts DEF IInv
<1>1. /\ call[t].pc = "log" /\ logging' = None /\ call' = [call EXCEPT ![t] = Idle]
      /\ UNCHANGED <<init_counter, logger, main_thread_id, stage, id, guards, calls, baton,
                     invoker, m_native>>
  BY DEF LogUnlock, registryVars, heapVars, Return
<1>2. TypeOK'
  <2>1. call' \in [Threads -> Calls]
    BY <1>1 DEF TypeOK, Calls, Idle
  <2> QED
    BY <1>1, <2>1 DEF TypeOK, Calls
<1>3. CallInv'
  <2>1. ASSUME NEW u \in Threads \ {t} PROVE CallInvAt(u)'
    BY <1>1, CallFrame DEF TypeOK
  <2>2. CallInvAt(t)'
    BY <1>1 DEF CallInv, CallInvAt, Made, TypeOK, Idle
  <2> QED
    BY <2>1, <2>2 DEF CallInv
<1>4. IdInv' /\ GuardInv' /\ NativeInv' /\ HeapInv' /\ MainInv' /\ RegistryMatches'
  BY <1>1 DEF IdInv, GuardInv, NativeInv, HeapInv, MainInv, RegistryMatches, FreeIds
<1> QED
  BY <1>2, <1>3, <1>4
\* A worker that goes on in its entry, or leaves its callable, changes
\* nothing that calls and ThreadT variables depend on.
LEMMA LifeStep ==
    ASSUME IInv, NEW t \in Threads, NEW s \in Native,
           stage[t] \in Native, t # Root, call[t].pc = "idle",
           stage' = [stage EXCEPT ![t] = s],
           UNCHANGED <<id, call, m_native>>,
           \A u \in Threads \ {t} : baton'[u] = baton[u] /\ invoker'[u] = invoker[u]
    PROVE  IdInv' /\ CallInv' /\ NativeInv'
<1> USE HandleFacts DEF IInv
<1>1. stage'[t] = s /\ \A u \in Threads \ {t} : stage'[u] = stage[u]
  BY DEF TypeOK
<1>2. IdInv'
  BY <1>1 DEF IdInv
<1>3. CallInv'
  <2>1. ASSUME NEW u \in Threads \ {t} PROVE CallInvAt(u)'
    <3>1. call[u].pc \in {"spawn", "undo"} => Made(u) \in Threads \ {t}
      BY DEF CallInv, CallInvAt, Native
    <3> QED
      BY <1>1, <3>1, CallFrame
  <2>2. CallInvAt(t)'
    BY DEF CallInv, CallInvAt, Made
  <2> QED
    BY <2>1, <2>2 DEF CallInv
<1>4. NativeInv'
  <2>1. \A h \in Handles : m_native[h] # None => m_native[h] \in Threads
    BY DEF TypeOK
  <2> QED
    BY <1>1, <2>1 DEF NativeInv, Native
<1> QED
  BY <1>2, <1>3, <1>4

LEMMA ConsumePreserves ==
    ASSUME IInv, NEW t \in Threads, Consume(t)
    PROVE  IInv'
<1> USE HandleFacts DEF IInv
<1>1. /\ stage[t] = "started" /\ stage' = [stage EXCEPT ![t] = "entered"]
      /\ baton' = [baton EXCEPT ![t] = @ - 1]
      /\ UNCHANGED <<init_counter, logger, main_thread_id, id, guards, calls, call, invoker,
                     m_native, logging>>
  BY DEF Consume, registryVars
<1>2. t \in Workers /\ t # Root /\ call[t].pc = "idle" /\ baton[t] = 1
  BY <1>1 DEF IdInv, CallInv, CallInvAt, HeapInv
<1>3. TypeOK'
  BY <1>1, <1>2 DEF TypeOK
<1>4. IdInv' /\ CallInv' /\ NativeInv'
  BY <1>1, <1>2, LifeStep DEF Native, TypeOK
<1>5. GuardInv'
  BY <1>1 DEF GuardInv, TypeOK
<1>6. HeapInv'
  BY <1>1, <1>2 DEF HeapInv, TypeOK
<1>7. MainInv' /\ RegistryMatches'
  BY <1>1 DEF MainInv, RegistryMatches, FreeIds
<1> QED
  BY <1>3, <1>4, <1>5, <1>6, <1>7

LEMMA EnterPreserves ==
    ASSUME IInv, NEW t \in Threads, Enter(t)
    PROVE  IInv'
<1> USE HandleFacts DEF IInv
<1>1. /\ stage[t] = "entered" /\ stage' = [stage EXCEPT ![t] = "running"]
      /\ InitializeWorker(id[t]) /\ guards' = [guards EXCEPT ![t] = Append(@, "worker")]
      /\ UNCHANGED <<main_thread_id, id, calls, call, baton, invoker, m_native, logging>>
  BY DEF Enter, heapVars, InitializeWorker
<1>2. t \in Workers /\ t # Root /\ call[t].pc = "idle" /\ id[t] # None
  BY <1>1 DEF IdInv, CallInv, CallInvAt, Native
<1>3. /\ init_counter' \in [Ids -> Nat] /\ logger' \in [Ids -> BOOLEAN]
      /\ guards' \in [Threads -> Seq({"main", "worker"})]
      /\ guards'[t] # <<>> /\ \A u \in Threads \ {t} : guards'[u] = guards[u]
      /\ RegistryMatches'
  BY <1>1, <1>2, InitializeFollows
<1>4. TypeOK'
  BY <1>1, <1>3 DEF TypeOK
<1>5. IdInv' /\ CallInv' /\ NativeInv'
  BY <1>1, <1>2, LifeStep DEF Native
<1>6. stage'[t] = "running" /\ \A u \in Threads \ {t} : stage'[u] = stage[u]
  BY <1>1 DEF TypeOK
<1>7. GuardInv'
  BY <1>3, <1>6 DEF GuardInv
<1>8. HeapInv'
  BY <1>1, <1>6 DEF HeapInv
<1>9. MainInv'
  BY <1>1, <1>2, <1>3 DEF MainInv
<1> QED
  BY <1>3, <1>4, <1>5, <1>7, <1>8, <1>9

LEMMA ReturnsPreserves ==
    ASSUME IInv, NEW t \in Threads, Returns(t)
    PROVE  IInv'
<1> USE HandleFacts DEF IInv
<1>1. /\ t # Root /\ stage[t] = "running" /\ call[t].pc = "idle" /\ Len(guards[t]) = 1
      /\ stage' = [stage EXCEPT ![t] = "returned"]
      /\ UNCHANGED <<init_counter, logger, main_thread_id, id, guards, calls, call, baton,
                     invoker, m_native, logging>>
  BY DEF Returns, Free, registryVars, heapVars
<1>2. TypeOK'
  BY <1>1 DEF TypeOK
<1>3. IdInv' /\ CallInv' /\ NativeInv'
  BY <1>1, LifeStep DEF Native
<1>4. GuardInv'
  BY <1>1 DEF GuardInv, TypeOK
<1>5. HeapInv'
  BY <1>1 DEF HeapInv, TypeOK
<1>6. MainInv' /\ RegistryMatches'
  BY <1>1 DEF MainInv, RegistryMatches, FreeIds
<1> QED
  BY <1>2, <1>3, <1>4, <1>5, <1>6

LEMMA FreeInvokerPreserves ==
    ASSUME IInv, NEW t \in Threads, FreeInvoker(t)
    PROVE  IInv'
<1> USE HandleFacts DEF IInv
<1>1. /\ stage[t] = "returned" /\ stage' = [stage EXCEPT ![t] = "freed"]
      /\ invoker' = [invoker EXCEPT ![t] = @ - 1]
      /\ UNCHANGED <<init_counter, logger, main_thread_id, id, guards, calls, call, baton,
                     m_native, logging>>
  BY DEF FreeInvoker, registryVars
<1>2. t \in Workers /\ t # Root /\ call[t].pc = "idle" /\ invoker[t] = 1
  BY <1>1 DEF IdInv, CallInv, CallInvAt, HeapInv
<1>3. TypeOK'
  BY <1>1, <1>2 DEF TypeOK
<1>4. IdInv' /\ CallInv' /\ NativeInv'
  BY <1>1, <1>2, LifeStep DEF Native, TypeOK
<1>5. GuardInv'
  BY <1>1 DEF GuardInv, TypeOK
<1>6. HeapInv'
  BY <1>1, <1>2 DEF HeapInv, TypeOK
<1>7. MainInv' /\ RegistryMatches'
  BY <1>1 DEF MainInv, RegistryMatches, FreeIds
<1> QED
  BY <1>3, <1>4, <1>5, <1>6, <1>7

LEMMA ExitPreserves ==
    ASSUME IInv, NEW t \in Threads, Exit(t)
    PROVE  IInv'
<1> USE HandleFacts DEF IInv
<1>1. /\ stage[t] = "freed" /\ stage' = [stage EXCEPT ![t] = "ended"]
      /\ Terminate(id[t]) /\ guards' = [guards EXCEPT ![t] = Front(@)]
      /\ UNCHANGED <<main_thread_id, id, calls, call, baton, invoker, m_native, logging>>
  BY DEF Exit, heapVars, Terminate
<1>2. /\ t \in Workers /\ t # Root /\ call[t].pc = "idle" /\ id[t] # None
      /\ Len(guards[t]) = 1 /\ guards[t] # <<>>
  BY <1>1, EmptySeq DEF IdInv, CallInv, CallInvAt, Native, GuardInv
<1>3. /\ init_counter' \in [Ids -> Nat] /\ logger' \in [Ids -> BOOLEAN]
      /\ guards' \in [Threads -> Seq({"main", "worker"})]
      /\ guards'[t] = <<>> /\ \A u \in Threads \ {t} : guards'[u] = guards[u]
      /\ RegistryMatches'
  BY <1>1, <1>2, TerminateFollows
<1>4. TypeOK'
  BY <1>1, <1>3 DEF TypeOK
<1>5. IdInv' /\ CallInv' /\ NativeInv'
  BY <1>1, <1>2, LifeStep DEF Native
<1>6. stage'[t] = "ended" /\ \A u \in Threads \ {t} : stage'[u] = stage[u]
  BY <1>1 DEF TypeOK
<1>7. GuardInv'
  BY <1>3, <1>6 DEF GuardInv
<1>8. HeapInv'
  BY <1>1, <1>6 DEF HeapInv
<1>9. MainInv'
  BY <1>1, <1>2, <1>3 DEF MainInv
<1> QED
  BY <1>3, <1>4, <1>5, <1>7, <1>8, <1>9

----------------------------------------------------------------------------
(* The invariant *)

LEMMA InitIInv == Init => IInv
<1> SUFFICES ASSUME Init PROVE IInv
  OBVIOUS
<1> USE HandleFacts, ThreadsAssumption, NoneAssumption DEF Init, RegistryInit, Idle
<1>1. <<>> \in Seq({"main", "worker"}) /\ Len(<<>>) = 0
  OBVIOUS
<1>2. TypeOK
  BY <1>1 DEF TypeOK, Calls
<1>3. IdInv
  BY DEF IdInv, Native
<1>4. GuardInv /\ HeapInv /\ MainInv
  BY DEF GuardInv, HeapInv, MainInv
<1>5. CallInv /\ NativeInv
  BY DEF CallInv, CallInvAt, Made, NativeInv
<1>6. RegistryMatches
  BY <1>1 DEF RegistryMatches, FreeIds
<1> QED
  BY <1>2, <1>3, <1>4, <1>5, <1>6 DEF IInv

LEMMA NextIInv == IInv /\ [Next]_vars => IInv'
<1> SUFFICES ASSUME IInv, [Next]_vars PROVE IInv'
  OBVIOUS
<1>1. CASE UNCHANGED vars
  BY <1>1 DEF vars, registryVars, heapVars, IInv, TypeOK, IdInv, GuardInv, CallInv, CallInvAt,
     Made, NativeInv, HeapInv, MainInv, RegistryMatches, FreeIds
<1>2. ASSUME NEW t \in Threads, Program(t) PROVE IInv'
  <2>1. CASE \E dst \in Own(t) : \E w \in Workers : Create(t, dst, w)
    BY <2>1, CreatePreserves
  <2>2. CASE \E dst \in Own(t) : \E src \in Own(t) : MoveAssign(t, dst, src)
    BY <2>2, MoveAssignPreserves
  <2>3. CASE \E dst \in Own(t) : Join(t, dst)
    BY <2>3, JoinPreserves
  <2>4. CASE GuardMain(t) \/ GuardWorker(t) \/ Unguard(t)
    BY <2>4, GuardMainPreserves, GuardWorkerPreserves, UnguardPreserves
  <2>5. CASE Log(t) \/ Returns(t)
    BY <2>5, LogPreserves, ReturnsPreserves
  <2> QED
    BY <1>2, <2>1, <2>2, <2>3, <2>4, <2>5 DEF Program
<1>3. ASSUME NEW t \in Threads, Step(t) PROVE IInv'
  <2>1. CASE Spawn(t) \/ SpawnFails(t) \/ Undo(t)
    BY <2>1, SpawnPreserves, SpawnFailsPreserves, UndoPreserves
  <2>2. CASE Joined(t) \/ Take(t)
    BY <2>2, JoinedPreserves, TakePreserves
  <2>3. CASE LogLock(t) \/ LogUnlock(t)
    BY <2>3, LogLockPreserves, LogUnlockPreserves
  <2>4. CASE Consume(t) \/ Enter(t)
    BY <2>4, ConsumePreserves, EnterPreserves
  <2>5. CASE FreeInvoker(t) \/ Exit(t)
    BY <2>5, FreeInvokerPreserves, ExitPreserves
  <2> QED
    BY <1>3, <2>1, <2>2, <2>3, <2>4, <2>5 DEF Step
<1> QED
  BY <1>1, <1>2, <1>3 DEF Next

LEMMA Inductive == Spec => []IInv
<1> QED
  BY InitIInv, NextIInv, PTL DEF Spec

----------------------------------------------------------------------------
(* Theorems *)

\* Types; no invoker and no baton is freed twice.
THEOREM TypeCorrect == Spec => []TypeOK
<1>1. IInv => TypeOK
  BY DEF IInv
<1> QED
  BY <1>1, Inductive, PTL

\* The registry by native id says of each thread what its own guards make it,
\* however ids are reused (the guards' constructors and destructors).
THEOREM RegistryMatchesHolds == Spec => []RegistryMatches
<1>1. IInv => RegistryMatches
  BY DEF IInv
<1> QED
  BY <1>1, Inductive, PTL

\* is_main_thread tells Root inside its guards from every worker.
THEOREM MainIsRootHolds == Spec => []MainIsRoot
<1>1. IInv => MainIsRoot
  BY HandleFacts DEF IInv, TypeOK, IdInv, Native, MainInv, MainIsRoot, IsMainThread
<1> QED
  BY <1>1, Inductive, PTL

\* A thread that is started and not joined is named by exactly one ThreadT.
THEOREM HeldOnceHolds == Spec => []HeldOnce
<1>1. IInv => HeldOnce
  <2> SUFFICES ASSUME IInv, NEW w \in Workers
               PROVE  Cardinality({h \in Handles : m_native[h] = w})
                        = IF stage[w] = "none" THEN 0 ELSE 1
    BY DEF HeldOnce
  <2> DEFINE H == {h \in Handles : m_native[h] = w}
  <2>1. w # None
    BY HandleFacts
  <2>2. CASE stage[w] = "none"
    <3>1. H = {}
      BY <2>1, <2>2 DEF IInv, NativeInv
    <3> QED
      BY <2>2, <3>1, FS_EmptySet
  <2>3. CASE stage[w] # "none"
    <3>1. PICK h \in Handles : m_native[h] = w
      BY <2>3 DEF IInv, NativeInv
    <3>2. H = {h}
      BY <2>1, <3>1 DEF IInv, NativeInv
    <3>3. Cardinality(H) = 1
      BY <3>2, FS_Singleton
    <3> QED
      BY <2>3, <3>3
  <2> QED
    BY <2>2, <2>3
<1> QED
  BY <1>1, Inductive, PTL

\* The new thread finds its baton and its invoker, and both are freed.
THEOREM ClosureLifetimeHolds == Spec => []ClosureLifetime
<1>1. IInv => ClosureLifetime
  BY DEF IInv, HeapInv, ClosureLifetime
<1> QED
  BY <1>1, Inductive, PTL

----------------------------------------------------------------------------
(* The registry implements the context. *)

Depth == [t \in Threads |-> IF id[t] = None THEN 0 ELSE init_counter[id[t]]]
Logged == [t \in Threads |-> id[t] # None /\ logger[id[t]]]
Main == IF \E t \in Threads : id[t] # None /\ IsMainThread(id[t])
        THEN CHOOSE t \in Threads : id[t] # None /\ IsMainThread(id[t])
        ELSE None

\* In the terms of the threads: the guards of each, and Root or nobody.
GuardsTell ==
    /\ Depth = [t \in Threads |-> Len(guards[t])]
    /\ Logged = [t \in Threads |-> guards[t] # <<>>]
    /\ Main = IF main_thread_id = id[Root] THEN Root ELSE None

LEMMA Mapped == IInv => GuardsTell
<1> SUFFICES ASSUME IInv PROVE GuardsTell
  OBVIOUS
<1> USE HandleFacts
<1>1. ASSUME NEW t \in Threads, id[t] = None
      PROVE  guards[t] = <<>> /\ Len(guards[t]) = 0
  <2>1. t \in Workers /\ stage[t] \in {"none", "made"}
    BY <1>1 DEF IInv, IdInv, Native, TypeOK
  <2>2. guards[t] = <<>>
    BY <2>1 DEF IInv, GuardInv
  <2> QED  BY <2>2
<1>2. ASSUME NEW t \in Threads, id[t] # None
      PROVE  /\ init_counter[id[t]] = Len(guards[t])
             /\ logger[id[t]] = (guards[t] # <<>>)
  BY <1>2 DEF IInv, RegistryMatches
<1>3. Depth = [t \in Threads |-> Len(guards[t])]
  BY <1>1, <1>2 DEF Depth
<1>4. Logged = [t \in Threads |-> guards[t] # <<>>]
  <2>1. \A t \in Threads : (id[t] # None /\ logger[id[t]]) = (guards[t] # <<>>)
    BY <1>1, <1>2
  <2> QED  BY <2>1, Zenon DEF Logged
<1>5. Main = IF main_thread_id = id[Root] THEN Root ELSE None
  <2>1. id[Root] # None /\ main_thread_id \in {None, id[Root]}
    BY DEF IInv, IdInv, MainInv, Native
  <2>2. \A t \in Threads : id[t] # None /\ IsMainThread(id[t])
                             <=> main_thread_id = id[Root] /\ t = Root
    BY <2>1 DEF IInv, IdInv, IsMainThread
  <2>3. CASE main_thread_id = id[Root]
    <3>1. (CHOOSE t \in Threads : id[t] # None /\ IsMainThread(id[t])) = Root
      BY <2>2, <2>3
    <3> QED  BY <2>2, <2>3, <3>1 DEF Main
  <2>4. CASE main_thread_id # id[Root]
    BY <2>2, <2>4 DEF Main
  <2> QED  BY <2>3, <2>4
<1> QED  BY <1>3, <1>4, <1>5 DEF GuardsTell

LEMMA MappedNext == IInv' => GuardsTell'
  BY Mapped, PTL

\* A step that touches no guard and not the main id shows nothing.
LEMMA QuietStep ==
    ASSUME IInv, IInv', guards' = guards, main_thread_id' = main_thread_id,
           id'[Root] = id[Root]
    PROVE  UNCHANGED <<Depth, Logged, Main>>
<1>1. GuardsTell /\ GuardsTell'
  BY Mapped, MappedNext
<1> QED  BY <1>1 DEF GuardsTell

\* A guard of t, which makes t the main thread only if t is Root and outside
\* all others.
LEMMA EnterContext ==
    ASSUME IInv, IInv', NEW t \in Threads, NEW g \in {"main", "worker"},
           guards' = [guards EXCEPT ![t] = Append(@, g)], id' = id,
           \/ main_thread_id' = main_thread_id
           \/ t = Root /\ guards[t] = <<>> /\ main_thread_id' = id[Root]
    PROVE  Context!Enter(t)
<1>1. GuardsTell /\ GuardsTell'
  BY Mapped, MappedNext
<1>2. guards[t] \in Seq({"main", "worker"})
  BY DEF IInv, TypeOK
<1>3. Len(Append(guards[t], g)) = Len(guards[t]) + 1 /\ Append(guards[t], g) # <<>>
  BY <1>2, SeqFacts
<1>4. \A u \in Threads : guards'[u] = IF u = t THEN Append(guards[t], g) ELSE guards[u]
  BY DEF IInv, TypeOK
<1>5. Depth' = [Depth EXCEPT ![t] = @ + 1]
  <2>1. Depth' = [u \in Threads |-> Len(guards'[u])] /\ Depth = [u \in Threads |-> Len(guards[u])]
    BY <1>1 DEF GuardsTell
  <2>2. \A u \in Threads : Len(guards'[u]) = IF u = t THEN Len(guards[t]) + 1 ELSE Len(guards[u])
    <3> TAKE u \in Threads
    <3>1. CASE u = t
      <4>1. guards'[u] = Append(guards[t], g)
        BY <1>4, <3>1
      <4> QED  BY <1>3, <3>1, <4>1
    <3>2. CASE u # t
      BY <1>4, <3>2
    <3> QED  BY <3>1, <3>2
  <2> QED  BY <2>1, <2>2
<1>6. Logged' = [Logged EXCEPT ![t] = TRUE]
  <2>1. /\ Logged' = [u \in Threads |-> guards'[u] # <<>>]
        /\ Logged = [u \in Threads |-> guards[u] # <<>>]
    BY <1>1 DEF GuardsTell
  <2>2. \A u \in Threads : (guards'[u] # <<>>) = IF u = t THEN TRUE ELSE guards[u] # <<>>
    BY <1>3, <1>4
  <2> QED  BY <2>1, <2>2
<1>7. Main' \in IF Depth[t] = 0 THEN {Main, t} ELSE {Main}
  <2>1. /\ Main = IF main_thread_id = id[Root] THEN Root ELSE None
        /\ Main' = IF main_thread_id' = id[Root] THEN Root ELSE None
        /\ Depth[t] = Len(guards[t])
    BY <1>1 DEF GuardsTell
  <2>2. CASE main_thread_id' = main_thread_id
    BY <2>1, <2>2
  <2>3. CASE t = Root /\ guards[t] = <<>> /\ main_thread_id' = id[Root]
    BY <1>2, <2>1, <2>3, SeqFacts
  <2> QED  BY <2>2, <2>3
<1> QED  BY <1>5, <1>6, <1>7 DEF Context!Enter, Depth, Logged, Main

LEMMA LeaveContext ==
    ASSUME IInv, IInv', NEW t \in Threads, guards[t] # <<>>,
           guards' = [guards EXCEPT ![t] = Front(@)], id' = id,
           main_thread_id' = main_thread_id
    PROVE  Context!Leave(t)
<1>1. GuardsTell /\ GuardsTell'
  BY Mapped, MappedNext
<1>2. guards[t] \in Seq({"main", "worker"})
  BY DEF IInv, TypeOK
<1>3. /\ Len(guards[t]) \in Nat /\ Len(guards[t]) > 0
      /\ Len(Front(guards[t])) = Len(guards[t]) - 1
      /\ Front(guards[t]) = <<>> <=> Len(guards[t]) = 1
  <2> DEFINE n == Len(guards[t])
             S == {"main", "worker"}
  <2>1. guards[t] \in Seq(S)
    BY <1>2
  <2> HIDE DEF S
  <2>2. n \in Nat /\ n # 0
    BY <2>1, SeqFactsOf
  <2>3. n > 0
    BY <2>2
  <2>4. Len(Front(guards[t])) = n - 1 /\ (Front(guards[t]) = <<>> <=> n = 1)
    BY <2>1, SeqFactsOf
  <2> QED  BY <2>2, <2>3, <2>4
<1>4. \A u \in Threads : guards'[u] = IF u = t THEN Front(guards[t]) ELSE guards[u]
  BY DEF IInv, TypeOK
<1>5. Depth' = [Depth EXCEPT ![t] = @ - 1]
  <2>1. Depth' = [u \in Threads |-> Len(guards'[u])] /\ Depth = [u \in Threads |-> Len(guards[u])]
    BY <1>1 DEF GuardsTell
  <2> QED  BY <1>3, <1>4, <2>1
<1>6. Logged' = [Logged EXCEPT ![t] = Depth[t] > 1]
  <2>1. /\ Logged' = [u \in Threads |-> guards'[u] # <<>>]
        /\ Logged = [u \in Threads |-> guards[u] # <<>>]
        /\ Depth[t] = Len(guards[t])
    BY <1>1 DEF GuardsTell
  <2>2. (Front(guards[t]) # <<>>) = (Len(guards[t]) > 1)
    <3> DEFINE n == Len(guards[t])
               e == Front(guards[t]) = <<>>
    <3>1. n \in Nat /\ n > 0 /\ (e <=> n = 1)
      BY <1>3
    <3> HIDE DEF n, e
    <3>2. ~e <=> n > 1
      BY <3>1
    <3>3. (~e) = (n > 1)
      BY <3>2
    <3> QED  BY <3>3 DEF n, e
  <2>3. \A u \in Threads : (guards'[u] # <<>>) =
                              IF u = t THEN Len(guards[t]) > 1 ELSE guards[u] # <<>>
    BY <1>4, <2>2
  <2> QED  BY <2>1, <2>3
<1>7. Main' = Main /\ Depth[t] > 0
  BY <1>1, <1>3 DEF GuardsTell
<1> QED  BY <1>5, <1>6, <1>7 DEF Context!Leave, Depth, Logged, Main

\* Only guards show: every other step of a thread leaves the context alone.
LEMMA OtherSteps ==
    ASSUME IInv, NEW t \in Threads,
           \/ Spawn(t) \/ SpawnFails(t) \/ Undo(t) \/ Joined(t) \/ Take(t)
           \/ LogLock(t) \/ LogUnlock(t) \/ Consume(t) \/ FreeInvoker(t)
           \/ Log(t) \/ Returns(t)
           \/ \E dst \in Own(t) : \/ \E w \in Workers : Create(t, dst, w)
                                  \/ \E src \in Own(t) : MoveAssign(t, dst, src)
                                  \/ Join(t, dst)
    PROVE  guards' = guards /\ main_thread_id' = main_thread_id /\ id'[Root] = id[Root]
<1> USE HandleFacts DEF registryVars
<1>1. CASE Spawn(t)
  <2>1. Made(t) \in Workers
    BY <1>1 DEF IInv, CallInv, CallInvAt, Spawn
  <2> QED  BY <1>1, <2>1 DEF Spawn
<1>2. CASE Joined(t)
  <2>1. m_native[call[t].dst] \in Workers
    <3>1. call[t].dst \in Own(t) /\ Own(t) \subseteq Handles
      BY <1>2 DEF IInv, CallInv, CallInvAt, Joined
    <3>2. m_native[call[t].dst] # None
      BY <1>2 DEF Joined
    <3> QED  BY <3>1, <3>2 DEF IInv, TypeOK
  <2> QED  BY <1>2, <2>1 DEF Joined
<1>3. CASE SpawnFails(t) \/ Undo(t) \/ Take(t)
  BY <1>3 DEF SpawnFails, Undo, Take
<1>4. CASE LogLock(t) \/ LogUnlock(t) \/ Log(t)
  BY <1>4 DEF LogLock, LogUnlock, Log
<1>5. CASE Consume(t) \/ FreeInvoker(t) \/ Returns(t)
  BY <1>5 DEF Consume, FreeInvoker, Returns
<1>6. CASE \E dst \in Own(t) : \/ \E w \in Workers : Create(t, dst, w)
                               \/ \E src \in Own(t) : MoveAssign(t, dst, src)
                               \/ Join(t, dst)
  BY <1>6 DEF Create, MoveAssign, Join
<1> QED  BY <1>1, <1>2, <1>3, <1>4, <1>5, <1>6

\* The counter is zero exactly when its thread is outside all guards.
LEMMA OutermostGuard ==
    ASSUME IInv, NEW t \in Threads, id[t] # None
    PROVE  init_counter[id[t]] + 1 > 1 <=> guards[t] # <<>>
<1>1. guards[t] \in Seq({"main", "worker"}) /\ init_counter[id[t]] = Len(guards[t])
  BY DEF IInv, TypeOK, RegistryMatches
<1> DEFINE n == Len(guards[t])
<1>2. n \in Nat /\ (guards[t] = <<>> <=> n = 0)
  BY <1>1, SeqFactsOf
<1> HIDE DEF n
<1>3. n + 1 > 1 <=> n # 0
  BY <1>2
<1> QED  BY <1>1, <1>2, <1>3 DEF n

LEMMA StepImplements == IInv /\ IInv' /\ [Next]_vars => [Context!Next]_<<Depth, Logged, Main>>
<1> SUFFICES ASSUME IInv, IInv', [Next]_vars PROVE [Context!Next]_<<Depth, Logged, Main>>
  OBVIOUS
<1> USE HandleFacts
<1>1. CASE UNCHANGED vars
  BY <1>1, QuietStep DEF vars, registryVars
<1>2. ASSUME NEW t \in Threads, Program(t) \/ Step(t)
      PROVE  [Context!Next]_<<Depth, Logged, Main>>
  <2>1. CASE GuardMain(t)
    <3>1. t = Root /\ id[t] # None /\ id' = id
      BY <2>1 DEF GuardMain, IInv, IdInv, Native
    <3>2. \/ main_thread_id' = main_thread_id
          \/ guards[t] = <<>> /\ main_thread_id' = id[Root]
      BY <2>1, <3>1, OutermostGuard DEF GuardMain, InitializeMain
    <3>3. guards' = [guards EXCEPT ![t] = Append(@, "main")]
      BY <2>1 DEF GuardMain
    <3>4. Context!Enter(t)
      BY <3>1, <3>2, <3>3, EnterContext
    <3> QED  BY <3>4 DEF Context!Next
  <2>2. CASE GuardWorker(t) \/ Enter(t)
    <3>1. Context!Enter(t)
      BY <2>2, EnterContext DEF GuardWorker, Enter, InitializeWorker
    <3> QED  BY <3>1 DEF Context!Next
  <2>3. CASE Unguard(t) \/ Exit(t)
    <3>1. guards[t] # <<>>
      <4>1. CASE Unguard(t)
        BY <4>1 DEF Unguard
      <4>2. CASE Exit(t)
        <5>1. t \in Workers /\ stage[t] = "freed"
          BY <4>2 DEF Exit, IInv, IdInv
        <5>2. Len(guards[t]) = 1
          BY <5>1 DEF IInv, GuardInv
        <5>3. Len(<<>>) = 0
          OBVIOUS
        <5> QED  BY <5>2, <5>3
      <4> QED  BY <2>3, <4>1, <4>2
    <3>2. Context!Leave(t)
      BY <2>3, <3>1, LeaveContext DEF Unguard, Exit, Terminate
    <3> QED  BY <3>2 DEF Context!Next
  <2>4. CASE ~(GuardMain(t) \/ GuardWorker(t) \/ Enter(t) \/ Unguard(t) \/ Exit(t))
    <3>1. guards' = guards /\ main_thread_id' = main_thread_id /\ id'[Root] = id[Root]
      BY <1>2, <2>4, OtherSteps DEF Program, Step
    <3> QED  BY <3>1, QuietStep
  <2> QED  BY <2>1, <2>2, <2>3, <2>4
<1> QED  BY <1>1, <1>2 DEF Next

LEMMA InitImplements == Init => Context!Init
<1> SUFFICES ASSUME Init PROVE Context!Init
  OBVIOUS
<1>1. GuardsTell
  BY InitIInv, Mapped
<1>2. main_thread_id = None /\ id[Root] # None
  BY HandleFacts, InitIInv DEF Init, RegistryInit, IInv, IdInv, Native
<1>3. \A t \in Threads : guards[t] = <<>> /\ Len(guards[t]) = 0
  BY DEF Init
<1>4. Depth = [t \in Threads |-> 0] /\ Logged = [t \in Threads |-> FALSE] /\ Main = None
  BY <1>1, <1>2, <1>3 DEF GuardsTell
<1> QED  BY <1>4 DEF Context!Init, Depth, Logged, Main

\* The registry, which knows only native ids, gives every thread the context its
\* own guards make, although ids come back after a join.
THEOREM ContextImplemented == Spec => ImplementsContext
<1>1. IInv /\ IInv' /\ [Next]_vars => [Context!Next]_<<Depth, Logged, Main>>
  BY StepImplements
<1>2. Init => Context!Init
  BY InitImplements
<1> QED  BY <1>1, <1>2, Inductive, PTL
     DEF Spec, ImplementsContext, Context!Spec, Depth, Logged, Main

-----------------------------------------------------------------------------
(* Waiting *)

\* A ThreadT of t names w.
Holds(t, w) == \E n \in Names \cup {Temp} : m_native[<<t, n>>] = w

\* A thread that has not begun to run, or is done, has no ThreadT to join, and
\* among any threads is one that has none of them to join: a new thread has
\* nobody, and a ThreadT moves between variables of one thread only.
HoldInv ==
    /\ \A t, w \in Threads : Holds(t, w) => stage[t] = "running"
    /\ \A S \in (SUBSET Threads) \ {{}} : \E t \in S : \A w \in S : ~Holds(t, w)

LogInv == logging # None => call[logging].pc = "log"

LEMMA HoldsLess ==
    ASSUME HoldInv,
           \A t, w \in Threads : Holds(t, w)' => Holds(t, w) /\ stage'[t] = "running"
    PROVE  HoldInv'
<1>1. ASSUME NEW S \in (SUBSET Threads) \ {{}}
      PROVE  \E t \in S : \A w \in S : ~Holds(t, w)'
  BY DEF HoldInv
<1> QED
  BY <1>1 DEF HoldInv

\* A step that leaves every ThreadT as it is and ends no call or callable.
LEMMA HoldsSame ==
    ASSUME HoldInv, UNCHANGED m_native,
           \A t \in Threads : stage[t] = "running" => stage'[t] = "running"
    PROVE  HoldInv'
<1>1. \A t, w \in Threads : Holds(t, w)' => Holds(t, w)
  BY DEF Holds
<1> QED
  BY <1>1, HoldsLess DEF HoldInv

LEMMA CreateHolds ==
    ASSUME IInv, HoldInv, NEW t \in Threads, NEW dst \in Own(t), NEW w \in Workers,
           Create(t, dst, w)
    PROVE  HoldInv'
<1> USE HandleFacts DEF Create, Begin, Free
<1>1. /\ stage[t] = "running" /\ stage[w] = "none" /\ w # t /\ w \in Threads
      /\ m_native' = [m_native EXCEPT ![<<t, Temp>>] = w]
      /\ stage' = [stage EXCEPT ![w] = "made"]
      /\ m_native \in [Handles -> Workers \cup {None}] /\ DOMAIN stage = Threads
  BY DEF IInv, TypeOK
<1>2. \A u, v \in Threads : Holds(u, v)' => Holds(u, v) \/ (u = t /\ v = w)
  BY <1>1 DEF Holds, Handles
<1>3. \A v \in Threads : ~Holds(w, v)
  BY <1>1 DEF HoldInv
<1>4. \A u, v \in Threads : Holds(u, v)' => stage'[u] = "running"
  BY <1>1, <1>2, <1>3 DEF HoldInv
<1>5. ASSUME NEW S \in (SUBSET Threads) \ {{}}
      PROVE  \E u \in S : \A v \in S : ~Holds(u, v)'
  <2>1. CASE w \in S
    BY <1>1, <1>2, <1>3, <2>1
  <2>2. CASE w \notin S
    BY <1>2, <2>2 DEF HoldInv
  <2> QED
    BY <2>1, <2>2
<1> QED
  BY <1>4, <1>5 DEF HoldInv

LEMMA DropHolds ==
    ASSUME IInv, HoldInv, NEW h \in Handles, m_native' = [m_native EXCEPT ![h] = None],
           \A t \in Threads : stage[t] = "running" => stage'[t] = "running"
    PROVE  HoldInv'
<1>1. \A u, v \in Threads : Holds(u, v)' => Holds(u, v)
  BY HandleFacts DEF IInv, TypeOK, Holds, Handles
<1> QED
  BY <1>1, HoldsLess DEF HoldInv

LEMMA TakeHolds ==
    ASSUME IInv, HoldInv, NEW t \in Threads, Take(t)
    PROVE  HoldInv'
<1> USE HandleFacts DEF Take
<1> DEFINE dst == call[t].dst
           src == call[t].src
<1>1. /\ dst \in Own(t) /\ src \in Own(t) \cup {<<t, Temp>>} /\ src # dst
      /\ m_native' = [m_native EXCEPT ![dst] = m_native[src], ![src] = None]
      /\ m_native \in [Handles -> Workers \cup {None}] /\ UNCHANGED stage
  BY DEF IInv, TypeOK, CallInv, CallInvAt
<1>2. PICK d \in Names, s \in Names \cup {Temp} : dst = <<t, d>> /\ src = <<t, s>>
  BY <1>1 DEF Own
<1>3. ASSUME NEW u \in Threads, NEW n \in Names \cup {Temp}
      PROVE  m_native'[<<u, n>>] \in {m_native[<<u, n>>], None} \/ (u = t /\ m_native'[<<u, n>>] = m_native[<<t, s>>])
  <2>1. <<u, n>> \in Handles
    BY DEF Handles
  <2> HIDE DEF dst, src
  <2> QED
    BY <1>1, <1>2, <2>1
<1>4. \A u, v \in Threads : Holds(u, v)' => Holds(u, v)
  BY <1>3 DEF Holds
<1> QED
  BY <1>1, <1>4, HoldsLess DEF HoldInv

\* The callable of a worker returns with nothing left to join.
LEMMA ReturnsHolds ==
    ASSUME IInv, HoldInv, NEW t \in Threads, Returns(t)
    PROVE  HoldInv'
<1> USE HandleFacts DEF Returns, Free
<1>1. m_native[<<t, Temp>>] = None
  BY DEF IInv, CallInv, CallInvAt, Made
<1>2. \A n \in Names : m_native[<<t, n>>] = None
  BY DEF Own
<1>3. \A w \in Threads : ~Holds(t, w)
  BY <1>1, <1>2 DEF Holds
<1>4. \A u, w \in Threads : Holds(u, w)' => Holds(u, w)
  BY DEF Holds
<1>5. \A u \in Threads \ {t} : stage'[u] = stage[u]
  BY DEF IInv, TypeOK
<1> QED
  BY <1>3, <1>4, <1>5, HoldsLess DEF HoldInv

LEMMA StepHolds ==
    ASSUME IInv, HoldInv, [Next]_vars
    PROVE  HoldInv'
<1> USE HandleFacts
<1>0. DOMAIN stage = Threads
  BY DEF IInv, TypeOK
<1>1. CASE UNCHANGED vars
  BY <1>1, HoldsSame DEF vars
<1>2. ASSUME NEW t \in Threads,
             \/ \E dst \in Own(t) : (\E src \in Own(t) : MoveAssign(t, dst, src)) \/ Join(t, dst)
             \/ GuardMain(t) \/ GuardWorker(t) \/ Unguard(t) \/ Log(t)
             \/ SpawnFails(t) \/ LogLock(t) \/ LogUnlock(t)
      PROVE  HoldInv'
  <2>1. UNCHANGED <<m_native, stage>>
    BY <1>2 DEF MoveAssign, Join, GuardMain, GuardWorker, Unguard, Log, SpawnFails, LogLock, LogUnlock
  <2> QED
    BY <2>1, HoldsSame
<1>3. ASSUME NEW t \in Threads, Consume(t) \/ Enter(t) \/ FreeInvoker(t) \/ Exit(t)
      PROVE  HoldInv'
  <2>1. /\ UNCHANGED m_native
        /\ stage[t] # "running" /\ \E where : stage' = [stage EXCEPT ![t] = where]
    BY <1>3 DEF Consume, Enter, FreeInvoker, Exit
  <2> QED
    BY <1>0, <2>1, HoldsSame
<1>4. ASSUME NEW t \in Threads, Spawn(t) \/ Undo(t)
      PROVE  HoldInv'
  <2>1. stage[Made(t)] = "made" /\ <<t, Temp>> \in Handles
    BY <1>4 DEF IInv, CallInv, CallInvAt, Spawn, Undo
  <2>2. CASE Spawn(t)
    BY <1>0, <2>1, <2>2, HoldsSame DEF Spawn
  <2>3. CASE Undo(t)
    BY <1>0, <2>1, <2>3, DropHolds DEF Undo
  <2> QED
    BY <1>4, <2>2, <2>3
<1>5. ASSUME NEW t \in Threads, Joined(t)
      PROVE  HoldInv'
  <2>1. call[t].dst \in Handles
    BY <1>5 DEF IInv, CallInv, CallInvAt, Joined
  <2> QED
    BY <1>0, <1>5, <2>1, DropHolds DEF Joined
<1> QED
  BY <1>1, <1>2, <1>3, <1>4, <1>5, CreateHolds, TakeHolds, ReturnsHolds DEF Next, Program, Step

\* The holder of logger_mutex is in log_impl.
LEMMA StepLogs ==
    ASSUME IInv, LogInv, [Next]_vars
    PROVE  LogInv'
<1> USE HandleFacts
<1>0. call \in [Threads -> Calls] /\ logging \in Threads \cup {None}
  BY DEF IInv, TypeOK, Calls
<1>1. CASE UNCHANGED vars
  BY <1>1 DEF vars, LogInv
<1>2. ASSUME NEW t \in Threads, NEW c, call' = [call EXCEPT ![t] = c], call[t].pc # "log",
             UNCHANGED logging
      PROVE  LogInv'
  BY <1>0, <1>2 DEF LogInv
<1>3. ASSUME NEW t \in Threads, Program(t)
      PROVE  LogInv'
  <2>1. CASE UNCHANGED <<call, logging>>
    BY <2>1 DEF LogInv
  <2>2. CASE \E c : call' = [call EXCEPT ![t] = c] /\ call[t].pc # "log" /\ UNCHANGED logging
    BY <1>2, <2>2
  <2> QED
    BY <1>3, <2>1, <2>2 DEF Program, Create, MoveAssign, Join, GuardMain, GuardWorker, Unguard, Log,
                            Returns, Begin, Free
<1>4. ASSUME NEW t \in Threads, Step(t)
      PROVE  LogInv'
  <2>1. CASE UNCHANGED <<call, logging>>
    BY <2>1 DEF LogInv
  <2>2. CASE \E c : call' = [call EXCEPT ![t] = c] /\ call[t].pc # "log" /\ UNCHANGED logging
    BY <1>2, <2>2
  <2>3. CASE LogLock(t)
    BY <1>0, <2>3 DEF LogLock, Goto, LogInv, Calls
  <2>4. CASE LogUnlock(t)
    BY <2>4 DEF LogUnlock, LogInv
  <2>5. CASE Joined(t)
    <3>1. call[t].pc # "log" /\ UNCHANGED logging /\ (Return(t) \/ UNCHANGED call)
      BY <2>5 DEF Joined
    <3> QED
      BY <1>2, <2>1, <3>1 DEF Return
  <2>6. CASE Spawn(t) \/ SpawnFails(t) \/ Undo(t) \/ Take(t)
    BY <1>2, <2>6 DEF Spawn, SpawnFails, Undo, Take, Goto, Return
  <2>7. CASE Consume(t) \/ Enter(t) \/ FreeInvoker(t) \/ Exit(t)
    BY <2>1, <2>7 DEF Consume, Enter, FreeInvoker, Exit
  <2> QED
    BY <1>4, <2>3, <2>4, <2>5, <2>6, <2>7 DEF Step
<1> QED
  BY <1>1, <1>3, <1>4 DEF Next

\* However many threads join, move and log, none of them wait for each other
\* in a ring: neither for ends, nor for the logger, nor for both in turn.
THEOREM NoWaitRingHolds == Spec => []NoWaitRing
<1> USE HandleFacts
<1>1. Init => HoldInv /\ LogInv
  <2> SUFFICES ASSUME Init PROVE HoldInv /\ LogInv
    OBVIOUS
  <2>1. \A t, w \in Threads : ~Holds(t, w)
    BY DEF Init, Holds, Handles
  <2>2. HoldInv
    BY <2>1 DEF HoldInv
  <2> QED
    BY <2>2 DEF Init, LogInv
<1>2. IInv /\ HoldInv /\ LogInv /\ [Next]_vars => HoldInv' /\ LogInv'
  BY StepHolds, StepLogs
<1>3. IInv /\ HoldInv /\ LogInv => NoWaitRing
  <2> SUFFICES ASSUME IInv, HoldInv, LogInv, NEW S \in (SUBSET Threads) \ {{}}
               PROVE  \E t \in S : Awaits(t) \notin S
    BY DEF NoWaitRing
  <2>1. CASE logging \in S
    BY <2>1 DEF LogInv, Awaits
  <2>2. CASE logging \notin S
    <3>1. PICK t \in S : \A w \in S : ~Holds(t, w)
      BY DEF HoldInv
    <3>2. CASE call[t].pc \in {"join", "assign"}
      <4>1. call[t].dst \in Own(t)
        BY <3>2 DEF IInv, CallInv, CallInvAt
      <4>2. Awaits(t) = m_native[call[t].dst]
        BY <3>2 DEF Awaits
      <4> QED
        BY <3>1, <4>1, <4>2 DEF Own, Holds
    <3>3. CASE call[t].pc \notin {"join", "assign"}
      BY <2>2, <3>3 DEF Awaits
    <3> QED
      BY <3>2, <3>3
  <2> QED
    BY <2>1, <2>2
<1> QED
  BY <1>1, <1>2, <1>3, Inductive, PTL DEF Spec
=============================================================================
