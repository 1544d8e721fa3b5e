# Auxid in TLA+

Specifications of the parts of Auxid whose correctness depends on order: on the
interleaving of two threads or several processes, on what the kernel may do
between two system calls, or on a long sequence of legal calls. Source paths
are those of `PROJECT.json`; `containers` stands for
`src/ixx/auxid-containers.ixx`, `memory` for `src/ixx/auxid-memory.ixx`, `ipc` and `proc` for `src/cpp/auxid-ipc.cpp`
and `src/cpp/auxid-proc.cpp`, the contract for `docs/OS-CONTRACT.md`.

## The system

| Part | State it keeps | Operations | What is hard |
|---|---|---|---|
| `SpscQueue` (containers) | write and read position, ring of raw slots | `push` by one thread, `pop` by another, destructor | two threads without a lock; acquire loads that return an older position; positions that wrap; object lifetime in raw storage |
| `SlotMap` (containers) | slot table with generations, dense values, back references, free list | `insert`, `get`, `erase`, `clear` | four structures that must agree after every sequence; keys that outlive their object |
| `HashTable` (containers; under `HashMap`, `HashSet`) | dense entries, control bytes and index slots, full and deleted counts | insertion, `find_or_emplace`, `erase`, `clear`, `reserve`, move | probing must end and find; tombstones; two unbounded loops |
| `ChannelListener`, `Channel` on POSIX (ipc) | descriptor and name; in the kernel: the node, the queue | `bind`, `accept`, `close`, `connect` | every call is several system calls, rivals run in between; crashes leave nodes behind |
| the same on Windows (ipc) | handle of the instance that takes the next client; in the kernel: the instances of the pipe and their bytes | `bind`, `accept`, `close`, `connect`, `read`, `write_all` | an instance takes one client, so the next must exist before the connected one is handed out; anybody may add an instance to a name; clients that leave before they are accepted; short writes |
| `InstanceLock` (ipc) | descriptor or handle; in the kernel: the flock, or the named mutex | `acquire`, `release` | lock held by inherited descriptors; a path that could name two inodes; a refused handle keeps the mutex in being |
| `Process`, `LifetimeGroup` on POSIX (proc) | pid, cached status, pipes; list of enrolled pids | `spawn`, `wait`, `try_status`, `terminate`, detach, group `close` | fork and exec are not atomic; pids are reused; pipe ends are inherited |
| the same on Windows (proc) | process handle, pipes; handle of a job object | `spawn`, `terminate`, detach, group `close` | creation, enrollment and resumption are three calls that may each fail or be the last; every child inherits what other threads have made inheritable |
| Thread registry, guards, `Logger` (`auxid-thread`) | counter and logger per native thread id, main thread id; a native handle per `ThreadT`; two allocations per thread being started | guards, `ThreadT::create`, move, `join`, `is_main_thread`, `Logger::log` | nested guards; native ids that are reused; a closure handed to a thread that may not start; joins and one mutex for all logs |
| `Arc`, `IntrusiveArc` (memory) | a pointer per handle, a count per block | make, copy, move, assign, reset, destroy | counts updated by several threads; assignment that releases before it reads; destructors that release further blocks |
| `Box`, allocators (memory) | owner; arena offset | allocate, destroy | one owner, one thread |
| `CompactVec` (containers) | data, size and capacity of a chosen width | `emplace_back`, `reserve`, `resize`, `clear`, copy, move | growth arithmetic at the top of a narrow index; arguments inside the vector itself |
| `String`, `Option`, `Error`, `Result`, hashes | values | sequential | nothing a unit test does not reach |
| `fs`, `env`, `time`, `dl`, test runner | none, or the runner's list | wrappers of one system call each | what the operating system does |

They interact in few places. `InstanceLock` and `ChannelListener` share no state
but are used together: the lock decides which process may bind the name
(`auxid-ipc.ixx:263`). `proc::spawn` meets both through `fork`, which copies
every descriptor. `LifetimeGroup` is filled by `spawn` and read by its own
`close`; on Windows the kernel does the rest when the job's last handle goes. The thread registry sits on `HashMap`, `HashMap` on `HashTable`.

## Modules

| Module | Models | Correspondence |
|---|---|---|
| `BoundedFifo` | what `SpscQueue` promises | a sequence of at most `Capacity` values: accept, deliver, destroy |
| `SpscQueue` | `SpscQueue` | `push` is load, construct, publish; `pop` is load, move, destroy, publish. A step touches shared memory once. The owner of a position knows it; the other thread loads any value between the last one it saw and the present one (`Visible`) |
| `KeyedStore` | what `SlotMap` promises | a function from live keys to values; a key that is live or retired is not issued again |
| `SlotMap` | `SlotMap` | one action per operation; variables have the names of the members. `live` and `stale` are the keys a client has; `stale` counts the erases of a key's slot since the key was given up. |
| `HashTable` | `HashTable` | one action per operation, including every rehash, tombstone clean-up and relocation it does. A hash is the pair of the group probed first and the fingerprint; a group is its slots, any match in it may be taken in the order of the bit mask |
| `Processes` | shared names | the processes and `None` |
| `SingleService` | what lock and listener promise together, on either platform | who is the primary, who serves: a process takes over only when there is no primary, and only the primary serves |
| `InstanceLock` | `InstanceLock` on POSIX | `acquire` is open and flock; the flock belongs to an inode and to a description shared with a forked child |
| `ChannelListener` | `ChannelListener`, `Channel::connect` on POSIX | one action per system call: probe, unlink, bind, listen; unlink, close; connect, accept |
| `SingleInstance` | the two used together, with crashes, restarts and a spawned child | a process that gets the lock binds, one that does not connects |
| `Proc` | `proc::spawn`, `Process`, `LifetimeGroup` on Linux | `spawn` is pipe, fork or its failure, then the parent's and the child's side; several may be in progress; waits, signals; the kernel's pids |
| `NamedMutex` | `InstanceLock` on Windows | `acquire` is `CreateMutexW` and, when the mutex was there, the later close of the handle |
| `NamedPipe` | `ChannelListener`, `Channel` on Windows | `bind`, the stages of `accept` (wait, stage the next instance, hand out or fail), `close`; `connect` with its attempts; a turn of the loop of `write_all`; `read`. `sent` counts what a client's writes put in, `got` is what reads returned |
| `WinProc` | `proc::spawn`, `Process`, `LifetimeGroup` on Windows | one action per call of `spawn` and per way it fails; several children are in it at once, as several threads of the parent may be. The crash of the parent closes its pipe ends first and the job later |
| `WinService` | the three used together | the application that gets the mutex starts children and serves the pipe; a child connects and writes a message. Who crashes or ends loses its ends, its mutex and its place |
| `Arc` | `Arc`, `IntrusiveArc`, `RefCounted` | `m_block` is the pointer of a handle, those inside blocks included; a call is its steps: release, the destructors it runs (`dying` is their stack), the load of the new pointer, retain |
| `ThreadContext` | what the guards promise each thread | how deep it is in guards, whether it has a logger, who is the main thread |
| `ThreadRegistry` | `State` of `auxid-thread.cpp` | `initialize_*` and `terminate_*` hold one mutex from first to last access, so each is one step; entries are kept by native id and never erased |
| `Threads` | `ThreadT`, the native threads, `Logger::log` | `create` is make, `pthread_create` or its failure, and the move into the variable; the new thread is its stages from the baton to the end of its guard; `join` and move assignment wait for it |
| `MCSlotMap`, `MCHashTable`, `MCWinService` | constants of the runs | the symmetry of the values; the hash functions to try; the message |
| `*_proofs` | theorems | |

Variables that end the name of a member (`m_slots`, `m_pids`) are that member.
A definition introduced by "Variant:" is a plausible fault (a dropped guard, a
forgotten reset); nothing uses it, and the run that checks the property it is
paired with in `PROJECT.json` fails when it replaces the definition after it.

What lies outside the source is modelled by what the code relies on and marked
external in `PROJECT.json`: AF_UNIX sockets (a node answers while its socket
listens and is open somewhere; a connect to a full queue waits), `flock`,
`fork` (copies descriptors), pids (reused once reaped), `PR_SET_PDEATHSIG`
(acts only if set before the parent died), pipes (end of file when no process
has the write end); on Windows the instances of a named pipe (one client each,
reused when both ends are closed, bytes outlive their writer), named mutexes
(exist while somebody has a handle), inheritance of handles and the job object
(its last handle ends what is in it).

## Runs

| Run | Instance | Shows |
|---|---|---|
| `spsc_queue` | 4 slots, positions modulo 8, 2 values | the ring implements `BoundedFifo` (`ImplementsFifo`); no slot is written over, read raw or destroyed twice (`SlotLifetime`); the destructor leaves nothing (`NothingLeaked`); accepted values leave the ring (`AcceptedIsConsumed`) |
| `slot_map` | 4 objects, 2 values, generations modulo 3 that wrap as often as slots are reused | the four structures agree (`DenseAndSlotsAgree`, `FreeListComplete`); keys of erased objects miss until the generation of their slot comes round (`StaleKeysMiss`); `ImplementsKeyedStore` |
| `slot_map_clear` | the same, callers keep keys over `clear` | a counterexample to `StaleKeysMiss` |
| `hash_table` | 6 keys, groups of 3, up to 12 slots and 5 entries; four keys that collide and overflow into the group of the other two, which share their fingerprint or not | `IndexExact`: the index names every entry once; `ProbesEnd`: an empty slot is always left; `LookupsExact`: lookups see the entries' keys; `OperationsExact`: each operation changes what lookups see by its own key alone, whatever it rehashes or moves |
| `single_instance` | 3 processes, 4 sockets, queue of 2, 2 crashes, 1 child | `ImplementsService`: processes take turns as the primary and only it has a listening socket (`SingleService`); `OwnerReachable`; `ChannelsHaveClients`; `ServiceReturns`; `ClientsAnswered`; no deadlock |
| `listener_race` | 2 processes, no lock | a counterexample to `OneOwner` |
| `inherited_listener` | 2 processes, 1 child, 1 crash | a counterexample to `RefusedByLiveOwner` |
| `proc` | 2 children, 2 pids | `ProcessNamesItsChild`; `StatusIsTheChilds`; `EnrolledIsTracked`; `EofEndsChildren`; `EofOrder`: no ring of children that hold each other's stdin |
| `arc` | 2 threads with 2 handles each, 3 blocks | `CountIsOwners`; `NoUseAfterFree`; `DestroyedOnce`; `OwnerlessIsFreed` |
| `win_service` | 2 applications, one of which spawns 2 children, one of them grouped; 3 pipe instances of 1 byte, a message of 2, 2 connect attempts | `StreamIntact`: bytes arrive once and in order; `ImplementsService`: applications take turns and only the primary has server ends of the pipe (`SingleService`); `NameLasts`; `FailedSpawnLeavesNothing`; `CrashKillsGrouped`; `EndsLeakOnlyToOverlap`; `RefusedForAReason`: no handle to the mutex is forgotten; `ClientsServed` |
| `threads` | `main()` and 2 workers, 2 variables each, 3 native ids | `RegistryMatches`; `MainIsRoot`; `HeldOnce`; `ClosureLifetime`; `JoinReturns`; `ImplementsContext` |
| `proc_crash` | the same as `proc` | a counterexample to `CrashKillsEnrolled` |

No run checks a type invariant: `TypeCorrect` of each module's proofs states it
for all constants.

### Bounds

- `SpscQueue`: the positions wrap after two turns of the ring, as `2^64` is a
  multiple of the capacity, so full, empty and wrapped are reached at every
  offset. `IndexModulus` is a bound on the word only.
- `SlotMap`: `MaxSize` bounds the objects. Four slots reach every shape of the
  free list with an object in front of, between and behind free ones. Operations
  are not bounded: `GenModulus` is the width of the generation, 2^32 in the code
  and 3 in the run, and generations wrap. An erased key is retired for
  `GenModulus` erases of its slot, its own included; then the slot has the key's
  generation again and the key is used up. The client remembers a used-up key
  until the next erase of its slot, which makes the history finite. Values
  are symmetric.
- `HashTable`: `GroupWidth` is 16 in the code and `LoadDivisor` 8; 3 and 3 keep
  the same rules (a table may not fill up, tombstones count) on tables of one,
  two and four groups. `MaxCapacity`, `MaxEntries` and `MaxReserve` bound growth
  and requests. Six keys are needed for erased slots to fill two groups: with
  four, a table that forgot to count them would still pass. Keys that no hash
  function tells apart are symmetric.
- `SingleInstance`: `MaxCrashes` and `MaxSpawns` count events in a behaviour;
  three processes are a primary, a rival and a client. `Backlog` is 8 in the
  code; 2 is enough for a full queue. `LockInodes` would allow a second lock
  file; the code never creates one.
- `Proc`: two children are what a pid needs to be reused and a pipe end to be
  inherited, and two overlapping spawns for each child to hold the other's end.
  Strangers take any free pid. A `LifetimeGroup` has no lock, so calls that use
  one are made one at a time.
- `Arc`: with three blocks a release can start a chain of three destructors,
  and one thread can copy what another lets go. A block holds one handle.
  A call reads only handles of its own thread and those inside blocks that
  another of its handles keeps alive (`Sources`): two threads on one handle
  need a lock in the caller, and `a = a->next` on the only owner of `*a`
  would read freed memory in the code.
- `WinService`: three instances are a channel, the next instance and one that
  a rival would add. The pipe is shorter than the message so that the writer
  must wait for the reader and go on where it stopped (`PipeSize` is 64 KiB and
  `Attempts` 8 in the code). `in` and `out` stand for the three streams: what
  tells them apart is that one is prepared after the other. Two children are
  what one spawn needs to overlap another. A child reports once.
- `Threads`: `RootCalls` and `WorkerCalls` count the calls a thread begins
  (joins and the ends of scopes are free). Three calls of `main()` and one of
  a worker are enough to start a thread that starts another, to move one
  thread over another that still runs, to give the id of a joined thread to a
  new one, and to log from all. A `ThreadT` belongs to the thread that uses it,
  and `main()` takes its main guard before any other guard, as in the examples of the
  repository's README.

Deadlock is checked except in `spsc_queue`, where the queue is destroyed,
in `proc`, `proc_crash`, where the parent may be dead and every child gone, and
in `threads`, which ends when the calls are used up.

### Fairness

- `SpscQueue`: the consumer goes on popping and a published position becomes
  visible in the end. Nothing is asked of the producer.
- `SingleInstance`: a process is started again and its calls return when the
  kernel has an answer; a forked child reaches its exec. No primary has to
  stop, no child to exit, nobody to crash. Both liveness properties assume that
  no child keeps inherited descriptors for ever: without that they fail, as
  `inherited_listener` shows for the node.
- `Proc`: `spawn` gets past its `fork` and returns, a forked child gets to its exec, a program at the end
  of its input sees it. Nobody has to close a pipe.
- `Arc`: a call that was begun goes on. Nobody has to make or drop a handle.
- `WinService`: the primary goes on accepting and reads some channel that has
  something to read, and some client goes on: a loop over accepts and readers is
  the least a service does. A primary that is told that `accept` failed closes
  the listener. Nobody has to start, to stop, to crash or to end.
- `Threads`: a call that was begun goes on when what it waits for is there; a
  callable comes to its end, as its calls are bounded and the variables in its
  scope are destroyed. `main()` has to do nothing.

## Disagreements between code and documents

1. `SlotMap::clear` (containers:3514) empties the slot table; the next insert
   starts again at slot 0, generation 0, and a key from before the clear
   resolves to the new object. `tests/cpp/containers/slot_map.cpp:143` says
   "old keys invalid after clear" and looks only at the empty map.
2. `ChannelListener::bind` (ipc:530) unlinks what the path names after its probe
   was refused, also if a rival bound it meanwhile: both get a listener. The
   contract (`:105`) promises EADDRINUSE against a live owner. Under
   `InstanceLock` this does not happen (`ImplementsService`, `OwnerReachable`).
3. Listening sockets are not close-on-exec (ipc:534): a child keeps the dead
   owner's node answering, and the new holder of the lock is refused. That is also
   the only way a bind under the lock fails (theorem `RefusedOnlyByChildHolds`).
4. `PR_SET_PDEATHSIG` (proc:495) is set after fork without looking whether the
   parent is still there; the contract (`:132`) promises that a crash kills
   enrolled children.

### Observed

No document says otherwise, so these are not disagreements; the models contain
them.

- Pipes made by `spawn` on POSIX are not close-on-exec (proc:471, ipc:449), and the
  child closes only its own. Of two spawns that overlap each child may hold the
  write end of the other's stdin: once the parent has closed or died both wait for
  an end of file that never comes. The contract (`:135`) warns of overlap on
  Windows only, and of a delay. `EofEndsChildren` is about spawns that do not overlap;
  without that premise it fails.
- A client that connects and leaves before `accept` (ERROR_NO_DATA, ipc:378) makes
  every later `accept` of that listener fail, as nothing disconnects the instance.
  `ClientsServed` holds of a primary that closes the listener and lets go of its
  clients; one that only calls `accept` again never serves anybody.
- A refused `acquire` has the mutex open until it closes its handle (ipc:408): if
  the owner releases meanwhile, the next `acquire` is refused although nobody
  holds the lock (`Refuse` before `CloseRefused`). Nothing else refuses an acquire
  (`RefusedForAReason`).
- `terminate` after `wait` (proc:604) still signals the pid, which may be
  another process's by then. `Proc` has it as the code does; the properties are
  about `wait`, `try_status` and the cached status, which do not touch it again.
- `prepare_stdio` that fails for a later stream leaves the ends of the earlier
  ones open (proc:286; on POSIX proc:471): `FailedSpawnLeavesNothing` excepts it.
- A parent that dies between `CreateProcessW` and the enrollment leaves a child
  that is suspended for ever: it does not run, which is what `CrashKillsGrouped`
  says, but it is there.

## Proofs

Each `*_proofs` module proves, for every value of the constants that its
assumptions allow, that an inductive invariant `IInv` holds and implies the
properties. TLC agreed that `IInv` is an invariant before it was proved.

- `SpscQueue_proofs`: assumes a positive capacity and a range of positions that
  is a larger multiple of it. `Window` says that the two positions are at
  most a capacity apart and the values seen lie behind them; `SlotState` says
  what every slot holds by its distance from the read position; `Control` ties
  the local variables to the program counters. From these follow `TypeOK`,
  `SlotLifetime` and `NothingLeaked`, and `FifoImplemented` maps every step to
  one of `BoundedFifo` or to a stutter. Lemmas on modular distance carry
  the arithmetic.
- `SlotMap_proofs`: any number of objects and values, any width of the
  generation of two or more, and slots reused without bound, for a client that
  drops its keys when it clears the map (`~KeysOutliveClear`; without that
  `StaleKeysMiss` fails, and a key from before the clear may match a free slot).
  `KeyInv` ties the client's live keys to the slots in use and says that the
  generation of a stale key's slot is the key's plus the erases since, modulo the
  width (`After`), so it differs from the key's while the key is retired;
  `FreeList` is `FreeListComplete` with a list of unknown length. A
  table without free slots is no longer than the values, by counting, which is
  why an insert stays within the bound. `InsertShape` and `EraseShape` say place
  by place what the two operations leave. From these follow `TypeOK`,
  `DenseAndSlotsAgree`, `FreeListComplete`, `StaleKeysMiss`, and `StoreImplemented`
  maps every step to one of `KeyedStore`. `UsedUpKeysMatchHolds` says that the
  limit in `StaleKeysMiss` is sharp: a key whose slot was erased `GenModulus`
  times matches again. No argument rests on slots being reused seldom.
- `HashTable_proofs`: any keys, hash function, width of a group, load limit and
  size. The invariant `Sound` says that full slots and entries
  correspond (`Indexed`), that no group before the one of an entry's slot has an
  empty slot on the way of its probe (`Probed`), and that entries and counted
  tombstones stay within the load. What carries it is `ProbeCovers`: with a
  power of two of groups, the probe that adds 1, 2, 3, ... visits each group once
  (two triangular numbers that are equal modulo a power of two are equal), so
  the slot the load limit leaves free is found. A rehash is a recursive function
  over the entries; that it exists and keeps the invariant is proved from the
  least number at which it would not. From `Sound` follow `TypeOK`,
  `IndexExact`, `ProbesEnd`, `TombstonesCounted` and `LookupsExact`;
  `EffectsExactHold` says of each operation, with the key it is given, that it
  changes what lookups see by exactly that key, and `OperationsExactHold` that
  every step is of such an operation: no rehash or relocation hides a key or
  shows another one. `ReserveSuffices` is about the arithmetic of `reserve`: the load of the
  slots it makes is at least what was asked for.
- `SingleInstance_proofs`: any number of processes, sockets, crashes. `LockInv`
  (a flock is held through the one lock inode), `StageInv` (a process past
  the flock holds it), `FdInv` and `NodeInv` (sockets and node by stage),
  `QueueInv` (no probe and no connection of the owner in a live queue). They give
  `TypeOK`, `OnePrimary`, `OwnerReachable`, `ChannelsHaveClients`.
  `OnePrimary` alone is not inductive: it needs that the lock path never comes
  to name a second inode. `ServiceImplemented` maps every step to one of
  `SingleService` or to a stutter: the lock changes hands only by way of nobody
  (`LockPasses`), and whoever has a listening socket has the lock (`QueueInv`,
  `FdInv`, `StageInv`). A process serves by its own descriptor: the socket that
  a child of a dead owner keeps open (disagreement 3) serves nobody.
  `RefusedOnlyByChildHolds` says why a bind fails: `NameFree` (nobody makes a node
  between the unlink and the bind of a primary) excludes the second EADDRINUSE,
  and what answers the probe is open, so, as the prober is the one primary, in a
  child. It is the part of `ServiceReturns` that needs no fairness.
- `Proc_proofs`: any number of objects and pids. `PidInv` (a pid names at most
  one process), `StageInv` (when a Process holds a pid and a child has an end; an
  object enrolled without a child is in a spawn).
  They give `TypeOK`, `ProcessNamesItsChild`, `StatusIsTheChilds`,
  `EnrolledIsTracked`. `EofOrder` has an invariant of its own (`Ordered`) that
  each step keeps while no two spawns overlap: among any children the one forked
  last has a pipe whose write end none of the others has. It is what
  `EofEndsChildren` needs besides fairness.
- `Arc_proofs`: any finite number of threads, handles and blocks, so destructor
  chains of any length. `CountIsOwners` is the heart: a step puts one handle
  into the set of owners of a block, takes one out, or puts one in another's
  place, and the cardinality follows the count. It needs `OpInv` (what a call
  holds at each step), `CopyInv` and `FreshInv` (a handle about to count itself
  has a source that owns the block, or is the first of a block nobody else
  knows) and the parts of `DestroyedOnce` (who destroys what). From these
  follow `TypeOK`, `CountIsOwners`, `NoUseAfterFree`, `DestroyedOnce`, and
  `AtRestOwned`: between calls the blocks that exist are those handles point to.
- `Threads_proofs`: any number of workers, `ThreadT` variables, native ids and
  calls. `IdInv` (a thread has an id of its own from start to join) turns
  statements about ids into ones about threads; `GuardInv` (a worker is
  outside all guards before its entry and after it) is why an id comes back
  with a counter of zero. `CallInv` and `NativeInv` say what a call in progress
  has made and that no two `ThreadT` name one thread; `HeapInv` counts the
  closure by stage, `MainInv` ties the main id to `Root`. They give `TypeOK`,
  `RegistryMatches`, `MainIsRoot`, `HeldOnce`, `ClosureLifetime`. `GuardsTell`
  reads the registry in terms of the threads; with it `ContextImplemented` maps
  every step to one of `ThreadContext` or to a stutter. `NoWaitRing` has an
  invariant of its own: among any threads one has a `ThreadT` for none of them
  (`HoldInv`: a new thread has none, and a `ThreadT` does not leave the thread it
  belongs to), and the holder of the logger's mutex is in `log_impl`, where it
  waits for nobody. Waiting in a ring is what could keep `JoinReturns` from
  coming true under its fairness.
- `WinService_proofs`: any number of applications, children and pipe instances,
  any message and size of the pipe. The invariant has two halves that hardly
  meet. `NameInv` is about the pipe: `EndsInv` (whose instance a listener names,
  and that a closed one is empty) and `HolderInv` (only the holder of the mutex
  is past `acquire`, and every server end is its own). `ChildInv` is about
  processes: `HandleInv` (which ends may be open at each step of a spawn) and
  `JobInv` (a grouped child runs only when it is enrolled and the job is open).
  They give `TypeOK` and the safety properties of `win_service`; the action
  property `EndsLeakOnlyToOverlap` follows from `HandleInv`, and from `HolderInv`
  both `OnlyPrimaryServes` and `ServiceImplemented`, the same refinement of
  `SingleService` as on POSIX: here the holder closes its channels before the
  mutex, so nobody takes over while a server end of the one before is open.
  `RefusedForAReason` needs `HandlesAccounted`: a handle to the mutex is its
  holder's or one that a refused acquire is about to close.

Only model-checked: all liveness properties (`AcceptedIsConsumed`,
`ServiceReturns`, `ClientsAnswered`, `EofEndsChildren`, `OwnerlessIsFreed`, `JoinReturns`,
`ClientsServed`), which need fairness; of `EofEndsChildren`, `JoinReturns` and
`ServiceReturns` the part that is a safety property is proved (`EofOrder`,
`NoWaitRing`, `RefusedOnlyByChild`).

## What is not modelled

- Windows: the command line and the environment block, the cached status and
  `wait` (the protocol is the one of `Proc`), waits that time out.
- POSIX: the bytes of a channel; a `prepare_stdio` that fails after the stdin pipe
  was made, which leaves its ends open but has no child that could read it.
- The moves of the handle classes (`Channel`, `InstanceLock`, `Process`), which
  exchange a handle with an empty object; the move of `SlotMap`, after which the old
  map may only be destroyed, cleared or assigned, as its `m_free_head` dangles.
- A main guard outside `main()`; factories and log handlers that call back into
  the library; allocation failure, which panics.
- A `SlotMap` key that is used after its slot was erased 2^32 times: it matches
  again (theorem `UsedUpKeysMatchHolds`), and the client is assumed to have dropped it.
- `String`, `Option`, `Error`, hash functions, `fs`, `env`, `time`, `dl` and the test
  runner, for the reasons given in `PROJECT.json`; vendored code.

## Plan

Done first, because it is the hardest and the most used: the queue, the
containers under the maps, single-instance arbitration, child processes, shared
ownership, threads and their registry; then the Windows side of lock, channel and
processes, composed as one service, and the proofs of every safety property that a
passing run checks.
Left, in this order:

1. `CompactVec`: growth on a narrow index against a sequence.
2. Move of `SlotMap`.
3. `HashMap` and `HashSet` over `HashTable`, with the values of the entries;
   `Box` and the two layouts of `String` with its growth.
