---- MODULE Proc_proofs ----
(***************************************************************************)
(* A Process object never confuses its child with another process, for any *)
(* number of children and pids and any reuse of pids, and a LifetimeGroup  *)
(* tracks every enrolled child that is alive.                              *)
(***************************************************************************)
EXTENDS Proc, TLAPS

\* A pid names at most one child, and no stranger has it.
PidInv ==
    /\ \A h, k \in Procs : \A p \in Pids : Names(p, h) /\ Names(p, k) => h = k
    /\ \A h \in Procs : kid[h] # "none" => pid[h] \in Pids

\* What is known of a child in each of its stages.
StageInv ==
    \A h \in Procs :
        /\ kid[h] \in {"zombie", "gone"} <=> status[h] # None
        /\ kid[h] = "none" => m_process[h] = None /\ h \notin m_reaped
        /\ kid[h] = "none" /\ h \in enrolled => h \in spawning
        /\ parent /\ kid[h] = "gone" => h \in m_reaped
        /\ m_process[h] # None => m_process[h] = pid[h]
        /\ h \in spawning => m_process[h] = None /\ h \notin m_reaped

IInv ==
    /\ TypeOK
    /\ PidInv
    /\ StageInv
    /\ ProcessNamesItsChild
    /\ StatusIsTheChilds
    /\ EnrolledIsTracked

LEMMA AppendToSet ==
  ASSUME NEW S, NEW s \in Seq(S), NEW x \in S PROVE ToSet(Append(s, x)) = ToSet(s) \cup {x}
<1>1. /\ Len(s) \in Nat /\ DOMAIN s = 1..Len(s)
      /\ DOMAIN Append(s, x) = 1..(Len(s) + 1)
      /\ \A i \in 1..Len(s) : Append(s, x)[i] = s[i]
      /\ Append(s, x)[Len(s) + 1] = x
  OBVIOUS
<1>2. 1..(Len(s) + 1) = 1..Len(s) \cup {Len(s) + 1}
  BY <1>1
<1>3. \A y : y \in ToSet(Append(s, x)) <=> y \in ToSet(s) \/ y = x
  BY <1>1, <1>2 DEF ToSet
<1> QED  BY <1>3

LEMMA InitIInv == Init => IInv
<1> SUFFICES ASSUME Init PROVE IInv
  OBVIOUS
<1> USE NoneAssumption, ProcAssumption DEF Init
<1>1. TypeOK
  BY DEF TypeOK
<1>2. PidInv /\ StageInv
  BY DEF PidInv, StageInv, Names, Alive
<1>3. ProcessNamesItsChild /\ StatusIsTheChilds /\ EnrolledIsTracked
  BY DEF ProcessNamesItsChild, StatusIsTheChilds, EnrolledIsTracked
<1> QED  BY <1>1, <1>2, <1>3 DEF IInv

\* A spawn that has made its pipe, and one whose fork fails, have no child.
LEMMA PrepareStep ==
  ASSUME IInv, NEW h \in Procs, NEW enroll \in BOOLEAN, Prepare(h, enroll) PROVE IInv'
<1> USE NoneAssumption, ProcAssumption DEF IInv, Prepare, objects
<1>1. TypeOK'
  BY DEF TypeOK, Holders
<1>2. PidInv' /\ StageInv'
  BY DEF PidInv, StageInv, Names, TypeOK
<1>3. ProcessNamesItsChild' /\ StatusIsTheChilds' /\ EnrolledIsTracked'
  BY DEF ProcessNamesItsChild, StatusIsTheChilds, EnrolledIsTracked, Names, Alive
<1> QED  BY <1>1, <1>2, <1>3

LEMMA ForkFailsStep == ASSUME IInv, NEW h \in Procs, ForkFails(h) PROVE IInv'
<1> USE NoneAssumption, ProcAssumption DEF IInv, ForkFails, objects
<1>1. TypeOK'
  BY DEF TypeOK
<1>2. PidInv' /\ StageInv'
  BY DEF PidInv, StageInv, Names, TypeOK
<1>3. ProcessNamesItsChild' /\ StatusIsTheChilds' /\ EnrolledIsTracked'
  BY DEF ProcessNamesItsChild, StatusIsTheChilds, EnrolledIsTracked, Names, Alive
<1> QED  BY <1>1, <1>2, <1>3

LEMMA ForkStep == ASSUME IInv, NEW h \in Procs, Fork(h) PROVE IInv'
<1> USE NoneAssumption, ProcAssumption DEF IInv, Fork, objects
<1>1. PICK p \in FreePids : pid' = [pid EXCEPT ![h] = p]
  OBVIOUS
<1>2. p \in Pids /\ \A k \in Procs : ~Names(p, k)
  BY DEF FreePids
<1>3. TypeOK'
  BY <1>1, <1>2 DEF TypeOK, Alive, Holders
<1>4. /\ \A k \in Procs \ {h} : pid'[k] = pid[k] /\ kid'[k] = kid[k]
      /\ pid'[h] = p /\ kid'[h] = "forked"
  BY <1>1 DEF TypeOK
<1>5. PidInv'
  BY <1>2, <1>4 DEF PidInv, Names
<1>6. StageInv'
  BY <1>4 DEF StageInv, TypeOK
<1>7. ProcessNamesItsChild' /\ StatusIsTheChilds'
  BY <1>4 DEF StageInv, ProcessNamesItsChild, StatusIsTheChilds, Names
<1>8. EnrolledIsTracked'
  BY <1>4 DEF EnrolledIsTracked, TypeOK
<1> QED  BY <1>3, <1>5, <1>6, <1>7, <1>8

LEMMA RecordStep == ASSUME IInv, NEW h \in Procs, Record(h) PROVE IInv'
<1> USE NoneAssumption, ProcAssumption DEF IInv, Record, kernel
<1>1. pid[h] \in Pids /\ m_process[h] = None /\ h \notin m_reaped /\ kid[h] # "none"
  BY DEF StageInv, PidInv
<1>2. kid[h] \in Alive \cup {"zombie"}
  BY <1>1 DEF StageInv, TypeOK
<1>3. TypeOK'
  BY <1>1 DEF TypeOK
<1>4. PidInv'
  BY DEF PidInv, Names
<1>5. StageInv'
  BY <1>1 DEF StageInv, TypeOK
<1>6. ProcessNamesItsChild' /\ StatusIsTheChilds'
  BY <1>1, <1>2 DEF ProcessNamesItsChild, StatusIsTheChilds, Names, TypeOK
<1>7. EnrolledIsTracked'
  <2>1. ToSet(m_pids) \subseteq ToSet(m_pids') /\ (h \in enrolled => pid[h] \in ToSet(m_pids'))
    <3>1. m_pids \in Seq(Pids) /\ pid[h] \in Pids
      BY <1>1 DEF TypeOK
    <3>2. ToSet(Append(m_pids, pid[h])) = ToSet(m_pids) \cup {pid[h]}
      BY <3>1, AppendToSet
    <3> QED  BY <3>1, <3>2
  <2> QED  BY <2>1 DEF EnrolledIsTracked
<1> QED  BY <1>3, <1>4, <1>5, <1>6, <1>7

LEMMA ArmStep == ASSUME IInv, NEW h \in Procs, Arm(h) PROVE IInv'
<1> USE NoneAssumption, ProcAssumption DEF IInv, Arm, objects
<1>1. TypeOK'
  BY DEF TypeOK, Alive
<1>2. \A k \in Procs : kid'[k] = IF k = h THEN "armed" ELSE kid[k]
  BY DEF TypeOK
<1>3. PidInv' /\ StageInv'
  BY <1>2 DEF PidInv, StageInv, Names, Alive
<1>4. ProcessNamesItsChild' /\ StatusIsTheChilds' /\ EnrolledIsTracked'
  BY <1>2 DEF ProcessNamesItsChild, StatusIsTheChilds, EnrolledIsTracked, Names, Alive
<1> QED  BY <1>1, <1>3, <1>4

LEMMA ExecStep == ASSUME IInv, NEW h \in Procs, Exec(h) PROVE IInv'
<1> USE NoneAssumption, ProcAssumption DEF IInv, Exec, objects
<1>1. TypeOK'
  BY DEF TypeOK, Alive
<1>2. \A k \in Procs : kid'[k] = IF k = h THEN "running" ELSE kid[k]
  BY DEF TypeOK
<1>3. PidInv' /\ StageInv'
  BY <1>2 DEF PidInv, StageInv, Names, Alive
<1>4. ProcessNamesItsChild' /\ StatusIsTheChilds' /\ EnrolledIsTracked'
  BY <1>2 DEF ProcessNamesItsChild, StatusIsTheChilds, EnrolledIsTracked, Names, Alive
<1> QED  BY <1>1, <1>3, <1>4

\* Children that end, for whatever reason, free no pid their parent still
\* relies on: they stay zombies until it reaps them.
LEMMA EndsStep ==
  ASSUME IInv, NEW dead \in SUBSET Procs, NEW s \in {Killed, Code},
         \A h \in dead : kid[h] \in Alive,
         parent' \in BOOLEAN, parent' => parent,
         Ends(dead, s, parent'),
         strangers' \subseteq Pids,
         UNCHANGED <<spawning, pid, enrolled, m_process, m_reaped, m_last_status>>,
         \/ m_pids' = m_pids
         \/ /\ m_pids' = <<>> /\ spawning \cap enrolled = {}
            /\ \A h \in Procs : kid[h] \in Alive /\ pid[h] \in ToSet(m_pids) => h \in dead
  PROVE  IInv'
<1> USE NoneAssumption, ProcAssumption DEF IInv, Ends
<1>1. \A h \in Procs :
        /\ h \in dead => kid'[h] = IF parent' THEN "zombie" ELSE "gone"
        /\ h \notin dead /\ kid[h] # "zombie" => kid'[h] = kid[h]
        /\ h \notin dead /\ kid[h] = "zombie" => kid'[h] = IF parent' THEN "zombie" ELSE "gone"
        /\ status'[h] = IF h \in dead THEN s ELSE status[h]
  OBVIOUS
<1>2. TypeOK'
  <2>0. \A h \in Procs : kid'[h] \in Alive \cup {"none", "zombie", "gone"}
    BY <1>1 DEF TypeOK
  <2>1. kid' \in [Procs -> Alive \cup {"none", "zombie", "gone"}]
    BY <2>0
  <2>2. /\ status' \in [Procs -> {None, Killed, Code}]
        /\ writers' \in [Procs -> SUBSET Holders]
    <3>1. \A h \in Procs : status'[h] \in {None, Killed, Code}
      BY <1>1 DEF TypeOK
    <3>2. \A h \in Procs : writers'[h] \in SUBSET Holders
      <4> SUFFICES ASSUME NEW h \in Procs PROVE writers'[h] \subseteq writers[h]
        BY DEF TypeOK
      <4> QED  OBVIOUS
    <3> QED  BY <3>1, <3>2
  <2>3. m_pids' \in Seq(Pids)
    <3>1. m_pids \in Seq(Pids)
      BY DEF TypeOK
    <3>2. m_pids' = m_pids \/ m_pids' = <<>>
      OBVIOUS
    <3>3. <<>> \in Seq(Pids)
      OBVIOUS
    <3> HIDE DEF Ends, IInv
    <3> QED  BY <3>1, <3>2, <3>3
  <2> QED  BY <2>1, <2>2, <2>3 DEF TypeOK
<1>3. \A h \in Procs : kid'[h] \in Alive \cup {"zombie"} => kid[h] \in Alive \cup {"zombie"}
  BY <1>1 DEF Alive, TypeOK
<1>4. PidInv'
  BY <1>1, <1>3 DEF PidInv, Names, Alive
<1>5. StageInv'
  BY <1>1 DEF StageInv, Alive, TypeOK
<1>6. ProcessNamesItsChild'
  BY <1>1 DEF ProcessNamesItsChild, Names, Alive
<1>7. StatusIsTheChilds'
  <2>1. \A h \in m_reaped : h \in Procs /\ h \notin dead
    BY DEF StatusIsTheChilds, StageInv, TypeOK, Alive
  <2> QED  BY <1>1, <2>1 DEF StatusIsTheChilds
<1>8. EnrolledIsTracked'
  BY <1>1 DEF EnrolledIsTracked, Alive, TypeOK
<1> QED  BY <1>2, <1>4, <1>5, <1>6, <1>7, <1>8

LEMMA KillStep ==
  ASSUME IInv, NEW P, SigKill(P), parent' = parent,
         UNCHANGED <<spawning, pid, enrolled, m_process, m_reaped, m_last_status>>,
         \/ m_pids' = m_pids
         \/ m_pids' = <<>> /\ spawning \cap enrolled = {} /\ P = ToSet(m_pids)
  PROVE  IInv'
<1> DEFINE dead == {h \in Procs : kid[h] \in Alive /\ pid[h] \in P}
<1>1. Ends(dead, Killed, parent') /\ strangers' \subseteq Pids /\ parent' \in BOOLEAN
  BY DEF SigKill, IInv, TypeOK
<1>2. dead \in SUBSET Procs /\ \A h \in dead : kid[h] \in Alive
  OBVIOUS
<1>3. m_pids' = m_pids \/ \A h \in Procs : kid[h] \in Alive /\ pid[h] \in ToSet(m_pids) => h \in dead
  OBVIOUS
<1> HIDE DEF dead
<1> QED  BY <1>1, <1>2, <1>3, EndsStep

\* What waitpid reports for the pid of an uncached Process is its own child.
LEMMA ReapStep == ASSUME IInv, NEW h \in Procs, Reap(h) PROVE IInv'
<1> USE NoneAssumption, ProcAssumption DEF IInv, Reap
<1>1. PICK k \in Procs : /\ pid[k] = m_process[h] /\ kid[k] = "zombie"
                         /\ kid' = [kid EXCEPT ![k] = "gone"]
                         /\ m_last_status' = [m_last_status EXCEPT ![h] = status[k]]
  OBVIOUS
<1>2. k = h
  <2>1. Names(m_process[h], h) /\ Names(m_process[h], k)
    BY <1>1 DEF ProcessNamesItsChild, Names
  <2> QED  BY <2>1 DEF PidInv, TypeOK
<1>3. status[h] # None
  BY <1>1, <1>2 DEF StageInv
<1>4. TypeOK'
  BY <1>1, <1>2, <1>3 DEF TypeOK
<1>5. \A j \in Procs : kid'[j] = IF j = h THEN "gone" ELSE kid[j]
  BY <1>1, <1>2 DEF TypeOK
<1>6. PidInv' /\ StageInv'
  BY <1>1, <1>2, <1>5 DEF PidInv, StageInv, Names, Alive
<1>7. ProcessNamesItsChild'
  BY <1>5 DEF ProcessNamesItsChild, Names
<1>8. StatusIsTheChilds'
  BY <1>1, <1>2, <1>3 DEF StatusIsTheChilds, TypeOK
<1>9. EnrolledIsTracked'
  BY <1>5 DEF EnrolledIsTracked, Alive
<1> QED  BY <1>4, <1>6, <1>7, <1>8, <1>9

LEMMA DestroyStep == ASSUME IInv, NEW h \in Procs, Destroy(h) PROVE IInv'
<1> USE NoneAssumption, ProcAssumption DEF IInv, Destroy
<1>1. TypeOK'
  BY DEF TypeOK
<1>2. PidInv' /\ StageInv'
  BY DEF PidInv, StageInv, Names, TypeOK
<1>3. ProcessNamesItsChild' /\ StatusIsTheChilds' /\ EnrolledIsTracked'
  BY DEF ProcessNamesItsChild, StatusIsTheChilds, EnrolledIsTracked, Names, TypeOK
<1> QED  BY <1>1, <1>2, <1>3

\* Steps that touch neither the children nor the objects.
LEMMA AsideStep ==
  ASSUME IInv, UNCHANGED <<parent, spawning, kid, pid, status, enrolled, objects>>,
         writers' \in [Procs -> SUBSET Holders], strangers' \subseteq Pids
  PROVE  IInv'
<1> USE NoneAssumption, ProcAssumption DEF IInv, objects
<1>1. TypeOK'
  BY DEF TypeOK
<1>2. PidInv' /\ StageInv'
  BY DEF PidInv, StageInv, Names
<1>3. ProcessNamesItsChild' /\ StatusIsTheChilds' /\ EnrolledIsTracked'
  BY DEF ProcessNamesItsChild, StatusIsTheChilds, EnrolledIsTracked, Names
<1> QED  BY <1>1, <1>2, <1>3

LEMMA NextIInv == IInv /\ [Next]_vars => IInv'
<1> SUFFICES ASSUME IInv, [Next]_vars PROVE IInv'
  OBVIOUS
<1>1. CASE UNCHANGED vars
  BY <1>1, AsideStep DEF vars, objects, IInv, TypeOK
<1>2. ASSUME NEW h \in Procs, Exits(h) \/ ReadsEof(h) PROVE IInv'
  <2>1. /\ kid[h] \in Alive /\ Ends({h}, Code, parent')
        /\ UNCHANGED <<parent, spawning, pid, enrolled, strangers, objects>>
    BY <1>2 DEF Exits, ReadsEof, Alive
  <2>2. {h} \in SUBSET Procs /\ \A k \in {h} : kid[k] \in Alive
    BY <2>1
  <2>3. parent' \in BOOLEAN /\ strangers' \subseteq Pids
    BY <2>1 DEF IInv, TypeOK
  <2> QED  BY <2>1, <2>2, <2>3, EndsStep DEF objects
<1>3. ASSUME NEW h \in Procs, Terminate(h) PROVE IInv'
  BY <1>3, KillStep DEF Terminate, objects
<1>4. ASSUME NEW h \in Procs, CloseStdin(h) PROVE IInv'
  <2>1. writers' \in [Procs -> SUBSET Holders] /\ strangers' \subseteq Pids
    BY <1>4 DEF CloseStdin, IInv, TypeOK
  <2> QED  BY <1>4, <2>1, AsideStep DEF CloseStdin
<1>5. CASE GroupClose
  BY <1>5, KillStep DEF GroupClose
<1>6. CASE ParentDies
  <2> DEFINE dead == {h \in enrolled : kid[h] \in {"armed", "running"}}
  <2>1. dead \in SUBSET Procs /\ \A h \in dead : kid[h] \in Alive
    BY DEF IInv, TypeOK, Alive
  <2>2. /\ parent' = FALSE /\ Ends(dead, Killed, parent')
        /\ UNCHANGED <<spawning, pid, enrolled, strangers, objects>>
    BY <1>6 DEF ParentDies
  <2>3. strangers' \subseteq Pids
    BY <2>2 DEF IInv, TypeOK
  <2> HIDE DEF dead
  <2> QED  BY <2>1, <2>2, <2>3, EndsStep DEF objects
<1>7. CASE StrangerStarts \/ StrangerEnds
  <2>1. writers' \in [Procs -> SUBSET Holders] /\ strangers' \subseteq Pids
    BY <1>7 DEF StrangerStarts, StrangerEnds, FreePids, IInv, TypeOK
  <2> QED  BY <1>7, <2>1, AsideStep DEF StrangerStarts, StrangerEnds
<1>8. ASSUME NEW h \in Procs, SpawnerEnds(h) PROVE IInv'
  <2>1. /\ kid[h] \in Alive /\ Ends({h}, Killed, parent')
        /\ UNCHANGED <<parent, spawning, pid, enrolled, strangers, objects>>
    BY <1>8 DEF SpawnerEnds, Alive
  <2>2. {h} \in SUBSET Procs /\ \A k \in {h} : kid[k] \in Alive
    BY <2>1
  <2>3. parent' \in BOOLEAN /\ strangers' \subseteq Pids
    BY <2>1 DEF IInv, TypeOK
  <2> QED  BY <2>1, <2>2, <2>3, EndsStep DEF objects
<1> QED  BY <1>1, <1>2, <1>3, <1>4, <1>5, <1>6, <1>7, <1>8, PrepareStep, ForkStep, ForkFailsStep,
            RecordStep, ArmStep, ExecStep, ReapStep, DestroyStep DEF Next

\* The inductive invariant holds throughout.
LEMMA Inductive == Spec => []IInv
  BY InitIInv, NextIInv, PTL DEF Spec

\* The state of the objects and of the kernel has its type.
THEOREM TypeCorrect == Spec => []TypeOK
<1>1. IInv => TypeOK
  BY DEF IInv
<1> QED  BY Inductive, <1>1, PTL

\* terminate and wait act on the child of their object and on nothing else
\* until its status is cached, whatever pids are reused meanwhile.
THEOREM ProcessNamesItsChildHolds == Spec => []ProcessNamesItsChild
<1>1. IInv => ProcessNamesItsChild
  BY DEF IInv
<1> QED  BY Inductive, <1>1, PTL

\* The cached status is the one the object's own child ended with.
THEOREM StatusIsTheChildsHolds == Spec => []StatusIsTheChilds
<1>1. IInv => StatusIsTheChilds
  BY DEF IInv
<1> QED  BY Inductive, <1>1, PTL

\* No live enrolled child escapes the list its group kills on close.
THEOREM EnrolledIsTrackedHolds == Spec => []EnrolledIsTracked
<1>1. IInv => EnrolledIsTracked
  BY DEF IInv
<1> QED  BY Inductive, <1>1, PTL

----------------------------------------------------------------------------
(* End of file on stdin, as long as no two spawns overlap *)

\* Between fork and exec a child has the write end of its own pipe.
Own(h) == IF kid[h] \in {"forked", "armed"} THEN {h} ELSE {}

\* The pipe of a spawn that has not forked is the parent's alone, and among any
\* children there is one whose end of the pipe none of the others has: the
\* last of them to be forked.
Ordered ==
    /\ \A h \in spawning : kid[h] = "none" => writers[h] \subseteq {Parent}
    /\ \A S \in SUBSET {h \in Procs : kid[h] # "none"} :
          S # {} => \E h \in S : writers[h] \cap S \subseteq Own(h)

\* Steps that fork nobody and give nobody an end.
LEMMA OrderedKept ==
  ASSUME Ordered, TypeOK,
         \A h \in Procs : kid'[h] = "none" <=> kid[h] = "none",
         \A h \in Procs : writers'[h] \subseteq writers[h],
         \A h \in Procs : h \in Own(h) /\ h \notin Own(h)' => h \notin writers'[h],
         spawning' \subseteq spawning
  PROVE  Ordered'
<1>1. \A h \in spawning' : kid'[h] = "none" => writers'[h] \subseteq {Parent}
  BY DEF Ordered, TypeOK
<1>2. ASSUME NEW S \in SUBSET {h \in Procs : kid'[h] # "none"}, S # {}
      PROVE  \E h \in S : writers'[h] \cap S \subseteq Own(h)'
  <2>1. PICK h \in S : writers[h] \cap S \subseteq Own(h)
    BY <1>2 DEF Ordered
  <2>2. Own(h) \subseteq {h}
    BY DEF Own
  <2> QED  BY <2>1, <2>2
<1> QED  BY <1>1, <1>2 DEF Ordered

LEMMA OrderedPrepare ==
  ASSUME Ordered, TypeOK, NEW h \in Procs, NEW enroll \in BOOLEAN, Prepare(h, enroll)
  PROVE  Ordered'
<1>1. /\ kid' = kid /\ kid[h] = "none"
      /\ writers'[h] = {Parent} /\ \A k \in Procs \ {h} : writers'[k] = writers[k]
      /\ spawning' = spawning \cup {h}
  BY DEF Prepare, TypeOK
<1>2. \A k \in spawning' : kid'[k] = "none" => writers'[k] \subseteq {Parent}
  BY <1>1 DEF Ordered, TypeOK
<1>3. ASSUME NEW S \in SUBSET {k \in Procs : kid'[k] # "none"}, S # {}
      PROVE  \E k \in S : writers'[k] \cap S \subseteq Own(k)'
  <2>1. PICK k \in S : writers[k] \cap S \subseteq Own(k)
    BY <1>1, <1>3 DEF Ordered
  <2> QED  BY <1>1, <2>1 DEF Own
<1> QED  BY <1>2, <1>3 DEF Ordered

\* The new child may have every end that the parent has, but nobody else has
\* its own.
LEMMA OrderedFork ==
  ASSUME Ordered, TypeOK, NoOverlap, NEW h \in Procs, Fork(h)
  PROVE  Ordered'
<1> USE ProcAssumption
<1>1. /\ h \in spawning /\ kid[h] = "none" /\ spawning' = spawning
      /\ kid'[h] = "forked" /\ \A k \in Procs \ {h} : kid'[k] = kid[k]
      /\ \A k \in Procs : writers'[k] = IF Parent \in writers[k] THEN writers[k] \cup {h}
                                        ELSE writers[k]
  BY DEF Fork, TypeOK
<1>2. \A k \in spawning' : k = h
  BY <1>1 DEF NoOverlap
<1>3. ASSUME NEW S \in SUBSET {k \in Procs : kid'[k] # "none"}, S # {}
      PROVE  \E k \in S : writers'[k] \cap S \subseteq Own(k)'
  <2>1. CASE h \in S
    <3>1. writers'[h] \subseteq {Parent, h}
      BY <1>1 DEF Ordered
    <3>2. writers'[h] \cap S \subseteq Own(h)'
      BY <1>1, <3>1 DEF Own
    <3> QED  BY <2>1, <3>2
  <2>2. CASE h \notin S
    <3>1. S \in SUBSET {k \in Procs : kid[k] # "none"}
      BY <1>1, <2>2
    <3>2. PICK k \in S : writers[k] \cap S \subseteq Own(k)
      BY <1>3, <3>1 DEF Ordered
    <3>3. Own(k)' = Own(k) /\ writers'[k] \cap S = writers[k] \cap S
      BY <1>1, <2>2 DEF Own
    <3> QED  BY <3>2, <3>3
  <2> QED  BY <2>1, <2>2
<1> QED  BY <1>1, <1>2, <1>3 DEF Ordered

\* Children that end close what they have.
LEMMA OrderedEnds ==
  ASSUME Ordered, TypeOK, NEW dead \in SUBSET Procs, NEW s, NEW up, Ends(dead, s, up),
         \A h \in dead : kid[h] \in Alive, spawning' = spawning
  PROVE  Ordered'
<1>1. \A h \in Procs :
        /\ kid'[h] = "none" <=> kid[h] = "none"
        /\ h \notin dead /\ kid[h] \in Alive => kid'[h] = kid[h]
        /\ writers'[h] \subseteq writers[h] \ dead
  BY DEF Ends, Alive
<1>2. \A h \in Procs : h \in Own(h) /\ h \notin Own(h)' => h \notin writers'[h]
  BY <1>1 DEF Own, Alive
<1> QED  BY <1>1, <1>2, OrderedKept

LEMMA NextOrdered == IInv /\ NoOverlap /\ Ordered /\ [Next]_vars => Ordered'
<1> SUFFICES ASSUME IInv, NoOverlap, Ordered, [Next]_vars PROVE Ordered'
  OBVIOUS
<1> TypeOK
  BY DEF IInv
<1>1. CASE UNCHANGED vars
  BY <1>1, OrderedKept DEF vars, Own
<1>2. ASSUME NEW h \in Procs, Exits(h) \/ ReadsEof(h) \/ SpawnerEnds(h) PROVE Ordered'
  <2>1. \E s, up : Ends({h}, s, up)
    BY <1>2 DEF Exits, ReadsEof, SpawnerEnds
  <2>2. kid[h] \in Alive /\ spawning' = spawning
    BY <1>2 DEF Exits, ReadsEof, SpawnerEnds, Alive
  <2> QED  BY <2>1, <2>2, OrderedEnds
<1>3. ASSUME NEW P, SigKill(P), spawning' = spawning PROVE Ordered'
  BY <1>3, OrderedEnds DEF SigKill
<1>4. CASE ParentDies
  <2> DEFINE dead == {h \in enrolled : kid[h] \in {"armed", "running"}}
  <2>1. dead \in SUBSET Procs /\ (\A h \in dead : kid[h] \in Alive) /\ spawning' = spawning
    BY <1>4 DEF ParentDies, Alive, TypeOK
  <2>2. Ends(dead, Killed, FALSE)
    BY <1>4 DEF ParentDies
  <2> HIDE DEF dead
  <2> QED  BY <2>1, <2>2, OrderedEnds
<1>5. ASSUME NEW h \in Procs, Arm(h) \/ Exec(h) PROVE Ordered'
  <2>1. /\ spawning' = spawning /\ kid[h] # "none" /\ kid'[h] \in {"armed", "running"}
        /\ \A k \in Procs \ {h} : kid'[k] = kid[k] /\ writers'[k] = writers[k]
        /\ writers'[h] \subseteq writers[h]
        /\ kid'[h] = "running" => h \notin writers'[h]
    BY <1>5 DEF Arm, Exec, TypeOK
  <2>2. \A k \in Procs : k \in Own(k) /\ k \notin Own(k)' => k \notin writers'[k]
    BY <2>1 DEF Own
  <2> QED  BY <2>1, <2>2, OrderedKept
<1>6. ASSUME NEW h \in Procs, ForkFails(h) \/ Record(h) \/ Destroy(h) \/ CloseStdin(h)
      PROVE  Ordered'
  <2>1. /\ kid' = kid /\ spawning' \subseteq spawning
        /\ \A k \in Procs : writers'[k] \subseteq writers[k]
    BY <1>6 DEF ForkFails, Record, Destroy, CloseStdin, kernel, TypeOK
  <2> QED  BY <2>1, OrderedKept DEF Own
<1>7. ASSUME NEW h \in Procs, Reap(h) PROVE Ordered'
  <2>1. /\ writers' = writers /\ spawning' = spawning
        /\ \E k \in Procs : kid[k] = "zombie" /\ kid' = [kid EXCEPT ![k] = "gone"]
    BY <1>7 DEF Reap
  <2>2. \A k \in Procs : (kid'[k] = "none" <=> kid[k] = "none") /\ Own(k)' = Own(k)
    BY <2>1 DEF Own, TypeOK
  <2> QED  BY <2>1, <2>2, OrderedKept
<1>8. CASE StrangerStarts \/ StrangerEnds
  BY <1>8, OrderedKept DEF StrangerStarts, StrangerEnds, Own
<1>9. ASSUME NEW h \in Procs, Terminate(h) PROVE Ordered'
  BY <1>3, <1>9 DEF Terminate
<1>10. CASE GroupClose
  BY <1>3, <1>10 DEF GroupClose
<1> QED  BY <1>1, <1>2, <1>4, <1>5, <1>6, <1>7, <1>8, <1>9, <1>10, OrderedPrepare, OrderedFork
        DEF Next

\* Of spawns that never overlap no programs wait for each other in a ring: the
\* one forked last can see its end of file, and the others after it.
THEOREM EofOrderHolds == Spec => EofOrder
<1>1. Init => Ordered
  BY DEF Init, Ordered
<1>2. IInv /\ Ordered => NoRing
  <2> SUFFICES ASSUME IInv, Ordered, NEW S \in SUBSET {h \in Procs : kid[h] = "running"}, S # {}
               PROVE  \E h \in S : writers[h] \cap S = {}
    BY DEF NoRing
  <2>1. PICK h \in S : writers[h] \cap S \subseteq Own(h)
    BY DEF Ordered
  <2>2. Own(h) = {}
    BY DEF Own
  <2> QED  BY <2>1, <2>2
<1> QED  BY <1>1, <1>2, NextOrdered, Inductive, PTL DEF Spec, EofOrder
====
