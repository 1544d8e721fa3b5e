---- MODULE WinService_proofs ----
(***************************************************************************)
(* The single-instance service on Windows keeps its promises for every set *)
(* of applications, children and pipe instances, every message and every   *)
(* size of the pipe.                                                       *)
(***************************************************************************)
EXTENDS WinService, SequenceTheorems, TLAPS

----------------------------------------------------------------------------
(* The pipe by itself. *)

Listeners == {"serving", "waiting", "staging", "failed"}

\* What a listener names is its own, it names something while it is in
\* service, and an instance that is closed is empty.
EndsInv ==
    /\ \A p \in Procs : m_native[p] # None =>
         pc[p] \in Listeners /\ server[m_native[p]] = p
    /\ \A p \in Procs : pc[p] \in {"serving", "waiting", "staging"} => m_native[p] # None
    /\ \A i \in Instances : server[i] = None => sent[i] = 0 /\ buf[i] = <<>> /\ got[i] = <<>>

PipeInv == PipeTypeOK /\ EndsInv /\ StreamIntact

LEMMA Regroup ==
  ASSUME NEW s \in Seq(Nat), NEW t \in Seq(Nat), NEW u \in Seq(Nat)
  PROVE  (s \o t) \o u = s \o (t \o u)
  BY ConcatAssociative

LEMMA MessageType == Message \in Seq(Nat) /\ Len(Message) \in Nat
  BY PipeAssumption

\* Closing ends keeps what is left of the instances intact.
LEMMA ClosesKeeps ==
  ASSUME PipeInv, NEW S, NEW C, Closes(S, C)
  PROVE  /\ server' \in [Instances -> Procs \cup {None}]
         /\ client' \in [Instances -> Procs \cup {None, Gone}]
         /\ sent' \in [Instances -> 0..Len(Message)]
         /\ buf' \in [Instances -> Seq(Nat)]
         /\ got' \in [Instances -> Seq(Nat)]
         /\ \A i \in Instances : server'[i] = None =>
                sent'[i] = 0 /\ buf'[i] = <<>> /\ got'[i] = <<>>
         /\ \A i \in Instances : server'[i] = IF i \in S THEN None ELSE server[i]
         /\ StreamIntact'
<1> USE MessageType DEF PipeInv, PipeTypeOK, Closes
<1>1. /\ server' \in [Instances -> Procs \cup {None}]
      /\ client' \in [Instances -> Procs \cup {None, Gone}]
      /\ sent' \in [Instances -> 0..Len(Message)]
  OBVIOUS
<1>2. buf' \in [Instances -> Seq(Nat)] /\ got' \in [Instances -> Seq(Nat)]
  <2>1. <<>> \in Seq(Nat)
    OBVIOUS
  <2> QED  BY <2>1
<1>3. \A i \in Instances : server'[i] = IF i \in S THEN None ELSE server[i]
  OBVIOUS
<1>4. \A i \in Instances : server'[i] = None =>
         sent'[i] = 0 /\ buf'[i] = <<>> /\ got'[i] = <<>>
  OBVIOUS
<1>5. \A i \in Instances : server'[i] # None =>
         sent'[i] = sent[i] /\ buf'[i] = buf[i] /\ got'[i] = got[i] /\ server[i] # None
  OBVIOUS
<1>6. StreamIntact'
  BY <1>5 DEF StreamIntact
<1> QED  BY <1>1, <1>2, <1>3, <1>4, <1>6

\* The stream of an instance that is created is empty, as nothing was sent.
LEMMA CreateInstanceKeeps ==
  ASSUME PipeInv, NEW p \in Procs, CreateInstance(p)
  PROVE  /\ server' \in [Instances -> Procs \cup {None}]
         /\ m_native' \in [Procs -> Instances \cup {None}]
         /\ \E i \in Instances :
              /\ server[i] = None
              /\ server' = [server EXCEPT ![i] = p]
              /\ m_native' = [m_native EXCEPT ![p] = i]
         /\ UNCHANGED <<client, sent, buf, got>>
         /\ StreamIntact'
<1> USE MessageType DEF PipeInv, PipeTypeOK
<1>1. PICK i \in Instances : /\ server[i] = None
                             /\ server' = [server EXCEPT ![i] = p]
                             /\ m_native' = [m_native EXCEPT ![p] = i]
                             /\ UNCHANGED <<client, sent, buf, got>>
  BY DEF CreateInstance, Free
<1>2. server' \in [Instances -> Procs \cup {None}] /\ m_native' \in [Procs -> Instances \cup {None}]
  BY <1>1
<1>3. sent[i] = 0 /\ buf[i] = <<>> /\ got[i] = <<>>
  BY <1>1 DEF EndsInv
<1>4. got[i] \o buf[i] = SubSeq(Message, 1, sent[i])
  <2>1. SubSeq(Message, 1, 0) = <<>>
    OBVIOUS
  <2> QED  BY <1>3, <2>1
<1>5. StreamIntact'
  <2> SUFFICES ASSUME NEW j \in Instances, server'[j] # None
               PROVE  got[j] \o buf[j] = SubSeq(Message, 1, sent[j])
    BY <1>1 DEF StreamIntact
  <2>1. CASE j = i
    BY <2>1, <1>4
  <2>2. CASE j # i
    BY <2>2, <1>1 DEF StreamIntact
  <2> QED  BY <2>1, <2>2
<1> QED  BY <1>1, <1>2, <1>5

\* A step that moves processes between calls alone keeps the pipe.
LEMMA PipeMoves ==
  ASSUME PipeInv, UNCHANGED <<ends, m_native>>, pc' \in [Procs -> Places], tries' \in [Procs -> 0..Attempts],
         \A p \in Procs : /\ m_native[p] # None => pc'[p] \in Listeners
                          /\ pc'[p] \in {"serving", "waiting", "staging"} => m_native[p] # None
  PROVE  PipeInv'
<1>1. PipeTypeOK'
  BY DEF PipeInv, PipeTypeOK, ends, Places
<1>2. EndsInv'
  <2> USE DEF PipeInv, EndsInv
  <2>0. UNCHANGED <<server, sent, buf, got, m_native>>
    BY DEF ends
  <2>1. ASSUME NEW p \in Procs, m_native'[p] # None
        PROVE  pc'[p] \in Listeners /\ server'[m_native'[p]] = p
    <3>1. m_native'[p] = m_native[p]
      BY <2>0
    <3> QED  BY <2>0, <2>1, <3>1
  <2>2. \A p \in Procs : pc'[p] \in {"serving", "waiting", "staging"} => m_native'[p] # None
    BY <2>0
  <2>3. \A i \in Instances : server'[i] = None => sent'[i] = 0 /\ buf'[i] = <<>> /\ got'[i] = <<>>
    BY <2>0
  <2> QED  BY <2>1, <2>2, <2>3
<1>3. StreamIntact'
  BY DEF PipeInv, StreamIntact, ends
<1> QED  BY <1>1, <1>2, <1>3 DEF PipeInv

\* A listener that gets a new instance names it; the one it named before is a
\* channel from now on.
LEMMA CreatedIsServed ==
  ASSUME PipeInv, NEW p \in Procs, CreateInstance(p),
         pc' = [pc EXCEPT ![p] = "serving"], UNCHANGED tries
  PROVE  PipeInv'
<1>1. PICK i \in Instances : /\ server[i] = None
                             /\ server' = [server EXCEPT ![i] = p]
                             /\ m_native' = [m_native EXCEPT ![p] = i]
  BY CreateInstanceKeeps
<1>2. PipeTypeOK'
  <2>1. pc' \in [Procs -> Places] /\ tries' \in [Procs -> 0..Attempts]
    BY DEF PipeInv, PipeTypeOK, Places
  <2> QED  BY <2>1, CreateInstanceKeeps DEF PipeInv, PipeTypeOK
<1>3. EndsInv'
  <2>1. \A q \in Procs : m_native'[q] # None => pc'[q] \in Listeners /\ server'[m_native'[q]] = q
    BY <1>1, PipeAssumption DEF PipeInv, PipeTypeOK, EndsInv, Listeners
  <2>2. \A q \in Procs : pc'[q] \in {"serving", "waiting", "staging"} => m_native'[q] # None
    BY <1>1, PipeAssumption DEF PipeInv, PipeTypeOK, EndsInv
  <2>3. \A j \in Instances : server'[j] = None => sent'[j] = 0 /\ buf'[j] = <<>> /\ got'[j] = <<>>
    BY <1>1, CreateInstanceKeeps DEF PipeInv, PipeTypeOK, EndsInv
  <2> QED  BY <2>1, <2>2, <2>3 DEF EndsInv
<1> QED  BY <1>2, <1>3, CreateInstanceKeeps DEF PipeInv

\* A listener that closes its instance names none.
LEMMA ClosedIsGone ==
  ASSUME PipeInv, NEW p \in Procs, Closes({m_native[p]} \ {None}, {}),
         m_native' = [m_native EXCEPT ![p] = None],
         NEW where \in Places \ {"serving", "waiting", "staging"},
         pc' = [pc EXCEPT ![p] = where], UNCHANGED tries
  PROVE  PipeInv'
<1>1. PipeTypeOK'
  BY ClosesKeeps DEF PipeInv, PipeTypeOK, Places
<1>2. EndsInv'
  <2>1. \A q \in Procs : m_native'[q] # None => pc'[q] \in Listeners /\ server'[m_native'[q]] = q
    BY ClosesKeeps, PipeAssumption DEF PipeInv, PipeTypeOK, EndsInv
  <2>2. \A q \in Procs : pc'[q] \in {"serving", "waiting", "staging"} => m_native'[q] # None
    BY DEF PipeInv, PipeTypeOK, EndsInv
  <2> QED  BY <2>1, <2>2, ClosesKeeps DEF EndsInv
<1> QED  BY <1>1, <1>2, ClosesKeeps DEF PipeInv

LEMMA ServerKeepsPipe ==
  ASSUME PipeInv, NEW p \in Procs, ServerStep(p)
  PROVE  PipeInv'
<1> USE PipeAssumption DEF Goto
<1>0. PipeTypeOK /\ EndsInv
  BY DEF PipeInv
<1>1. CASE Bind(p)
  <2>1. m_native[p] = None
    BY <1>0, <1>1 DEF Bind, EndsInv, Listeners
  <2>2. CreateInstance(p) /\ pc' = [pc EXCEPT ![p] = "serving"] /\ UNCHANGED tries
    BY <1>1 DEF Bind
  <2> QED  BY <2>1, <2>2, CreatedIsServed
<1>2. CASE BindFails(p)
  <2>1. m_native[p] = None
    BY <1>0, <1>2 DEF BindFails, EndsInv, Listeners
  <2> QED  BY <2>1, <1>0, <1>2, PipeMoves DEF BindFails, PipeTypeOK, EndsInv, Listeners, Places
<1>3. CASE AcceptWaits(p)
  BY <1>0, <1>3, PipeMoves DEF AcceptWaits, PipeTypeOK, EndsInv, Listeners, Places
<1>4. CASE AcceptPending(p)
  BY <1>0, <1>4, PipeMoves DEF AcceptPending, PipeTypeOK, EndsInv, Listeners, Places
<1>5. CASE AcceptFails(p)
  BY <1>0, <1>5, PipeMoves DEF AcceptFails, PipeTypeOK, EndsInv, Listeners, Places
<1>6. CASE Stage(p)
  <2>1. CreateInstance(p) /\ pc' = [pc EXCEPT ![p] = "serving"] /\ UNCHANGED tries
    BY <1>6 DEF Stage
  <2> QED  BY <2>1, CreatedIsServed
<1>7. CASE StageFails(p)
  <2>0. m_native[p] # None
    BY <1>0, <1>7 DEF StageFails, EndsInv
  <2>1. /\ Closes({m_native[p]}, {})
        /\ m_native' = [m_native EXCEPT ![p] = None]
        /\ pc' = [pc EXCEPT ![p] = "failed"]
        /\ UNCHANGED tries
    BY <1>7 DEF StageFails
  <2>2. "failed" \in Places \ {"serving", "waiting", "staging"}
    BY DEF Places
  <2>3. {m_native[p]} \ {None} = {m_native[p]}
    BY <2>0
  <2> QED  BY <2>1, <2>2, <2>3, ClosedIsGone
<1> QED  BY <1>1, <1>2, <1>3, <1>4, <1>5, <1>6, <1>7 DEF ServerStep

LEMMA CloseListenerKeepsPipe ==
  ASSUME PipeInv, NEW p \in Procs, CloseListener(p)
  PROVE  PipeInv'
<1>1. /\ Closes({m_native[p]} \ {None}, {})
      /\ m_native' = [m_native EXCEPT ![p] = None]
      /\ pc' = [pc EXCEPT ![p] = "closed"]
      /\ UNCHANGED tries
  BY DEF CloseListener, Goto
<1>2. "closed" \in Places \ {"serving", "waiting", "staging"}
  BY DEF Places
<1> QED  BY <1>1, <1>2, ClosedIsGone

\* Closing channels, and the client ends of processes that go elsewhere or
\* nowhere, leaves the listeners as they are.
LEMMA ChannelsClose ==
  ASSUME PipeInv, NEW S, NEW C, Closes(S, C), UNCHANGED m_native,
         \A p \in Procs : m_native[p] \notin S \/ m_native[p] = None,
         pc' \in [Procs -> Places], tries' \in [Procs -> 0..Attempts],
         \A p \in Procs : pc'[p] = pc[p] \/ {pc[p], pc'[p]} \cap Listeners = {}
  PROVE  PipeInv'
<1>1. PipeTypeOK'
  BY ClosesKeeps DEF PipeInv, PipeTypeOK
<1>2. EndsInv'
  <2>1. ASSUME NEW q \in Procs, m_native'[q] # None
        PROVE  pc'[q] \in Listeners /\ server'[m_native'[q]] = q
    <3>1. m_native[q] \in Instances /\ pc[q] \in Listeners /\ server[m_native[q]] = q /\ m_native[q] \notin S
      BY <2>1 DEF PipeInv, PipeTypeOK, EndsInv
    <3>2. server'[m_native[q]] = q
      BY <3>1, ClosesKeeps
    <3> QED  BY <3>1, <3>2
  <2>2. \A q \in Procs : pc'[q] \in {"serving", "waiting", "staging"} => m_native'[q] # None
    BY DEF PipeInv, PipeTypeOK, EndsInv, Listeners
  <2> QED  BY <2>1, <2>2, ClosesKeeps DEF EndsInv
<1> QED  BY <1>1, <1>2, ClosesKeeps DEF PipeInv

\* What a read returns is what the pipe loses.
LEMMA ReadKeepsPipe ==
  ASSUME PipeInv, NEW i \in Instances, Read(i)
  PROVE  PipeInv'
<1> USE MessageType DEF PipeInv, PipeTypeOK
<1>1. PICK n \in 1..Len(buf[i]) :
         /\ got' = [got EXCEPT ![i] = @ \o SubSeq(buf[i], 1, n)]
         /\ buf' = [buf EXCEPT ![i] = SubSeq(@, n + 1, Len(@))]
  BY DEF Read
<1>2. UNCHANGED <<server, client, sent, m_native, pc, tries>> /\ server[i] # None
  BY DEF Read
<1> DEFINE head == SubSeq(buf[i], 1, n)
           rest == SubSeq(buf[i], n + 1, Len(buf[i]))
<1>3. buf[i] \in Seq(Nat) /\ got[i] \in Seq(Nat) /\ Len(buf[i]) \in Nat
  OBVIOUS
<1>4. head \in Seq(Nat) /\ rest \in Seq(Nat) /\ got[i] \o head \in Seq(Nat)
  BY <1>3
<1>5. head \o rest = buf[i]
  <2>1. head \o rest = SubSeq(buf[i], 1, Len(buf[i]))
    BY <1>3, ConcatAdjacentSubSeq, 1 \in 1..Len(buf[i]) + 1, n \in 1 - 1 .. Len(buf[i]), Len(buf[i]) \in n .. Len(buf[i])
  <2> QED  BY <2>1, <1>3, SubSeqFull
<1> HIDE DEF head, rest
<1>6. (got[i] \o head) \o rest = got[i] \o buf[i]
  <2>1. (got[i] \o head) \o rest = got[i] \o (head \o rest)
    BY <1>3, <1>4, Regroup
  <2> QED  BY <1>5, <2>1
<1>7. got' = [got EXCEPT ![i] = got[i] \o head] /\ buf' = [buf EXCEPT ![i] = rest]
  BY <1>1 DEF head, rest
<1>8. PipeTypeOK'
  BY <1>2, <1>4, <1>7
<1>9. EndsInv'
  BY <1>2, <1>7 DEF EndsInv
<1>10. StreamIntact'
  BY <1>2, <1>6, <1>7 DEF StreamIntact
<1> QED  BY <1>8, <1>9, <1>10

LEMMA ReceiveKeepsPipe ==
  ASSUME PipeInv, NEW i \in Instances, Read(i) \/ ReadEof(i) \/ CloseChannel(i)
  PROVE  PipeInv'
<1>1. CASE Read(i)
  BY <1>1, ReadKeepsPipe
<1>2. CASE ReadEof(i) \/ CloseChannel(i)
  <2>1. Closes({i}, {}) /\ UNCHANGED <<m_native, pc, tries>> /\ server[i] # None /\ i \in Channels(server[i])
    BY <1>2 DEF ReadEof, CloseChannel
  <2>2. \A p \in Procs : m_native[p] \notin {i} \/ m_native[p] = None
    BY <2>1 DEF Channels, PipeInv, EndsInv
  <2> QED  BY <2>1, <2>2, ChannelsClose DEF PipeInv, PipeTypeOK
<1> QED  BY <1>1, <1>2

\* A piece of the message goes behind what was sent before it.
LEMMA WriteKeepsPipe ==
  ASSUME PipeInv, NEW c \in Procs, NEW i \in Instances, Write(c, i)
  PROVE  PipeInv'
<1> USE MessageType
<1>1. PICK n \in 1..PipeSize :
         /\ n <= Len(Message) - sent[i]
         /\ buf' = [buf EXCEPT ![i] = @ \o SubSeq(Message, sent[i] + 1, sent[i] + n)]
         /\ sent' = [sent EXCEPT ![i] = @ + n]
  BY DEF Write
<1>2. UNCHANGED <<server, client, got, m_native, pc, tries>> /\ server[i] # None
  BY DEF Write
<1> DEFINE piece == SubSeq(Message, sent[i] + 1, sent[i] + n)
<1>3. buf[i] \in Seq(Nat) /\ got[i] \in Seq(Nat)
  BY DEF PipeInv, PipeTypeOK
<1>4. sent[i] \in 0..Len(Message) /\ sent[i] + n \in sent[i]..Len(Message)
  <2>1. sent[i] \in 0..Len(Message) /\ n \in Nat
    BY PipeAssumption DEF PipeInv, PipeTypeOK
  <2> QED  BY ONLY MessageType, <1>1, <2>1
<1>5. piece \in Seq(Nat)
  <2>1. \A j \in sent[i] + 1 .. sent[i] + n : Message[j] \in Nat
    BY <1>4
  <2> QED  BY <1>4, <2>1, SubSeqProperties
<1>6. SubSeq(Message, 1, sent[i]) \o piece = SubSeq(Message, 1, sent[i] + n)
  BY <1>4, ConcatAdjacentSubSeq, 1 \in 1..Len(Message) + 1, sent[i] \in 1 - 1 .. Len(Message)
<1>7. sent' = [sent EXCEPT ![i] = sent[i] + n] /\ buf' = [buf EXCEPT ![i] = buf[i] \o piece]
  BY <1>1
<1> HIDE DEF piece
<1>8. buf[i] \o piece \in Seq(Nat)
  BY <1>3, <1>5
<1>9. got[i] \o (buf[i] \o piece) = SubSeq(Message, 1, sent[i] + n)
  <2>1. (got[i] \o buf[i]) \o piece = got[i] \o (buf[i] \o piece)
    BY <1>3, <1>5, Regroup
  <2>2. got[i] \o buf[i] = SubSeq(Message, 1, sent[i])
    BY <1>2 DEF PipeInv, StreamIntact
  <2> QED  BY <1>6, <2>1, <2>2
<1>10. PipeTypeOK'
  BY <1>2, <1>4, <1>7, <1>8 DEF PipeInv, PipeTypeOK
<1>11. EndsInv'
  BY <1>2, <1>7 DEF PipeInv, PipeTypeOK, EndsInv
<1>12. StreamIntact'
  BY <1>2, <1>7, <1>9 DEF PipeInv, PipeTypeOK, StreamIntact
<1> QED  BY <1>10, <1>11, <1>12 DEF PipeInv

LEMMA ConnectKeepsPipe ==
  ASSUME PipeInv, NEW c \in Procs, Connect(c)
  PROVE  PipeInv'
<1> USE PipeAssumption DEF PipeInv, PipeTypeOK
<1>1. PICK i \in Instances :
         /\ server[i] \in Procs
         /\ client' = [client EXCEPT ![i] = c]
         /\ pc' = [pc EXCEPT ![c] = "client",
                            ![server[i]] = IF @ = "waiting" THEN "staging" ELSE @]
  BY DEF Connect, Listening
<1>2. tries' = [tries EXCEPT ![c] = 0] /\ UNCHANGED <<server, sent, buf, got, m_native>>
      /\ pc[c] = "connect"
  BY DEF Connect
<1>3. \A p \in Procs : pc'[p] = pc[p] \/ (pc[p] = "waiting" /\ pc'[p] = "staging")
                                   \/ (p = c /\ pc'[p] = "client")
  BY <1>1, <1>2
<1>4. PipeTypeOK'
  <2>1. pc' \in [Procs -> Places]
    BY <1>1, <1>3 DEF Places
  <2>2. client' \in [Instances -> Procs \cup {None, Gone}]
    BY <1>1
  <2>3. tries' \in [Procs -> 0..Attempts]
    BY <1>2
  <2> QED  BY <1>2, <2>1, <2>2, <2>3
<1>5. EndsInv'
  BY <1>2, <1>3 DEF EndsInv, Listeners
<1>6. StreamIntact'
  BY <1>2 DEF StreamIntact
<1> QED  BY <1>4, <1>5, <1>6

LEMMA ClientKeepsPipe ==
  ASSUME PipeInv, NEW c \in Procs, ClientStep(c), pc[c] \notin Listeners
  PROVE  PipeInv'
<1> USE PipeAssumption DEF Goto
<1>0. PipeTypeOK /\ EndsInv /\ m_native[c] = None
  BY DEF PipeInv, EndsInv
<1>1. CASE Connect(c)
  BY <1>1, ConnectKeepsPipe
<1>2. CASE ConnectNotFound(c)
  BY <1>0, <1>2, PipeMoves DEF ConnectNotFound, PipeTypeOK, EndsInv, Places
<1>3. CASE ConnectBusy(c)
  <2>1. UNCHANGED <<ends, m_native>> /\ pc' \in [Procs -> Places] /\ tries' \in [Procs -> 0..Attempts]
    <3>1. CASE tries[c] + 1 < Attempts
      BY <1>0, <1>3, <3>1 DEF ConnectBusy, PipeTypeOK
    <3>2. CASE ~(tries[c] + 1 < Attempts)
      <4>1. tries' = [tries EXCEPT ![c] = 0] /\ pc' = [pc EXCEPT ![c] = "done"]
            /\ UNCHANGED <<ends, m_native>>
        BY <1>3, <3>2 DEF ConnectBusy
      <4> QED  BY <1>0, <4>1 DEF PipeTypeOK, Places
    <3> QED  BY <3>1, <3>2
  <2>2. \A p \in Procs : pc'[p] = pc[p] \/ (p = c /\ pc'[p] = "done")
    BY <1>0, <1>3 DEF ConnectBusy, PipeTypeOK
  <2> QED  BY <1>0, <2>1, <2>2, PipeMoves DEF EndsInv
<1>4. ASSUME NEW i \in Instances, Write(c, i)
      PROVE  PipeInv'
  BY <1>4, WriteKeepsPipe
<1>5. ASSUME NEW i \in Instances, Leave(c, i)
      PROVE  PipeInv'
  <2>1. Closes({}, {c}) /\ pc' = [pc EXCEPT ![c] = "done"] /\ UNCHANGED <<m_native, tries>>
    BY <1>5 DEF Leave
  <2>2. pc' \in [Procs -> Places] /\ tries' \in [Procs -> 0..Attempts]
    BY <1>0, <2>1 DEF PipeTypeOK, Places
  <2>3. \A p \in Procs : pc'[p] = pc[p] \/ {pc[p], pc'[p]} \cap Listeners = {}
    BY <1>0, <2>1 DEF PipeTypeOK, Listeners
  <2>4. \A p \in Procs : m_native[p] \notin {} \/ m_native[p] = None
    OBVIOUS
  <2> QED  BY <2>1, <2>2, <2>3, <2>4, ChannelsClose
<1> QED  BY <1>1, <1>2, <1>3, <1>4, <1>5 DEF ClientStep

\* The end of processes.
LEMMA PipesOfKeepsPipe ==
  ASSUME PipeInv, NEW D, PipesOf(D)
  PROVE  /\ PipeInv'
         /\ pc' = [p \in Procs |-> IF p \in D THEN "idle" ELSE pc[p]]
         /\ \A i \in Instances : server'[i] = IF server[i] \in D THEN None ELSE server[i]
<1>1. /\ Closes({i \in Instances : server[i] \in D}, D)
      /\ m_native' = [p \in Procs |-> IF p \in D THEN None ELSE m_native[p]]
      /\ pc' = [p \in Procs |-> IF p \in D THEN "idle" ELSE pc[p]]
      /\ tries' = [p \in Procs |-> IF p \in D THEN 0 ELSE tries[p]]
  BY DEF PipesOf
<1>2. \A i \in Instances : server'[i] = IF server[i] \in D THEN None ELSE server[i]
  BY <1>1, ClosesKeeps
<1>3. PipeTypeOK'
  <2>1. /\ m_native' \in [Procs -> Instances \cup {None}]
        /\ pc' \in [Procs -> Places]
        /\ tries' \in [Procs -> 0..Attempts]
    BY <1>1, PipeAssumption DEF PipeInv, PipeTypeOK, Places
  <2> QED  BY <1>1, <2>1, ClosesKeeps DEF PipeTypeOK
<1>4. EndsInv'
  <2>1. ASSUME NEW q \in Procs, m_native'[q] # None
        PROVE  pc'[q] \in Listeners /\ server'[m_native'[q]] = q
    BY <1>1, <1>2, <2>1 DEF PipeInv, PipeTypeOK, EndsInv
  <2>2. \A q \in Procs : pc'[q] \in {"serving", "waiting", "staging"} => m_native'[q] # None
    BY <1>1 DEF PipeInv, EndsInv
  <2> QED  BY <1>1, <2>1, <2>2, ClosesKeeps DEF EndsInv
<1> QED  BY <1>1, <1>2, <1>3, <1>4, ClosesKeeps DEF PipeInv

----------------------------------------------------------------------------
(* The lock and the name. *)

Held == {"bind", "serving", "waiting", "staging", "failed", "closed"}
AtChild == {"idle", "connect", "client", "done"}

\* One process at most holds the lock, where a process is tells whether it
\* does, a child never does, and who has a server end does.
HolderInv ==
    /\ m_lock \subseteq mutex
    /\ \A p, q \in m_lock : p = q
    /\ \A p \in Procs : p \in m_lock <=> pc[p] \in Held
    /\ \A h \in Kids : pc[h] \in AtChild
    /\ \A i \in Instances : server[i] # None => server[i] \in m_lock

NameInv == PipeInv /\ LockTypeOK /\ HolderInv

\* A step that does not touch the lock takes nobody in or out of it and gives
\* server ends to its holder only.
LEMMA LockUntouched ==
  ASSUME NameInv, UNCHANGED lockVars,
         \A p \in Procs : pc'[p] = pc[p] \/ {pc[p], pc'[p]} \subseteq Held
                                        \/ {pc[p], pc'[p]} \subseteq AtChild,
         \A h \in Kids : pc'[h] \in AtChild,
         \A i \in Instances : server'[i] = server[i] \/ server'[i] \in m_lock \cup {None}
  PROVE  LockTypeOK' /\ HolderInv'
<1> USE DEF NameInv, lockVars
<1>1. Held \cap AtChild = {}
  BY DEF Held, AtChild
<1>2. LockTypeOK'
  BY DEF LockTypeOK
<1>3. \A p \in Procs : p \in m_lock' <=> pc'[p] \in Held
  BY <1>1 DEF HolderInv
<1>4. /\ m_lock' \subseteq mutex'
      /\ \A p, q \in m_lock' : p = q
      /\ \A i \in Instances : server'[i] # None => server'[i] \in m_lock'
  BY DEF HolderInv
<1> QED  BY <1>2, <1>3, <1>4 DEF HolderInv

LEMMA ServerKeepsName ==
  ASSUME NameInv, NEW p \in Apps, ServerStep(p) \/ CloseListener(p), UNCHANGED lockVars
  PROVE  NameInv'
<1> USE DEF Goto
<1>0. PipeInv /\ HolderInv /\ p \in Procs /\ p \notin Kids /\ pc \in [Procs -> Places]
  BY DEF NameInv, PipeInv, PipeTypeOK, Apps
<1>1. PipeInv'
  BY <1>0, ServerKeepsPipe, CloseListenerKeepsPipe
<1>2. pc[p] \in Held /\ \E where \in Held : pc' = [pc EXCEPT ![p] = where]
  BY DEF ServerStep, Bind, BindFails, AcceptWaits, AcceptPending, AcceptFails, Stage,
         StageFails, CloseListener, Held
<1>3. p \in m_lock
  BY <1>0, <1>2 DEF HolderInv
<1>4. \A i \in Instances : server'[i] = server[i] \/ server'[i] \in m_lock \cup {None}
  <2>1. CASE CreateInstance(p)
    BY <1>0, <1>3, <2>1, CreateInstanceKeeps DEF PipeInv, PipeTypeOK
  <2>2. CASE \E S : Closes(S, {})
    BY <1>0, <2>2, ClosesKeeps
  <2>3. CASE UNCHANGED server
    BY <2>3
  <2> QED
    BY <2>1, <2>2, <2>3
    DEF ServerStep, Bind, BindFails, AcceptWaits, AcceptPending, AcceptFails, Stage,
        StageFails, CloseListener, ends
<1>5. \A h \in Kids : pc'[h] \in AtChild
  BY <1>0, <1>2, KidsAssumption DEF HolderInv
<1>6. \A q \in Procs : pc'[q] = pc[q] \/ {pc[q], pc'[q]} \subseteq Held
  BY <1>0, <1>2
<1>7. LockTypeOK' /\ HolderInv'
  BY <1>4, <1>5, <1>6, LockUntouched
<1> QED  BY <1>1, <1>7 DEF NameInv

LEMMA ReceiveKeepsName ==
  ASSUME NameInv, NEW i \in Instances, Read(i) \/ ReadEof(i) \/ CloseChannel(i), UNCHANGED lockVars
  PROVE  NameInv'
<1>1. PipeInv /\ PipeInv'
  BY ReceiveKeepsPipe DEF NameInv
<1>2. UNCHANGED pc
  BY DEF Read, ReadEof, CloseChannel
<1>3. \A j \in Instances : server'[j] = server[j] \/ server'[j] \in m_lock \cup {None}
  <2>1. CASE UNCHANGED server
    BY <2>1
  <2>2. CASE Closes({i}, {})
    BY <1>1, <2>2, ClosesKeeps
  <2> QED  BY <2>1, <2>2 DEF Read, ReadEof, CloseChannel
<1>4. \A h \in Kids : pc'[h] \in AtChild
  BY <1>2 DEF NameInv, HolderInv
<1>5. LockTypeOK' /\ HolderInv'
  BY <1>2, <1>3, <1>4, LockUntouched
<1> QED  BY <1>1, <1>5 DEF NameInv

LEMMA ClientKeepsName ==
  ASSUME NameInv, NEW c \in Kids, ClientStep(c), UNCHANGED lockVars
  PROVE  NameInv'
<1> USE DEF Goto
<1>0. /\ PipeInv /\ HolderInv /\ c \in Procs /\ pc \in [Procs -> Places]
      /\ server \in [Instances -> Procs \cup {None}] /\ pc[c] \in AtChild
  BY KidsAssumption DEF NameInv, PipeInv, PipeTypeOK, HolderInv
<1>1. PipeInv'
  <2>1. pc[c] \notin Listeners
    BY <1>0 DEF AtChild, Listeners
  <2> QED  BY <1>0, <2>1, ClientKeepsPipe
<1>2. \A p \in Procs : pc'[p] = pc[p] \/ {pc[p], pc'[p]} \subseteq Held
                                     \/ (p = c /\ pc'[p] \in AtChild)
  <2>1. CASE Connect(c)
    <3>1. PICK i \in Listening :
             pc' = [pc EXCEPT ![c] = "client",
                              ![server[i]] = IF @ = "waiting" THEN "staging" ELSE @]
      BY <2>1 DEF Connect
    <3>2. \A p \in Procs : pc'[p] = pc[p] \/ (pc[p] = "waiting" /\ pc'[p] = "staging")
                                        \/ (p = c /\ pc'[p] \in {"client", "staging"})
      BY <1>0, <3>1
    <3>3. server[i] # c
      BY <1>0, <3>1 DEF Listening, HolderInv, Held, AtChild
    <3>4. pc'[c] = "client"
      BY <1>0, <3>1, <3>3
    <3> QED  BY <3>2, <3>4 DEF Held, AtChild
  <2>2. CASE ~Connect(c)
    <3>1. UNCHANGED pc \/ pc' = [pc EXCEPT ![c] = "done"]
      BY <2>2 DEF ClientStep, ConnectNotFound, ConnectBusy, Write, Leave
    <3> QED  BY <1>0, <3>1 DEF AtChild
  <2> QED  BY <2>1, <2>2
<1>3. \A h \in Kids : pc'[h] \in AtChild
  <2>1. Held \cap AtChild = {}
    BY DEF Held, AtChild
  <2> QED  BY <1>0, <1>2, <2>1, KidsAssumption DEF HolderInv
<1>4. \A i \in Instances : server'[i] = server[i] \/ server'[i] \in m_lock \cup {None}
  <2>1. CASE UNCHANGED server
    BY <2>1
  <2>2. CASE \E S, C : Closes(S, C)
    BY <1>0, <2>2, ClosesKeeps
  <2> QED  BY <2>1, <2>2 DEF ClientStep, Connect, ConnectNotFound, ConnectBusy, Write, Leave, ends
<1>5. LockTypeOK' /\ HolderInv'
  BY <1>0, <1>2, <1>3, <1>4, LockUntouched
<1> QED  BY <1>1, <1>5 DEF NameInv

\* The end of children.
LEMMA ChildrenKeepName ==
  ASSUME NameInv, NEW D \in SUBSET Kids, PipesOf(D), UNCHANGED lockVars
  PROVE  NameInv'
<1>0. PipeInv /\ HolderInv /\ D \subseteq Procs
  BY KidsAssumption DEF NameInv
<1>1. /\ PipeInv'
      /\ pc' = [p \in Procs |-> IF p \in D THEN "idle" ELSE pc[p]]
      /\ \A i \in Instances : server'[i] = IF server[i] \in D THEN None ELSE server[i]
  BY <1>0, PipesOfKeepsPipe
<1>2. \A h \in Kids : pc'[h] \in AtChild
  BY <1>0, <1>1, KidsAssumption DEF HolderInv, AtChild
<1>3. \A p \in Procs : pc'[p] = pc[p] \/ {pc[p], pc'[p]} \subseteq AtChild
  BY <1>0, <1>1 DEF HolderInv, AtChild
<1>4. LockTypeOK' /\ HolderInv'
  BY <1>1, <1>2, <1>3, LockUntouched
<1> QED  BY <1>1, <1>4 DEF NameInv

\* acquire and release, around a listener that is not there.
LEMMA ProgramKeepsName ==
  ASSUME NameInv, NEW p \in Apps, Program(p)
  PROVE  NameInv'
<1> USE DEF Goto
<1>0. /\ PipeInv /\ HolderInv /\ LockTypeOK /\ p \in Procs /\ p \notin Kids
      /\ pc \in [Procs -> Places] /\ tries \in [Procs -> 0..Attempts]
      /\ server \in [Instances -> Procs \cup {None}]
  BY DEF NameInv, PipeInv, PipeTypeOK, Apps
<1>1. UNCHANGED <<ends, m_native, tries>>
  BY DEF Program, Acquire, Refuse, CloseRefused, Release
<1>2. PICK where \in {"idle", "refused", "bind"} : pc' = [pc EXCEPT ![p] = where]
  BY DEF Program, Acquire, Refuse, CloseRefused, Release
<1>3. pc[p] \in {"idle", "refused", "closed"} /\ m_native[p] = None
  <2>1. pc[p] \in {"idle", "refused", "closed"}
    BY DEF Program, Acquire, Refuse, CloseRefused, Release
  <2> QED  BY <1>0, <2>1 DEF PipeInv, EndsInv, Listeners
<1>4. PipeInv'
  <2>1. pc' \in [Procs -> Places]
    BY <1>0, <1>2 DEF Places
  <2>2. \A q \in Procs : m_native[q] # None => pc'[q] \in Listeners
    BY <1>0, <1>2, <1>3 DEF PipeInv, EndsInv
  <2>3. \A q \in Procs : pc'[q] \in {"serving", "waiting", "staging"} => m_native[q] # None
    BY <1>0, <1>2 DEF PipeInv, EndsInv
  <2> QED  BY <1>0, <1>1, <2>1, <2>2, <2>3, PipeMoves
<1>5. \A h \in Kids : pc'[h] \in AtChild
  BY <1>0, <1>2, KidsAssumption DEF HolderInv
<1>6. UNCHANGED server
  BY <1>1 DEF ends
<1>7. CASE Acquire(p)
  <2>1. mutex = {} /\ mutex' = {p} /\ m_lock' = m_lock \cup {p} /\ pc' = [pc EXCEPT ![p] = "bind"]
    BY <1>7 DEF Acquire, AcquireCreated
  <2>2. m_lock = {} /\ m_lock' = {p}
    BY <1>0, <2>1 DEF HolderInv
  <2>3. \A q \in Procs : q \in m_lock' <=> pc'[q] \in Held
    BY <1>0, <2>1, <2>2 DEF HolderInv, Held
  <2>4. \A i \in Instances : server'[i] = None
    BY <1>0, <1>6, <2>2 DEF HolderInv
  <2>5. LockTypeOK' /\ HolderInv'
    BY <1>0, <1>5, <2>1, <2>2, <2>3, <2>4 DEF HolderInv, LockTypeOK
  <2> QED  BY <1>4, <2>5 DEF NameInv
<1>8. CASE Refuse(p)
  <2>1. mutex' = mutex \cup {p} /\ m_lock' = m_lock /\ pc' = [pc EXCEPT ![p] = "refused"] /\ pc[p] = "idle"
    BY <1>8 DEF Refuse, AcquireRefused
  <2>2. \A q \in Procs : q \in m_lock' <=> pc'[q] \in Held
    BY <1>0, <2>1 DEF HolderInv, Held
  <2>3. LockTypeOK' /\ HolderInv'
    BY <1>0, <1>5, <1>6, <2>1, <2>2 DEF HolderInv, LockTypeOK
  <2> QED  BY <1>4, <2>3 DEF NameInv
<1>9. CASE CloseRefused(p) \/ Release(p)
  <2>1. mutex' = mutex \ {p} /\ m_lock' = m_lock \ {p} /\ pc' = [pc EXCEPT ![p] = "idle"]
    BY <1>9 DEF CloseRefused, Release, DropLock
  <2>2. \A q \in Procs : q \in m_lock' <=> pc'[q] \in Held
    BY <1>0, <2>1 DEF HolderInv, Held
  <2>3. \A i \in Instances : server[i] # p
    <3>1. CASE CloseRefused(p)
      BY <1>0, <3>1, PipeAssumption DEF CloseRefused, HolderInv, Held
    <3>2. CASE Release(p)
      BY <1>3, <3>2, PipeAssumption DEF Release, Channels
    <3> QED  BY <1>9, <3>1, <3>2
  <2>4. LockTypeOK' /\ HolderInv'
    BY <1>0, <1>5, <1>6, <2>1, <2>2, <2>3 DEF HolderInv, LockTypeOK
  <2> QED  BY <1>4, <2>4 DEF NameInv
<1> QED  BY <1>7, <1>8, <1>9 DEF Program

LEMMA CallKeepsName ==
  ASSUME NameInv, NEW h \in Kids, Call(h)
  PROVE  NameInv'
<1>0. PipeInv /\ HolderInv /\ h \in Procs /\ pc \in [Procs -> Places] /\ tries \in [Procs -> 0..Attempts]
  BY KidsAssumption DEF NameInv, PipeInv, PipeTypeOK
<1>1. pc[h] = "idle" /\ pc' = [pc EXCEPT ![h] = "connect"] /\ UNCHANGED <<ends, m_native, tries, lockVars>>
  BY DEF Call, Goto
<1>2. m_native[h] = None
  BY <1>0, <1>1 DEF PipeInv, EndsInv, Listeners
<1>3. PipeInv'
  <2>1. pc' \in [Procs -> Places]
    BY <1>0, <1>1 DEF Places
  <2>2. \A q \in Procs : m_native[q] # None => pc'[q] \in Listeners
    BY <1>0, <1>1, <1>2 DEF PipeInv, EndsInv
  <2>3. \A q \in Procs : pc'[q] \in {"serving", "waiting", "staging"} => m_native[q] # None
    BY <1>0, <1>1 DEF PipeInv, EndsInv
  <2> QED  BY <1>0, <1>1, <2>1, <2>2, <2>3, PipeMoves
<1>4. \A q \in Procs : pc'[q] = pc[q] \/ {pc[q], pc'[q]} \subseteq AtChild
  BY <1>0, <1>1 DEF AtChild
<1>5. \A g \in Kids : pc'[g] \in AtChild
  BY <1>0, <1>4, KidsAssumption DEF HolderInv
<1>6. UNCHANGED lockVars /\ UNCHANGED server
  BY <1>1 DEF ends
<1>7. LockTypeOK' /\ HolderInv'
  BY <1>4, <1>5, <1>6, LockUntouched
<1> QED  BY <1>3, <1>7 DEF NameInv

LEMMA CrashKeepsName ==
  ASSUME NameInv, NEW p \in Apps, PipesOf({p}), DropLock(p)
  PROVE  NameInv'
<1>0. PipeInv /\ HolderInv /\ LockTypeOK /\ p \in Procs /\ p \notin Kids
  BY DEF NameInv, Apps
<1>1. /\ PipeInv'
      /\ pc' = [q \in Procs |-> IF q \in {p} THEN "idle" ELSE pc[q]]
      /\ \A i \in Instances : server'[i] = IF server[i] \in {p} THEN None ELSE server[i]
  BY <1>0, PipesOfKeepsPipe
<1>2. mutex' = mutex \ {p} /\ m_lock' = m_lock \ {p}
  BY DEF DropLock
<1>3. \A q \in Procs : q \in m_lock' <=> pc'[q] \in Held
  BY <1>0, <1>1, <1>2 DEF HolderInv, Held
<1>4. \A h \in Kids : pc'[h] \in AtChild
  BY <1>0, <1>1, KidsAssumption DEF HolderInv
<1>5. LockTypeOK' /\ HolderInv'
  BY <1>0, <1>1, <1>2, <1>3, <1>4 DEF HolderInv, LockTypeOK
<1> QED  BY <1>1, <1>5 DEF NameInv

LEMMA NameUntouched ==
  ASSUME NameInv, UNCHANGED pipeVars, UNCHANGED lockVars
  PROVE  NameInv'
<1>1. PipeInv'
  BY DEF NameInv, PipeInv, PipeTypeOK, EndsInv, StreamIntact, pipeVars
<1>2. LockTypeOK' /\ HolderInv'
  BY DEF NameInv, LockTypeOK, HolderInv, pipeVars, lockVars
<1> QED  BY <1>1, <1>2 DEF NameInv

----------------------------------------------------------------------------
(* Children. *)

\* A spawn that has not created its child has none; a child has handles only
\* while it lives; the parent has a child's end only until the spawn is over,
\* or for ever after one that leaked; a failed spawn has nothing.
HandleInv ==
    /\ \A h \in Kids : parent /\ step[h] \in {"none", "in", "ready"} => kid[h] = "none"
    /\ \A g, h \in Kids, s \in Streams : h \in childEnds[g][s] => kid[h] \in Alive
    /\ \A h \in Kids, s \in Streams :
         Parent \in childEnds[h][s] => step[h] \in InProgress \cup {"leaked"}
    /\ \A h \in Kids : step[h] \in {"none", "failed"} => parentEnds[h] = {}
    /\ \A h \in Kids : step[h] = "failed" => kid[h] \in {"none", "ended"}

\* A grouped child runs in the job only, and the job is open while a spawn
\* into it goes on.
JobInv ==
    /\ \A h \in Grouped : kid[h] = "running" => h \in job /\ group
    /\ \A h \in Kids : step[h] = "enrolled" /\ kid[h] \in Alive => h \in job /\ group
    /\ \A h \in Kids : step[h] \in {"enrolled", "resumed"} => h \in Grouped
    /\ ~parent => \A h \in Kids : step[h] = "none"

ChildInv == ProcTypeOK /\ HandleInv /\ JobInv

\* What the end of processes leaves.
LEMMA EndsLeaves ==
  ASSUME ProcTypeOK, NEW D, Ends(D)
  PROVE  /\ kid' \in [Kids -> Alive \cup {"none", "ended"}]
         /\ childEnds' \in [Kids -> [Streams -> SUBSET Holders]]
         /\ job' \subseteq Kids
         /\ \A h \in Kids : /\ kid'[h] \in Alive => h \notin D /\ kid'[h] = kid[h]
                            /\ kid'[h] = kid[h] \/ kid'[h] = "ended"
                            /\ kid[h] = "none" => kid'[h] = "none"
                            /\ h \notin D => kid'[h] = kid[h]
         /\ \A h \in Kids, s \in Streams : childEnds'[h][s] = childEnds[h][s] \ D
         /\ job' = job \ D
  BY DEF ProcTypeOK, Ends, Alive

\* Ends of processes alone, the parent's included, keep the handles in order.
LEMMA EndsKeepsHandles ==
  ASSUME ProcTypeOK, HandleInv, NEW D, Ends(D),
         parent' => parent,
         \A h \in Kids : step'[h] = step[h] \/ (step'[h] = "none" /\ ~parent' /\ Parent \in D),
         \A h \in Kids : step'[h] \in {"none", "failed"} =>
             \/ parentEnds'[h] = {}
             \/ (parentEnds'[h] = parentEnds[h] /\ step'[h] = step[h])
  PROVE  HandleInv'
<1> USE EndsLeaves
<1>1. \A h \in Kids : parent' /\ step'[h] \in {"none", "in", "ready"} => kid'[h] = "none"
  BY DEF HandleInv
<1>2. \A g, h \in Kids, s \in Streams : h \in childEnds'[g][s] => kid'[h] \in Alive
  BY DEF HandleInv
<1>3. \A h \in Kids, s \in Streams :
         Parent \in childEnds'[h][s] => step'[h] \in InProgress \cup {"leaked"}
  BY DEF HandleInv
<1>4. \A h \in Kids : step'[h] \in {"none", "failed"} => parentEnds'[h] = {}
  BY DEF HandleInv
<1>5. \A h \in Kids : step'[h] = "failed" => kid'[h] \in {"none", "ended"}
  BY DEF HandleInv
<1> QED  BY <1>1, <1>2, <1>3, <1>4, <1>5 DEF HandleInv

\* prepare_stdio: the first ends of a stream belong to the parent alone.
LEMMA PreparedEnds ==
  ASSUME ProcTypeOK, NEW h \in Kids, NEW s \in Streams, PrepareStdio(h, s)
  PROVE  /\ childEnds' \in [Kids -> [Streams -> SUBSET Holders]]
         /\ parentEnds' \in [Kids -> SUBSET Streams]
         /\ \A f \in Kids, t \in Streams :
              childEnds'[f][t] = IF f = h /\ t = s THEN {Parent} ELSE childEnds[f][t]
         /\ \A f \in Kids : f # h => parentEnds'[f] = parentEnds[f]
<1> USE DEF ProcTypeOK, PrepareStdio
<1>1. childEnds' = [childEnds EXCEPT ![h] = [@ EXCEPT ![s] = {Parent}]]
  OBVIOUS
<1>2. [childEnds[h] EXCEPT ![s] = {Parent}] \in [Streams -> SUBSET Holders]
  BY DEF Holders
<1>3. childEnds' \in [Kids -> [Streams -> SUBSET Holders]]
  BY <1>1, <1>2
<1>4. \A f \in Kids, t \in Streams :
         childEnds'[f][t] = IF f = h /\ t = s THEN {Parent} ELSE childEnds[f][t]
  BY <1>1
<1>5. parentEnds' \in [Kids -> SUBSET Streams] /\ \A f \in Kids : f # h => parentEnds'[f] = parentEnds[f]
  OBVIOUS
<1> QED  BY <1>3, <1>4, <1>5

LEMMA PrepareInKeeps ==
  ASSUME ChildInv, NEW h \in Kids, PrepareIn(h)
  PROVE  ChildInv'
<1> USE KidsAssumption DEF ChildInv
<1>0. /\ parent /\ step[h] = "none" /\ PrepareStdio(h, "in") /\ "in" \in Streams
      /\ step' = [step EXCEPT ![h] = "in"]
      /\ UNCHANGED <<parent, kid, job, group, m_process>>
  BY DEF PrepareIn, Streams
<1>1. ProcTypeOK'
  BY <1>0, PreparedEnds DEF ProcTypeOK, InProgress
<1>2. HandleInv'
  <2>1. \A g \in Kids : step'[g] = step[g] \/ (g = h /\ step'[g] = "in")
    BY <1>0 DEF ProcTypeOK
  <2>2. \A g \in Kids : parent' /\ step'[g] \in {"none", "in", "ready"} => kid'[g] = "none"
    BY <1>0, <2>1 DEF HandleInv
  <2>3. \A f, g \in Kids, s \in Streams : g \in childEnds'[f][s] => kid'[g] \in Alive
    BY <1>0, PreparedEnds DEF HandleInv
  <2>4. \A g \in Kids, s \in Streams :
           Parent \in childEnds'[g][s] => step'[g] \in InProgress \cup {"leaked"}
    BY <1>0, <2>1, PreparedEnds DEF HandleInv, ProcTypeOK, InProgress
  <2>5. \A g \in Kids : step'[g] \in {"none", "failed"} => parentEnds'[g] = {}
    BY <1>0, <2>1, PreparedEnds DEF HandleInv, ProcTypeOK
  <2>6. \A g \in Kids : step'[g] = "failed" => kid'[g] \in {"none", "ended"}
    BY <1>0, <2>1 DEF HandleInv
  <2> QED  BY <2>2, <2>3, <2>4, <2>5, <2>6 DEF HandleInv
<1>3. JobInv'
  BY <1>0 DEF JobInv, ProcTypeOK
<1> QED  BY <1>1, <1>2, <1>3

LEMMA PrepareOutKeeps ==
  ASSUME ChildInv, NEW h \in Kids, PrepareOut(h)
  PROVE  ChildInv'
<1> USE KidsAssumption DEF ChildInv
<1>0. /\ parent /\ step[h] = "in" /\ PrepareStdio(h, "out") /\ "out" \in Streams
      /\ step' = [step EXCEPT ![h] = "ready"]
      /\ UNCHANGED <<parent, kid, job, group, m_process>>
  BY DEF PrepareOut, Streams
<1>1. ProcTypeOK'
  BY <1>0, PreparedEnds DEF ProcTypeOK, InProgress
<1>2. HandleInv'
  <2>1. \A g \in Kids : step'[g] = step[g] \/ (g = h /\ step'[g] = "ready")
    BY <1>0 DEF ProcTypeOK
  <2>2. \A g \in Kids : parent' /\ step'[g] \in {"none", "in", "ready"} => kid'[g] = "none"
    BY <1>0, <2>1 DEF HandleInv
  <2>3. \A f, g \in Kids, s \in Streams : g \in childEnds'[f][s] => kid'[g] \in Alive
    BY <1>0, PreparedEnds DEF HandleInv
  <2>4. \A g \in Kids, s \in Streams :
           Parent \in childEnds'[g][s] => step'[g] \in InProgress \cup {"leaked"}
    BY <1>0, <2>1, PreparedEnds DEF HandleInv, ProcTypeOK, InProgress
  <2>5. \A g \in Kids : step'[g] \in {"none", "failed"} => parentEnds'[g] = {}
    BY <1>0, <2>1, PreparedEnds DEF HandleInv, ProcTypeOK
  <2>6. \A g \in Kids : step'[g] = "failed" => kid'[g] \in {"none", "ended"}
    BY <1>0, <2>1 DEF HandleInv
  <2> QED  BY <2>2, <2>3, <2>4, <2>5, <2>6 DEF HandleInv
<1>3. JobInv'
  BY <1>0 DEF JobInv, ProcTypeOK
<1> QED  BY <1>1, <1>2, <1>3

LEMMA PrepareFailsKeeps ==
  ASSUME ChildInv, NEW h \in Kids, PrepareFails(h)
  PROVE  ChildInv'
<1> USE KidsAssumption DEF ChildInv, ProcTypeOK
<1>1. ProcTypeOK'
  BY DEF PrepareFails, InProgress, Alive, Holders, Streams
<1>2. HandleInv'
  <2>1. \A g \in Kids : parent' /\ step'[g] \in {"none", "in", "ready"} => kid'[g] = "none"
    BY DEF HandleInv, PrepareFails, InProgress, Alive, Streams
  <2>2. \A f, g \in Kids, s \in Streams : g \in childEnds'[f][s] => kid'[g] \in Alive
    BY DEF HandleInv, PrepareFails, InProgress, Alive, Streams
  <2>3. \A g \in Kids, s \in Streams : Parent \in childEnds'[g][s] => step'[g] \in InProgress \cup {"leaked"}
    BY DEF HandleInv, PrepareFails, InProgress, Alive, Streams
  <2>4. \A g \in Kids : step'[g] \in {"none", "failed"} => parentEnds'[g] = {}
    BY DEF HandleInv, PrepareFails, InProgress, Alive, Streams
  <2>5. \A g \in Kids : step'[g] = "failed" => kid'[g] \in {"none", "ended"}
    BY DEF HandleInv, PrepareFails, InProgress, Alive, Streams
  <2> QED  BY <2>1, <2>2, <2>3, <2>4, <2>5 DEF HandleInv
<1>3. JobInv'
  BY DEF JobInv, HandleInv, PrepareFails, Alive
<1> QED  BY <1>1, <1>2, <1>3

\* The child gets ends that the parent has, and is alive.
LEMMA CreateKeeps ==
  ASSUME ChildInv, NEW h \in Kids, Create(h)
  PROVE  ChildInv'
<1> USE KidsAssumption DEF ChildInv, ProcTypeOK
<1>1. ProcTypeOK'
  BY DEF Create, InProgress, Alive, Holders, Streams
<1>2. HandleInv'
  <2>1. \A g \in Kids : parent' /\ step'[g] \in {"none", "in", "ready"} => kid'[g] = "none"
    BY DEF HandleInv, Create, InProgress, Alive, Streams
  <2>2. \A f, g \in Kids, s \in Streams : g \in childEnds'[f][s] => kid'[g] \in Alive
    BY DEF HandleInv, Create, InProgress, Alive, Streams
  <2>3. \A g \in Kids, s \in Streams : Parent \in childEnds'[g][s] => step'[g] \in InProgress \cup {"leaked"}
    BY DEF HandleInv, Create, InProgress, Alive, Streams
  <2>4. \A g \in Kids : step'[g] \in {"none", "failed"} => parentEnds'[g] = {}
    BY DEF HandleInv, Create, InProgress, Alive, Streams
  <2>5. \A g \in Kids : step'[g] = "failed" => kid'[g] \in {"none", "ended"}
    BY DEF HandleInv, Create, InProgress, Alive, Streams
  <2> QED  BY <2>1, <2>2, <2>3, <2>4, <2>5 DEF HandleInv
<1>3. JobInv'
  BY DEF JobInv, HandleInv, Create, Alive
<1> QED  BY <1>1, <1>2, <1>3

\* The clean-ups leave nothing of a failed spawn.
LEMMA CreateFailsKeeps ==
  ASSUME ChildInv, NEW h \in Kids, CreateFails(h)
  PROVE  ChildInv'
<1> USE KidsAssumption DEF ChildInv, ProcTypeOK, CleanupStdio
<1>1. ProcTypeOK'
  BY DEF CreateFails, InProgress, Alive, Holders, Streams
<1>2. HandleInv'
  <2>1. \A g \in Kids : parent' /\ step'[g] \in {"none", "in", "ready"} => kid'[g] = "none"
    BY DEF HandleInv, CreateFails, InProgress, Alive, Streams
  <2>2. \A f, g \in Kids, s \in Streams : g \in childEnds'[f][s] => kid'[g] \in Alive
    BY DEF HandleInv, CreateFails, InProgress, Alive, Streams
  <2>3. \A g \in Kids, s \in Streams : Parent \in childEnds'[g][s] => step'[g] \in InProgress \cup {"leaked"}
    BY DEF HandleInv, CreateFails, InProgress, Alive, Streams
  <2>4. \A g \in Kids : step'[g] \in {"none", "failed"} => parentEnds'[g] = {}
    BY DEF HandleInv, CreateFails, InProgress, Alive, Streams
  <2>5. \A g \in Kids : step'[g] = "failed" => kid'[g] \in {"none", "ended"}
    BY DEF HandleInv, CreateFails, InProgress, Alive, Streams
  <2> QED  BY <2>1, <2>2, <2>3, <2>4, <2>5 DEF HandleInv
<1>3. JobInv'
  BY DEF JobInv, HandleInv, CreateFails, Alive
<1> QED  BY <1>1, <1>2, <1>3

LEMMA EnrollFailsKeeps ==
  ASSUME ChildInv, NEW h \in Kids, EnrollFails(h)
  PROVE  ChildInv'
<1> USE KidsAssumption DEF ChildInv, ProcTypeOK, CleanupStdio
<1>1. ProcTypeOK'
  BY DEF EnrollFails, InProgress, Alive, Holders, Streams
<1>2. HandleInv'
  <2>1. \A g \in Kids : parent' /\ step'[g] \in {"none", "in", "ready"} => kid'[g] = "none"
    BY DEF HandleInv, EnrollFails, InProgress, Alive, Streams
  <2>2. \A f, g \in Kids, s \in Streams : g \in childEnds'[f][s] => kid'[g] \in Alive
    BY DEF HandleInv, EnrollFails, InProgress, Alive, Streams
  <2>3. \A g \in Kids, s \in Streams : Parent \in childEnds'[g][s] => step'[g] \in InProgress \cup {"leaked"}
    BY DEF HandleInv, EnrollFails, InProgress, Alive, Streams
  <2>4. \A g \in Kids : step'[g] \in {"none", "failed"} => parentEnds'[g] = {}
    BY DEF HandleInv, EnrollFails, InProgress, Alive, Streams
  <2>5. \A g \in Kids : step'[g] = "failed" => kid'[g] \in {"none", "ended"}
    BY DEF HandleInv, EnrollFails, InProgress, Alive, Streams
  <2> QED  BY <2>1, <2>2, <2>3, <2>4, <2>5 DEF HandleInv
<1>3. JobInv'
  BY DEF JobInv, HandleInv, EnrollFails, Alive
<1> QED  BY <1>1, <1>2, <1>3

\* The child runs once it is in the job.
LEMMA EnrollKeeps ==
  ASSUME ChildInv, NEW h \in Kids, Enroll(h)
  PROVE  ChildInv'
<1> USE KidsAssumption DEF ChildInv, ProcTypeOK
<1>1. ProcTypeOK'
  BY DEF Enroll, InProgress, Alive, Holders, Streams
<1>2. HandleInv'
  <2>1. \A g \in Kids : parent' /\ step'[g] \in {"none", "in", "ready"} => kid'[g] = "none"
    BY DEF HandleInv, Enroll, InProgress, Alive, Streams
  <2>2. \A f, g \in Kids, s \in Streams : g \in childEnds'[f][s] => kid'[g] \in Alive
    BY DEF HandleInv, Enroll, InProgress, Alive, Streams
  <2>3. \A g \in Kids, s \in Streams : Parent \in childEnds'[g][s] => step'[g] \in InProgress \cup {"leaked"}
    BY DEF HandleInv, Enroll, InProgress, Alive, Streams
  <2>4. \A g \in Kids : step'[g] \in {"none", "failed"} => parentEnds'[g] = {}
    BY DEF HandleInv, Enroll, InProgress, Alive, Streams
  <2>5. \A g \in Kids : step'[g] = "failed" => kid'[g] \in {"none", "ended"}
    BY DEF HandleInv, Enroll, InProgress, Alive, Streams
  <2> QED  BY <2>1, <2>2, <2>3, <2>4, <2>5 DEF HandleInv
<1>3. JobInv'
  BY DEF JobInv, HandleInv, Enroll, Alive
<1> QED  BY <1>1, <1>2, <1>3

LEMMA ResumeKeeps ==
  ASSUME ChildInv, NEW h \in Kids, Resume(h)
  PROVE  ChildInv'
<1> USE KidsAssumption DEF ChildInv, ProcTypeOK
<1>1. ProcTypeOK'
  BY DEF Resume, InProgress, Alive, Holders, Streams
<1>2. HandleInv'
  <2>1. \A g \in Kids : parent' /\ step'[g] \in {"none", "in", "ready"} => kid'[g] = "none"
    BY DEF HandleInv, Resume, InProgress, Alive, Streams
  <2>2. \A f, g \in Kids, s \in Streams : g \in childEnds'[f][s] => kid'[g] \in Alive
    BY DEF HandleInv, Resume, InProgress, Alive, Streams
  <2>3. \A g \in Kids, s \in Streams : Parent \in childEnds'[g][s] => step'[g] \in InProgress \cup {"leaked"}
    BY DEF HandleInv, Resume, InProgress, Alive, Streams
  <2>4. \A g \in Kids : step'[g] \in {"none", "failed"} => parentEnds'[g] = {}
    BY DEF HandleInv, Resume, InProgress, Alive, Streams
  <2>5. \A g \in Kids : step'[g] = "failed" => kid'[g] \in {"none", "ended"}
    BY DEF HandleInv, Resume, InProgress, Alive, Streams
  <2> QED  BY <2>1, <2>2, <2>3, <2>4, <2>5 DEF HandleInv
<1>3. JobInv'
  BY DEF JobInv, HandleInv, Resume, Alive
<1> QED  BY <1>1, <1>2, <1>3

LEMMA ReturnKeeps ==
  ASSUME ChildInv, NEW h \in Kids, Return(h)
  PROVE  ChildInv'
<1> USE KidsAssumption DEF ChildInv, ProcTypeOK
<1>1. ProcTypeOK'
  BY DEF Return, InProgress, Alive, Holders, Streams
<1>2. HandleInv'
  <2>1. \A g \in Kids : parent' /\ step'[g] \in {"none", "in", "ready"} => kid'[g] = "none"
    BY DEF HandleInv, Return, InProgress, Alive, Streams
  <2>2. \A f, g \in Kids, s \in Streams : g \in childEnds'[f][s] => kid'[g] \in Alive
    BY DEF HandleInv, Return, InProgress, Alive, Streams
  <2>3. \A g \in Kids, s \in Streams : Parent \in childEnds'[g][s] => step'[g] \in InProgress \cup {"leaked"}
    BY DEF HandleInv, Return, InProgress, Alive, Streams
  <2>4. \A g \in Kids : step'[g] \in {"none", "failed"} => parentEnds'[g] = {}
    BY DEF HandleInv, Return, InProgress, Alive, Streams
  <2>5. \A g \in Kids : step'[g] = "failed" => kid'[g] \in {"none", "ended"}
    BY DEF HandleInv, Return, InProgress, Alive, Streams
  <2> QED  BY <2>1, <2>2, <2>3, <2>4, <2>5 DEF HandleInv
<1>3. JobInv'
  BY DEF JobInv, HandleInv, Return, Alive
<1> QED  BY <1>1, <1>2, <1>3

LEMMA DetachKeeps ==
  ASSUME ChildInv, NEW h \in Kids, Detach(h)
  PROVE  ChildInv'
<1> USE KidsAssumption DEF ChildInv, ProcTypeOK
<1>1. ProcTypeOK'
  BY DEF Detach, InProgress, Alive, Holders, Streams
<1>2. HandleInv'
  <2>1. \A g \in Kids : parent' /\ step'[g] \in {"none", "in", "ready"} => kid'[g] = "none"
    BY DEF HandleInv, Detach, InProgress, Alive, Streams
  <2>2. \A f, g \in Kids, s \in Streams : g \in childEnds'[f][s] => kid'[g] \in Alive
    BY DEF HandleInv, Detach, InProgress, Alive, Streams
  <2>3. \A g \in Kids, s \in Streams : Parent \in childEnds'[g][s] => step'[g] \in InProgress \cup {"leaked"}
    BY DEF HandleInv, Detach, InProgress, Alive, Streams
  <2>4. \A g \in Kids : step'[g] \in {"none", "failed"} => parentEnds'[g] = {}
    BY DEF HandleInv, Detach, InProgress, Alive, Streams
  <2>5. \A g \in Kids : step'[g] = "failed" => kid'[g] \in {"none", "ended"}
    BY DEF HandleInv, Detach, InProgress, Alive, Streams
  <2> QED  BY <2>1, <2>2, <2>3, <2>4, <2>5 DEF HandleInv
<1>3. JobInv'
  BY DEF JobInv, HandleInv, Detach, Alive
<1> QED  BY <1>1, <1>2, <1>3

\* One child ends, by itself or by terminate(), or its pipes close.
LEMMA ChildEndsKeeps ==
  ASSUME ChildInv, NEW h \in Kids, Terminate(h) \/ Exits(h)
  PROVE  ChildInv'
<1>1. Ends({h}) /\ UNCHANGED <<parent, step, group, parentEnds, m_process>>
  BY DEF Terminate, Exits
<1>2. ProcTypeOK'
  BY <1>1, EndsLeaves DEF ChildInv, ProcTypeOK
<1>3. HandleInv'
  BY <1>1, EndsKeepsHandles DEF ChildInv
<1>4. JobInv'
  BY <1>1, EndsLeaves, KidsAssumption DEF ChildInv, JobInv, Alive
<1> QED  BY <1>2, <1>3, <1>4 DEF ChildInv

\* The job's handle closes: whoever is in the job ends.
LEMMA JobEndsKeeps ==
  ASSUME ChildInv, GroupClose \/ JobRundown
  PROVE  ChildInv'
<1>1. Ends(job) /\ group' = FALSE /\ UNCHANGED <<parent, step, parentEnds, m_process>>
  BY DEF GroupClose, JobRundown
<1>2. \A h \in Kids : step[h] # "enrolled"
  BY KidsAssumption DEF GroupClose, JobRundown, ChildInv, JobInv, InProgress
<1>3. ProcTypeOK'
  BY <1>1, EndsLeaves DEF ChildInv, ProcTypeOK
<1>4. HandleInv'
  BY <1>1, EndsKeepsHandles DEF ChildInv
<1>5. JobInv'
  BY <1>1, <1>2, EndsLeaves, KidsAssumption DEF ChildInv, JobInv, Alive
<1> QED  BY <1>3, <1>4, <1>5 DEF ChildInv

LEMMA ParentDiesKeeps ==
  ASSUME ChildInv, ParentDies
  PROVE  ChildInv'
<1>1. /\ parent' = FALSE /\ Ends({Parent}) /\ group' = group /\ m_process' = {}
      /\ parentEnds' = [h \in Kids |-> {}] /\ step' = [h \in Kids |-> "none"]
  BY DEF ParentDies
<1>2. ProcTypeOK'
  BY <1>1, EndsLeaves DEF ChildInv, ProcTypeOK
<1>3. HandleInv'
  <2>1. \A h \in Kids : step'[h] = "none" /\ ~parent' /\ Parent \in {Parent}
    BY <1>1
  <2>2. \A h \in Kids : parentEnds'[h] = {}
    BY <1>1
  <2>3. parent' => parent
    BY <1>1
  <2> QED  BY <1>1, <2>1, <2>2, <2>3, EndsKeepsHandles DEF ChildInv
<1>4. JobInv'
  BY <1>1, EndsLeaves, KidsAssumption DEF ChildInv, JobInv, Alive
<1> QED  BY <1>2, <1>3, <1>4 DEF ChildInv

LEMMA ChildUntouched ==
  ASSUME ChildInv, UNCHANGED procVars
  PROVE  ChildInv'
  BY DEF ChildInv, ProcTypeOK, HandleInv, JobInv, procVars

----------------------------------------------------------------------------
(* The service. *)

IInv == NameInv /\ ChildInv

LEMMA InitIInv == Init => IInv
<1> SUFFICES ASSUME Init PROVE IInv
  OBVIOUS
<1> USE PipeAssumption, KidsAssumption, MessageType DEF Init, PipeInit, LockInit, ProcInit
<1>1. PipeInv
  <2>1. PipeTypeOK
    <3>1. <<>> \in Seq(Nat) /\ "idle" \in Places /\ 0 \in 0..Len(Message) /\ 0 \in 0..Attempts
      BY DEF Places
    <3> QED  BY <3>1 DEF PipeTypeOK
  <2>2. EndsInv /\ StreamIntact
    BY DEF EndsInv, StreamIntact
  <2> QED  BY <2>1, <2>2 DEF PipeInv
<1>2. LockTypeOK /\ HolderInv
  BY DEF LockTypeOK, HolderInv, Held, AtChild
<1>3. ProcTypeOK
  BY DEF ProcTypeOK
<1>4. HandleInv /\ JobInv
  BY DEF HandleInv, JobInv
<1> QED  BY <1>1, <1>2, <1>3, <1>4 DEF IInv, NameInv, ChildInv

LEMMA NextIInv == IInv /\ [Next]_vars => IInv'
<1> SUFFICES ASSUME IInv, [Next]_vars PROVE IInv'
  OBVIOUS
<1> USE DEF IInv
<1>1. ASSUME NEW p \in Apps, Program(p)
      PROVE  IInv'
  <2>1. UNCHANGED procVars
    BY <1>1 DEF Program, Acquire, Refuse, CloseRefused, Release
  <2> QED  BY <1>1, <2>1, ProgramKeepsName, ChildUntouched
<1>2. ASSUME NEW p \in Apps, Serve(p) \/ Stop(p)
      PROVE  IInv'
  BY <1>2, ServerKeepsName, ChildUntouched DEF Serve, Stop
<1>3. ASSUME NEW i \in Instances, Receive(i)
      PROVE  IInv'
  BY <1>3, ReceiveKeepsName, ChildUntouched DEF Receive
<1>4. ASSUME NEW h \in Kids, Call(h)
      PROVE  IInv'
  <2>1. UNCHANGED procVars
    BY <1>4 DEF Call
  <2> QED  BY <1>4, <2>1, CallKeepsName, ChildUntouched
<1>5. ASSUME NEW h \in Kids, Report(h)
      PROVE  IInv'
  BY <1>5, ClientKeepsName, ChildUntouched DEF Report
<1>6. ASSUME NEW h \in Kids, BeginSpawn(h) \/ Spawn(h) \/ Destroy(h)
      PROVE  IInv'
  <2>1. UNCHANGED pipeVars /\ UNCHANGED lockVars
    BY <1>6 DEF BeginSpawn, Spawn, Destroy
  <2>2. PrepareIn(h) \/ SpawnStep(h) \/ Detach(h)
    BY <1>6 DEF BeginSpawn, Spawn, Destroy
  <2>3. ChildInv'
    BY <2>2, PrepareInKeeps, PrepareOutKeeps, PrepareFailsKeeps, CreateKeeps, CreateFailsKeeps,
       EnrollKeeps, EnrollFailsKeeps, ResumeKeeps, ReturnKeeps, DetachKeeps DEF SpawnStep
  <2> QED  BY <2>1, <2>3, NameUntouched
<1>7. ASSUME NEW h \in Kids, ChildEnds(h)
      PROVE  IInv'
  <2>1. {h} \in SUBSET Kids /\ PipesOf({h}) /\ UNCHANGED lockVars
    BY <1>7 DEF ChildEnds
  <2> QED  BY <1>7, <2>1, ChildrenKeepName, ChildEndsKeeps DEF ChildEnds
<1>8. ASSUME GroupEnds
      PROVE  IInv'
  <2>1. job \in SUBSET Kids /\ PipesOf(job) /\ UNCHANGED lockVars
    BY <1>8 DEF GroupEnds, ChildInv, ProcTypeOK
  <2> QED  BY <1>8, <2>1, ChildrenKeepName, JobEndsKeeps DEF GroupEnds
<1>9. ASSUME NEW p \in Apps, Crash(p)
      PROVE  IInv'
  <2>1. PipesOf({p}) /\ DropLock(p) /\ (ParentDies \/ UNCHANGED procVars)
    BY <1>9 DEF Crash
  <2> QED  BY <2>1, CrashKeepsName, ParentDiesKeeps, ChildUntouched
<1>10. ASSUME UNCHANGED vars
       PROVE  IInv'
  BY <1>10, NameUntouched, ChildUntouched DEF vars, pipeVars, lockVars, procVars
<1> QED  BY <1>1, <1>2, <1>3, <1>4, <1>5, <1>6, <1>7, <1>8, <1>9, <1>10 DEF Next

LEMMA Invariance == Spec => []IInv
  BY InitIInv, NextIInv, PTL DEF Spec

\* The type invariant of the service.
THEOREM TypeCorrect == Spec => []TypeOK
<1>1. IInv => TypeOK
  BY DEF IInv, NameInv, PipeInv, ChildInv, TypeOK
<1> QED  BY Invariance, <1>1, PTL

\* The bytes of a message arrive once and in order.
THEOREM StreamIntactHolds == Spec => []StreamIntact
<1>1. IInv => StreamIntact
  BY DEF IInv, NameInv, PipeInv
<1> QED  BY Invariance, <1>1, PTL

\* Only the holder of the lock has server ends of the pipe.
THEOREM OnlyPrimaryServesHolds == Spec => []OnlyPrimaryServes
<1>1. IInv => OnlyPrimaryServes
  BY DEF IInv, NameInv, HolderInv, OnlyPrimaryServes
<1> QED  BY Invariance, <1>1, PTL

\* The name exists for as long as a listener is in service.
THEOREM NameLastsHolds == Spec => []NameLasts
<1>1. IInv => NameLasts
  BY DEF IInv, NameInv, PipeInv, PipeTypeOK, EndsInv, NameLasts
<1> QED  BY Invariance, <1>1, PTL

\* A spawn that failed left neither a child nor ends of its pipes.
THEOREM FailedSpawnLeavesNothingHolds == Spec => []FailedSpawnLeavesNothing
<1>1. IInv => FailedSpawnLeavesNothing
  <2> SUFFICES ASSUME IInv, NEW h \in Kids, step[h] = "failed"
               PROVE  /\ kid[h] \in {"none", "ended"}
                      /\ parentEnds[h] = {}
                      /\ \A s \in Streams : {h, Parent} \cap childEnds[h][s] = {}
    BY DEF FailedSpawnLeavesNothing
  <2> QED  BY DEF IInv, ChildInv, HandleInv, InProgress, Alive
<1> QED  BY Invariance, <1>1, PTL

\* No grouped child runs once the handle to the job is closed.
THEOREM CrashKillsGroupedHolds == Spec => []CrashKillsGrouped
<1>1. IInv => CrashKillsGrouped
  BY DEF IInv, ChildInv, JobInv, CrashKillsGrouped
<1> QED  BY Invariance, <1>1, PTL

\* Only CreateProcessW gives away handles, and only those of a spawn that is
\* not over.
THEOREM EndsLeakOnlyToOverlapHolds == Spec => EndsLeakOnlyToOverlap
<1>1. ASSUME IInv, [Next]_vars, NEW h \in Kids, NEW g \in Kids, NEW s \in Streams,
             h # g, g \in childEnds'[h][s] \ childEnds[h][s]
      PROVE  step[h] \in InProgress \cup {"leaked"}
  <2> USE <1>1, KidsAssumption
  <2>1. ProcTypeOK /\ HandleInv
    BY DEF IInv, ChildInv
  <2>2. ASSUME NEW f \in Kids, Create(f)
        PROVE  step[h] \in InProgress \cup {"leaked"}
    BY <2>1, <2>2 DEF ProcTypeOK, HandleInv, Create
  <2>3. ASSUME NEW f \in Kids, NEW t \in Streams, PrepareStdio(f, t)
        PROVE  FALSE
    BY <2>1, <2>3, PreparedEnds
  <2>4. ASSUME NEW D, Ends(D)
        PROVE  FALSE
    BY <2>1, <2>4, EndsLeaves
  <2>5. ASSUME NEW f \in Kids, CreateFails(f) \/ EnrollFails(f) \/ Return(f)
        PROVE  FALSE
    <3>1. CASE CreateFails(f)
      BY <2>1, <3>1 DEF ProcTypeOK, CreateFails, CleanupStdio
    <3>2. CASE EnrollFails(f)
      BY <2>1, <3>2 DEF ProcTypeOK, EnrollFails, CleanupStdio
    <3>3. CASE Return(f)
      BY <2>1, <3>3 DEF ProcTypeOK, Return
    <3> QED  BY <2>5, <3>1, <3>2, <3>3
  <2>6. ASSUME UNCHANGED childEnds
        PROVE  FALSE
    BY <2>6
  <2> HIDE <1>1
  <2>7. Next \/ UNCHANGED vars
    BY <1>1
  <2> QED
    BY <2>2, <2>3, <2>4, <2>5, <2>6, <2>7
    DEF Next, Program, Acquire, Refuse, CloseRefused, Release, Serve, Stop, Receive, Call, Report,
        BeginSpawn, Spawn, Destroy, ChildEnds, GroupEnds, Crash, SpawnStep, PrepareIn, PrepareOut,
        PrepareFails, Enroll, Resume, Detach, Terminate, Exits, GroupClose, ParentDies, JobRundown,
        procVars, vars, Streams
<1>2. IInv /\ [Next]_vars =>
        [\A h, g \in Kids, s \in Streams :
            h # g /\ g \in childEnds'[h][s] \ childEnds[h][s]
                => step[h] \in InProgress \cup {"leaked"}]_vars
  BY <1>1
<1> QED  BY Invariance, <1>2, PTL DEF Spec, EndsLeakOnlyToOverlap

----------------------------------------------------------------------------
(* The abstract service: primary is the holder of the lock, and serving is  *)
(* whoever has server ends of the pipe, which only the holder can.          *)

Servers == {server[i] : i \in Instances} \ {None}

\* The lock changes hands only by way of nobody.
LEMMA LockPasses ==
  ASSUME IInv, [Next]_vars
  PROVE  \/ m_lock' = m_lock
         \/ m_lock = {} /\ (\E p \in Procs : m_lock' = {p}) /\ UNCHANGED server
         \/ m_lock' = {}
<1>0. HolderInv
  BY DEF IInv, NameInv
<1>1. ASSUME NEW p \in Apps, Acquire(p)
      PROVE  m_lock = {} /\ p \in Procs /\ m_lock' = {p} /\ UNCHANGED server
  BY <1>0, <1>1 DEF HolderInv, Acquire, AcquireCreated, Apps, ends
<1>2. ASSUME NEW p \in Apps, CloseRefused(p) \/ Release(p) \/ Crash(p)
      PROVE  m_lock' = m_lock \/ m_lock' = {}
  <2>1. m_lock' = m_lock \ {p}
    BY <1>2 DEF CloseRefused, Release, Crash, DropLock
  <2> QED  BY <1>0, <2>1 DEF HolderInv
<1>3. ASSUME NEW p \in Apps, Refuse(p) \/ Serve(p) \/ Stop(p)
      PROVE  m_lock' = m_lock
  BY <1>3 DEF Refuse, AcquireRefused, Serve, Stop, lockVars
<1>4. CASE UNCHANGED lockVars
  BY <1>4 DEF lockVars
<1>5. ASSUME NEW h \in Kids,
             Call(h) \/ Report(h) \/ BeginSpawn(h) \/ Spawn(h) \/ Destroy(h) \/ ChildEnds(h)
      PROVE  UNCHANGED lockVars
  BY <1>5 DEF Call, Report, BeginSpawn, Spawn, Destroy, ChildEnds
<1>6. ASSUME UNCHANGED vars \/ GroupEnds \/ \E i \in Instances : Receive(i)
      PROVE  UNCHANGED lockVars
  BY <1>6 DEF GroupEnds, Receive, vars, lockVars
<1> QED  BY <1>1, <1>2, <1>3, <1>4, <1>5, <1>6 DEF Next, Program

LEMMA ServiceStep ==
  ASSUME IInv, IInv', [Next]_vars
  PROVE  [Service!Next]_Service!vars
<1>1. /\ m_lock \subseteq Procs /\ Servers \subseteq m_lock
      /\ \A p, q \in m_lock : p = q
  BY DEF IInv, NameInv, LockTypeOK, HolderInv, Servers
<1>2. /\ m_lock' \subseteq Procs /\ Servers' \subseteq m_lock'
      /\ \A p, q \in m_lock' : p = q
  BY DEF IInv, NameInv, LockTypeOK, HolderInv, Servers
<1>3. CASE m_lock' = m_lock
  <2>1. \/ Servers' = Servers \/ Servers' = {}
        \/ Servers = {} /\ \E p \in Procs : m_lock = {p} /\ Servers' = {p}
    BY <1>1, <1>2, <1>3
  <2> QED  BY <1>3, <2>1 DEF Service!Next, Service!vars, Service!Serve, Service!Withdraw, Servers
<1>4. CASE m_lock = {} /\ (\E p \in Procs : m_lock' = {p}) /\ UNCHANGED server
  BY <1>4 DEF Service!Next, Service!Take
<1>5. CASE m_lock' = {}
  <2>1. Servers' = {}
    BY <1>2, <1>5
  <2> QED  BY <1>5, <2>1 DEF Service!Next, Service!Leave, Servers
<1> QED  BY <1>3, <1>4, <1>5, LockPasses

\* Lock and pipe together implement the service of one process at a time:
\* whoever takes over finds the one before it gone, with all its server ends.
THEOREM ServiceImplemented == Spec => ImplementsService
<1>1. Init => Service!Init
  BY DEF Init, PipeInit, LockInit, Service!Init
<1>2. IInv /\ IInv' /\ [Next]_vars => [Service!Next]_Service!vars
  BY ServiceStep
<1> QED  BY <1>1, <1>2, Invariance, PTL DEF Spec, ImplementsService, Service!Spec

----------------------------------------------------------------------------
(* Why acquire is refused. *)

\* Every handle to the mutex is the lock of its holder or about to be closed.
HandlesAccounted ==
    \A p \in mutex : p \in m_lock \/ (p \in Apps /\ pc[p] = "refused")

\* Steps that leave the mutex alone and take nobody out of "refused".
LEMMA HandlesKept ==
  ASSUME HandlesAccounted, UNCHANGED lockVars,
         \A p \in Apps : pc[p] = "refused" => pc'[p] = "refused"
  PROVE  HandlesAccounted'
  BY DEF HandlesAccounted, lockVars

LEMMA StepKeepsHandles ==
  ASSUME IInv, HandlesAccounted, [Next]_vars
  PROVE  HandlesAccounted'
<1> USE KidsAssumption
<1>0. /\ pc \in [Procs -> Places] /\ HolderInv /\ Apps \subseteq Procs
      /\ mutex \subseteq Procs /\ \A h \in Kids : pc[h] \in AtChild /\ h \notin Apps
  BY DEF IInv, NameInv, PipeInv, PipeTypeOK, LockTypeOK, HolderInv, Apps
<1>1. ASSUME NEW p \in Apps, Acquire(p) \/ Refuse(p)
      PROVE  HandlesAccounted'
  BY <1>0, <1>1 DEF HandlesAccounted, Acquire, AcquireCreated, Refuse, AcquireRefused, Goto
<1>2. ASSUME NEW p \in Apps, DropLock(p), \A q \in Apps \ {p} : pc'[q] = pc[q]
      PROVE  HandlesAccounted'
  BY <1>2 DEF HandlesAccounted, DropLock
<1>3. ASSUME NEW p \in Apps, CloseRefused(p) \/ Release(p) \/ Crash(p)
      PROVE  HandlesAccounted'
  <2>1. DropLock(p) /\ \A q \in Apps \ {p} : pc'[q] = pc[q]
    BY <1>0, <1>3 DEF CloseRefused, Release, Crash, PipesOf, Goto
  <2> QED  BY <1>2, <2>1
<1>4. ASSUME NEW p \in Procs, NEW where, pc' = [pc EXCEPT ![p] = where], pc[p] # "refused",
             UNCHANGED lockVars
      PROVE  HandlesAccounted'
  BY <1>0, <1>4, HandlesKept
<1>5. ASSUME NEW p \in Apps, Serve(p) \/ Stop(p)
      PROVE  HandlesAccounted'
  <2>1. /\ pc[p] # "refused" /\ UNCHANGED lockVars
        /\ \E where : pc' = [pc EXCEPT ![p] = where]
    BY <1>5 DEF Serve, Stop, ServerStep, Bind, BindFails, AcceptWaits, AcceptPending, AcceptFails,
                Stage, StageFails, CloseListener, Goto
  <2> QED  BY <1>0, <1>4, <2>1
<1>6. CASE UNCHANGED <<pc, lockVars>>
  BY <1>6, HandlesKept
<1>7. ASSUME NEW i \in Instances, Receive(i)
      PROVE  UNCHANGED <<pc, lockVars>>
  BY <1>7 DEF Receive, Read, ReadEof, CloseChannel
<1>8. ASSUME NEW h \in Kids, Report(h)
      PROVE  HandlesAccounted'
  <2>1. CASE Connect(h)
    <3>1. PICK i \in Listening :
             pc' = [pc EXCEPT ![h] = "client",
                              ![server[i]] = IF @ = "waiting" THEN "staging" ELSE @]
      BY <2>1 DEF Connect
    <3>2. \A p \in Apps : pc'[p] = pc[p] \/ pc[p] = "waiting"
      BY <1>0, <3>1
    <3> QED  BY <1>8, <3>2, HandlesKept DEF Report
  <2>2. CASE ~Connect(h)
    <3>1. UNCHANGED pc \/ pc' = [pc EXCEPT ![h] = "done"]
      BY <1>8, <2>2 DEF Report, ClientStep, ConnectNotFound, ConnectBusy, Write, Leave, Goto
    <3>2. \A p \in Apps : pc'[p] = pc[p]
      BY <1>0, <3>1
    <3> QED  BY <1>8, <3>2, HandlesKept DEF Report
  <2> QED  BY <2>1, <2>2
<1>9. ASSUME NEW h \in Kids, Call(h)
      PROVE  HandlesAccounted'
  <2>1. \A p \in Apps : pc'[p] = pc[p]
    BY <1>0, <1>9 DEF Call, Goto
  <2> QED  BY <1>9, <2>1, HandlesKept DEF Call
<1>10. ASSUME NEW h \in Kids, BeginSpawn(h) \/ Spawn(h) \/ Destroy(h)
       PROVE  UNCHANGED <<pc, lockVars>>
  BY <1>10 DEF BeginSpawn, Spawn, Destroy, pipeVars
<1>11. ASSUME NEW D \in SUBSET Kids, PipesOf(D), UNCHANGED lockVars
       PROVE  HandlesAccounted'
  <2>1. \A p \in Apps : pc'[p] = pc[p]
    BY <1>0, <1>11 DEF PipesOf
  <2> QED  BY <1>11, <2>1, HandlesKept
<1>12. ASSUME NEW h \in Kids, ChildEnds(h)
       PROVE  HandlesAccounted'
  BY <1>11, <1>12 DEF ChildEnds
<1>13. ASSUME GroupEnds
       PROVE  HandlesAccounted'
  <2>1. job \in SUBSET Kids
    BY DEF IInv, ChildInv, ProcTypeOK
  <2> QED  BY <1>11, <1>13, <2>1 DEF GroupEnds
<1>14. CASE UNCHANGED vars
  BY <1>6, <1>14 DEF vars, lockVars
<1> QED
  BY <1>1, <1>3, <1>5, <1>6, <1>7, <1>8, <1>9, <1>10, <1>12, <1>13, <1>14 DEF Next, Program

\* An acquire is refused only by the holder of the lock or by another acquire
\* that was refused and has yet to close its handle: for any number of
\* applications, and whoever crashes, no handle stays behind.
THEOREM RefusedForAReasonHolds == Spec => RefusedForAReason
<1>1. ASSUME IInv, HandlesAccounted, [Next]_vars, NEW p \in Procs,
             pc[p] = "idle", pc'[p] = "refused"
      PROVE  m_lock # {} \/ \E q \in Procs : pc[q] = "refused"
  <2> USE KidsAssumption
  <2>0. /\ pc \in [Procs -> Places] /\ HolderInv /\ Apps \subseteq Procs
        /\ IInv' /\ \A h \in Kids : h \notin Apps
    BY <1>1, NextIInv DEF IInv, NameInv, PipeInv, PipeTypeOK, HolderInv, Apps
  <2>1. ASSUME NEW q \in Apps, Refuse(q)
        PROVE  m_lock # {} \/ \E r \in Procs : pc[r] = "refused"
    BY <1>1, <2>0, <2>1 DEF HandlesAccounted, Refuse, AcquireRefused
  <2>2. ASSUME NEW q \in Procs, NEW where, pc' = [pc EXCEPT ![q] = where], where # "refused"
        PROVE  FALSE
    BY <1>1, <2>0, <2>2
  <2>3. ASSUME UNCHANGED pc \/ \E D : PipesOf(D)
        PROVE  FALSE
    BY <1>1, <2>0, <2>3 DEF PipesOf
  <2>4. ASSUME NEW q \in Apps, Acquire(q) \/ CloseRefused(q) \/ Release(q) \/ Serve(q) \/ Stop(q)
        PROVE  FALSE
    <3>1. \E where : pc' = [pc EXCEPT ![q] = where] /\ where # "refused"
      BY <2>4 DEF Acquire, CloseRefused, Release, Serve, Stop, ServerStep, Bind, BindFails,
                  AcceptWaits, AcceptPending, AcceptFails, Stage, StageFails, CloseListener, Goto
    <3> QED  BY <2>0, <2>2, <3>1
  <2>5. ASSUME NEW h \in Kids, Call(h) \/ Report(h)
        PROVE  FALSE
    <3>1. CASE Connect(h)
      <4>1. PICK i \in Listening :
               pc' = [pc EXCEPT ![h] = "client",
                                ![server[i]] = IF @ = "waiting" THEN "staging" ELSE @]
        BY <3>1 DEF Connect
      <4> QED  BY <1>1, <2>0, <4>1
    <3>2. CASE ~Connect(h)
      <4>1. UNCHANGED pc \/ \E where \in {"done", "connect"} : pc' = [pc EXCEPT ![h] = where]
        BY <2>5, <3>2 DEF Call, Report, ClientStep, ConnectNotFound, ConnectBusy, Write, Leave, Goto
      <4> QED  BY <2>2, <2>3, <4>1
    <3> QED  BY <3>1, <3>2
  <2>6. ASSUME \/ \E i \in Instances : Receive(i)
               \/ \E h \in Kids : BeginSpawn(h) \/ Spawn(h) \/ Destroy(h) \/ ChildEnds(h)
               \/ GroupEnds \/ UNCHANGED vars \/ \E q \in Apps : Crash(q)
        PROVE  FALSE
    BY <2>3, <2>6 DEF Receive, Read, ReadEof, CloseChannel, BeginSpawn, Spawn, Destroy, ChildEnds,
                      GroupEnds, Crash, vars, pipeVars
  <2> QED  BY <1>1, <2>1, <2>4, <2>5, <2>6 DEF Next, Program
<1>2. Init => HandlesAccounted
  BY DEF Init, LockInit, HandlesAccounted
<1>3. IInv /\ HandlesAccounted /\ [Next]_vars => HandlesAccounted'
  BY StepKeepsHandles
<1>4. IInv /\ HandlesAccounted /\ [Next]_vars =>
        [\A p \in Procs : pc[p] = "idle" /\ pc'[p] = "refused"
           => m_lock # {} \/ \E q \in Procs : pc[q] = "refused"]_vars
  BY <1>1
<1> QED  BY <1>2, <1>3, <1>4, Invariance, PTL DEF Spec, RefusedForAReason
====
