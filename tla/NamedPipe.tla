---- MODULE NamedPipe ----
(***************************************************************************)
(* ipc::ChannelListener and ipc::Channel on Windows: the instances of one  *)
(* named pipe, the processes that serve them, and the clients that connect *)
(* and write one message with write_all.                                   *)
(*                                                                         *)
(* The kernel as far as the code relies on it: an instance takes a client  *)
(* once, from its creation on; a name without a server end is not found,   *)
(* one whose instances all have had their client is busy; what was written *)
(* can be read after the writer is gone.                                   *)
(***************************************************************************)
EXTENDS Naturals, Sequences, Processes

CONSTANTS
    Instances,  \* identities for pipe instances, reused once both ends are closed
    Message,    \* what a client writes
    PipeSize,   \* bytes an instance buffers (64 KiB in the code)
    Attempts,   \* how often connect tries (8 in the code)
    Gone        \* the client end of an instance whose client has closed it

ASSUME PipeAssumption ==
    /\ None \notin Instances
    /\ None \notin Procs /\ Gone \notin Procs /\ None # Gone
    /\ Message \in Seq(Nat)
    /\ PipeSize \in Nat \ {0} /\ Attempts \in Nat \ {0}

VARIABLES
    server,    \* server[i]: the process with the server end of i open, or None
    client,    \* client[i]: the one with the client end, None before a connect
    sent,      \* sent[i]: how much of Message the client's writes put into i
    buf,       \* buf[i]: the bytes in i that were not read yet
    got,       \* got[i]: the bytes the reads of the server returned
    m_native,  \* m_native[p]: the instance in the listener of p, or None
    pc,        \* pc[p]: the call p is in, or what it will do next
    tries      \* tries[p]: failed attempts of the connect p is in

ends == <<server, client, sent, buf, got>>
pipeVars == <<server, client, sent, buf, got, m_native, pc, tries>>

\* An application is idle, refused the lock, or holds it: it is to bind, has a
\* listener, or has closed it.  A child is idle, then a client, then done.
Places == {"idle", "refused", "bind", "serving", "waiting", "staging", "failed",
           "closed", "connect", "client", "done"}

PipeTypeOK ==
    /\ server \in [Instances -> Procs \cup {None}]
    /\ client \in [Instances -> Procs \cup {None, Gone}]
    /\ sent \in [Instances -> 0..Len(Message)]
    /\ buf \in [Instances -> Seq(Nat)]
    /\ got \in [Instances -> Seq(Nat)]
    /\ m_native \in [Procs -> Instances \cup {None}]
    /\ pc \in [Procs -> Places]
    /\ tries \in [Procs -> 0..Attempts]

PipeInit ==
    /\ server = [i \in Instances |-> None]
    /\ client = [i \in Instances |-> None]
    /\ sent = [i \in Instances |-> 0]
    /\ buf = [i \in Instances |-> <<>>]
    /\ got = [i \in Instances |-> <<>>]
    /\ m_native = [p \in Procs |-> None]
    /\ pc = [p \in Procs |-> "idle"]
    /\ tries = [p \in Procs |-> 0]

Goto(p, where) == pc' = [pc EXCEPT ![p] = where]

Free == {i \in Instances : server[i] = None /\ client[i] = None}
Listening == {i \in Instances : server[i] # None /\ client[i] = None}
Channels(p) == {i \in Instances : server[i] = p /\ m_native[p] # i}

\* The server ends of the instances in S and the client ends of the processes
\* in C close.  Bytes nobody is left to read are dropped.
Closes(S, C) ==
    LET up(i) == server[i] # None /\ i \notin S
    IN  /\ server' = [i \in Instances |-> IF up(i) THEN server[i] ELSE None]
        /\ client' = [i \in Instances |->
                         IF client[i] \in C \cup {Gone} THEN IF up(i) THEN Gone ELSE None
                         ELSE client[i]]
        /\ sent' = [i \in Instances |-> IF up(i) THEN sent[i] ELSE 0]
        /\ buf' = [i \in Instances |-> IF up(i) THEN buf[i] ELSE <<>>]
        /\ got' = [i \in Instances |-> IF up(i) THEN got[i] ELSE <<>>]

----------------------------------------------------------------------------
(* ChannelListener *)

\* create_listener_instance: CreateNamedPipeW adds an instance to the name, the
\* name's first or not, whoever has created the others.
CreateInstance(p) ==
    \E i \in Free :
        /\ i = CHOOSE j \in Free : TRUE
        /\ server' = [server EXCEPT ![i] = p]
        /\ m_native' = [m_native EXCEPT ![p] = i]
        /\ UNCHANGED <<client, sent, buf, got>>

Bind(p) ==
    /\ pc[p] = "bind"
    /\ CreateInstance(p)
    /\ Goto(p, "serving")
    /\ UNCHANGED tries

BindFails(p) ==
    /\ pc[p] = "bind"
    /\ Goto(p, "closed")
    /\ UNCHANGED <<ends, m_native, tries>>

\* accept: ConnectNamedPipe waits for a client ...
AcceptWaits(p) ==
    /\ pc[p] = "serving" /\ m_native[p] # None
    /\ client[m_native[p]] = None
    /\ Goto(p, "waiting")
    /\ UNCHANGED <<ends, m_native, tries>>

\* ... or finds one that came before the call (ERROR_PIPE_CONNECTED) ...
AcceptPending(p) ==
    /\ pc[p] = "serving" /\ m_native[p] # None
    /\ client[m_native[p]] \in Procs
    /\ Goto(p, "staging")
    /\ UNCHANGED <<ends, m_native, tries>>

\* ... or one that came and left (ERROR_NO_DATA): accept fails, and as nothing
\* disconnects the instance it fails in the same way ever after.  It fails at
\* once when the listener is closed.
AcceptFails(p) ==
    /\ pc[p] = "serving"
    /\ m_native[p] # None => client[m_native[p]] = Gone
    /\ Goto(p, "failed")
    /\ UNCHANGED <<ends, m_native, tries>>

\* Variant: accept hands the channel out and does not stage an instance.
StageNothing(p) ==
    /\ pc[p] = "staging"
    /\ m_native' = [m_native EXCEPT ![p] = None]
    /\ Goto(p, "serving")
    /\ UNCHANGED <<ends, tries>>

\* The next instance is there before accept returns the connected one.
Stage(p) ==
    /\ pc[p] = "staging"
    /\ CreateInstance(p)
    /\ Goto(p, "serving")
    /\ UNCHANGED tries

\* CreateNamedPipeW fails: the connected instance is closed, and the listener
\* is without one, so every later accept fails.
StageFails(p) ==
    /\ pc[p] = "staging"
    /\ Closes({m_native[p]}, {})
    /\ m_native' = [m_native EXCEPT ![p] = None]
    /\ Goto(p, "failed")
    /\ UNCHANGED tries

\* close() and the destructor; the channels accepted are other objects.
CloseListener(p) ==
    /\ pc[p] \in {"serving", "failed"}
    /\ Closes({m_native[p]} \ {None}, {})
    /\ m_native' = [m_native EXCEPT ![p] = None]
    /\ Goto(p, "closed")
    /\ UNCHANGED tries

----------------------------------------------------------------------------
(* Channel on the server's side *)

\* read() returns some of the bytes that are there.
Read(i) ==
    /\ server[i] # None /\ i \in Channels(server[i])
    /\ \E n \in 1..Len(buf[i]) :
        /\ got' = [got EXCEPT ![i] = @ \o SubSeq(buf[i], 1, n)]
        /\ buf' = [buf EXCEPT ![i] = SubSeq(@, n + 1, Len(@))]
    /\ UNCHANGED <<server, client, sent, m_native, pc, tries>>

\* ERROR_BROKEN_PIPE, which read() turns into Ok(0): the channel is closed.
ReadEof(i) ==
    /\ server[i] # None /\ i \in Channels(server[i])
    /\ buf[i] = <<>> /\ client[i] = Gone
    /\ Closes({i}, {})
    /\ UNCHANGED <<m_native, pc, tries>>

CloseChannel(i) ==
    /\ server[i] # None /\ i \in Channels(server[i])
    /\ Closes({i}, {})
    /\ UNCHANGED <<m_native, pc, tries>>

----------------------------------------------------------------------------
(* Channel::connect, write_all and close on the client's side *)

\* CreateFileW opens an instance without a client; it ends the wait of an
\* accept that is in ConnectNamedPipe.
Connect(c) ==
    /\ pc[c] = "connect"
    /\ \E i \in Listening :
        /\ client' = [client EXCEPT ![i] = c]
        /\ pc' = [pc EXCEPT ![c] = "client",
                            ![server[i]] = IF @ = "waiting" THEN "staging" ELSE @]
    /\ tries' = [tries EXCEPT ![c] = 0]
    /\ UNCHANGED <<server, sent, buf, got, m_native>>

\* ERROR_FILE_NOT_FOUND: nobody serves the name.
ConnectNotFound(c) ==
    /\ pc[c] = "connect"
    /\ \A i \in Instances : server[i] = None
    /\ Goto(c, "done")
    /\ tries' = [tries EXCEPT ![c] = 0]
    /\ UNCHANGED <<ends, m_native>>

\* ERROR_PIPE_BUSY: WaitNamedPipeW, for two seconds at most, and another try;
\* after the last one connect fails with "pipe stayed busy".
ConnectBusy(c) ==
    /\ pc[c] = "connect"
    /\ Listening = {} /\ \E i \in Instances : server[i] # None
    /\ IF tries[c] + 1 < Attempts
       THEN tries' = [tries EXCEPT ![c] = @ + 1] /\ UNCHANGED pc
       ELSE tries' = [tries EXCEPT ![c] = 0] /\ Goto(c, "done")
    /\ UNCHANGED <<ends, m_native>>

\* Variant: write_all passes the whole span again after a short write.
WriteFromStart(c, i) ==
    /\ client[i] = c /\ server[i] # None
    /\ \E n \in 1..PipeSize :
        /\ n <= Len(Message) - sent[i] /\ n + Len(buf[i]) <= PipeSize
        /\ buf' = [buf EXCEPT ![i] = @ \o SubSeq(Message, 1, n)]
        /\ sent' = [sent EXCEPT ![i] = @ + n]
    /\ UNCHANGED <<server, client, got, m_native, pc, tries>>

\* One turn of the loop of write_all: what write() was able to put counts, and
\* the next turn goes on behind it.
Write(c, i) ==
    /\ client[i] = c /\ server[i] # None
    /\ \E n \in 1..PipeSize :
        /\ n <= Len(Message) - sent[i] /\ n + Len(buf[i]) <= PipeSize
        /\ buf' = [buf EXCEPT ![i] = @ \o SubSeq(Message, sent[i] + 1, sent[i] + n)]
        /\ sent' = [sent EXCEPT ![i] = @ + n]
    /\ UNCHANGED <<server, client, got, m_native, pc, tries>>

\* Variant: write_all takes a broken pipe for a short write and goes on.
LeaveWhenWritten(c, i) ==
    /\ client[i] = c
    /\ sent[i] = Len(Message)
    /\ Closes({}, {c})
    /\ Goto(c, "done")
    /\ UNCHANGED <<m_native, tries>>

\* write_all is done, or failed as the server's end is closed (is_closed()):
\* the client closes its channel.
Leave(c, i) ==
    /\ client[i] = c
    /\ server[i] = None \/ sent[i] = Len(Message)
    /\ Closes({}, {c})
    /\ Goto(c, "done")
    /\ UNCHANGED <<m_native, tries>>

----------------------------------------------------------------------------
\* The kernel closes the ends of every process in D.
PipesOf(D) ==
    /\ Closes({i \in Instances : server[i] \in D}, D)
    /\ m_native' = [p \in Procs |-> IF p \in D THEN None ELSE m_native[p]]
    /\ pc' = [p \in Procs |-> IF p \in D THEN "idle" ELSE pc[p]]
    /\ tries' = [p \in Procs |-> IF p \in D THEN 0 ELSE tries[p]]

ServerStep(p) ==
    \/ Bind(p) \/ BindFails(p) \/ AcceptWaits(p) \/ AcceptPending(p) \/ AcceptFails(p)
    \/ Stage(p) \/ StageFails(p)

ClientStep(c) ==
    \/ Connect(c) \/ ConnectNotFound(c) \/ ConnectBusy(c)
    \/ \E i \in Instances : Write(c, i) \/ Leave(c, i)
====
