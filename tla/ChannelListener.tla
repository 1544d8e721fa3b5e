---- MODULE ChannelListener ----
(***************************************************************************)
(* ipc::ChannelListener and Channel::connect on POSIX: one name, a socket  *)
(* node in the file system, and the processes that bind it, connect to it, *)
(* accept, close and crash.  Every system call is a step of its own: bind  *)
(* is connect (the probe), unlink, bind, listen; close is unlink, close.   *)
(*                                                                         *)
(* The sockets are those of AF_UNIX: a node answers a connect while the    *)
(* socket bound to it listens and some process has it open, and a connect  *)
(* to a full backlog blocks.                                               *)
(***************************************************************************)
EXTENDS Naturals, Sequences, Processes

CONSTANTS
    Sockets,  \* identities for listening sockets, reused once closed
    Backlog,  \* connections the kernel queues on a socket (8 in the code)
    Stale,    \* a node whose socket nobody has open any more
    Probe,    \* the peer of a connection made by the probe of a bind
    Gone      \* the peer of a connection whose client died

ASSUME ValuesAssumption ==
    /\ Backlog \in Nat \ {0}
    /\ None \notin Sockets /\ Stale \notin Sockets /\ None # Stale
    /\ Probe \notin Procs /\ Gone \notin Procs /\ Probe # Gone

VARIABLES
    node,       \* what the path names: None, Stale or a socket
    pc,         \* pc[p]: where p is in bind, close or connect
    fd,         \* fd[p]: the listening socket of p, or None
    listening,  \* the sockets on which listen was called
    backlog,    \* backlog[s]: the peers queued on s, not yet accepted
    chan,       \* chan[p]: the peers of the channels p accepted
    child       \* child[p]: what a spawned child of p has inherited

listenerVars == <<node, pc, fd, listening, backlog, chan, child>>

Peers == Procs \cup {Probe, Gone}
NoChild == [sock |-> None, chans |-> {}]

ListenerTypeOK ==
    /\ node \in Sockets \cup {None, Stale}
    /\ pc \in [Procs -> {"idle", "flock", "probe", "unlink", "name", "listen",
                         "owner", "closing", "done", "connect", "client"}]
    /\ fd \in [Procs -> Sockets \cup {None}]
    /\ listening \subseteq Sockets
    /\ backlog \in [Sockets -> Seq(Peers)]
    /\ \A s \in Sockets : Len(backlog[s]) <= Backlog
    /\ chan \in [Procs -> SUBSET Peers]
    /\ child \in [Procs -> [sock : Sockets \cup {None}, chans : SUBSET Peers]]

ListenerInit ==
    /\ node = None
    /\ pc = [p \in Procs |-> "idle"]
    /\ fd = [p \in Procs |-> None]
    /\ listening = {}
    /\ backlog = [s \in Sockets |-> <<>>]
    /\ chan = [p \in Procs |-> {}]
    /\ child = [p \in Procs |-> NoChild]

OpenSockets == ({fd[p] : p \in Procs} \cup {child[p].sock : p \in Procs}) \ {None}
FreeSockets == Sockets \ (OpenSockets \cup {node})

\* A connect to the path succeeds (unless the backlog is full).
Answers == node \in listening

Goto(p, where) == pc' = [pc EXCEPT ![p] = where]

\* Sockets whose last descriptor closes stop listening, reset the connections
\* still queued on them and leave their node, if they have one, stale.
Closes(dead) ==
    /\ node' = IF node \in dead THEN Stale ELSE node
    /\ listening' = listening \ dead
    /\ backlog' = [s \in Sockets |-> IF s \in dead THEN <<>> ELSE backlog[s]]

\* The socket of p, if p alone has it open.
OwnSocket(p) ==
    {fd[p]} \ ({None} \cup {fd[q] : q \in Procs \ {p}} \cup {child[q].sock : q \in Procs})

----------------------------------------------------------------------------
(* ChannelListener::bind *)

\* connect() of the probe succeeds: EADDRINUSE.  The connection is closed at
\* once but has been queued on the socket that answered.
ProbeAnswered(p) ==
    /\ pc[p] = "probe"
    /\ Answers
    /\ Len(backlog[node]) < Backlog
    /\ backlog' = [backlog EXCEPT ![node] = Append(@, Probe)]
    /\ Goto(p, "done")
    /\ UNCHANGED <<node, fd, listening, chan, child>>

\* Any failure of the probe, a missing node included, leads to the unlink.
ProbeRefused(p) ==
    /\ pc[p] = "probe"
    /\ ~Answers
    /\ Goto(p, "unlink")
    /\ UNCHANGED <<node, fd, listening, backlog, chan, child>>

\* Variant: the node is not unlinked before the new one is bound.
UnlinkSkipped(p) ==
    /\ pc[p] = "unlink"
    /\ Goto(p, "name")
    /\ UNCHANGED <<node, fd, listening, backlog, chan, child>>

Unlink(p) ==
    /\ pc[p] = "unlink"
    /\ node' = None
    /\ Goto(p, "name")
    /\ UNCHANGED <<fd, listening, backlog, chan, child>>

\* socket() and bind(): EADDRINUSE when the path exists, else a node of its own.
BindName(p) ==
    /\ pc[p] = "name"
    /\ IF node # None
       THEN /\ Goto(p, "done")
            /\ UNCHANGED <<node, fd>>
       ELSE \E s \in FreeSockets :
              /\ s = CHOOSE t \in FreeSockets : TRUE
              /\ node' = s
              /\ fd' = [fd EXCEPT ![p] = s]
              /\ Goto(p, "listen")
    /\ UNCHANGED <<listening, backlog, chan, child>>

\* listen(): from here on the node answers and bind returns Ok.
Listen(p) ==
    /\ pc[p] = "listen"
    /\ listening' = listening \cup {fd[p]}
    /\ Goto(p, "owner")
    /\ UNCHANGED <<node, fd, backlog, chan, child>>

----------------------------------------------------------------------------
(* ChannelListener::accept and close *)

\* Variant: the next client is accepted when the one before is done.
AcceptOneAtATime(p) ==
    /\ pc[p] = "owner"
    /\ chan[p] = {}
    /\ backlog[fd[p]] # <<>>
    /\ chan' = [chan EXCEPT ![p] = @ \cup {Head(backlog[fd[p]])}]
    /\ backlog' = [backlog EXCEPT ![fd[p]] = Tail(@)]
    /\ UNCHANGED <<node, pc, fd, listening, child>>

Accept(p) ==
    /\ pc[p] = "owner"
    /\ backlog[fd[p]] # <<>>
    /\ chan' = [chan EXCEPT ![p] = @ \cup {Head(backlog[fd[p]])}]
    /\ backlog' = [backlog EXCEPT ![fd[p]] = Tail(@)]
    /\ UNCHANGED <<node, pc, fd, listening, child>>

\* close() unlinks the path, whatever it names by now.
CloseUnlink(p) ==
    /\ pc[p] = "owner"
    /\ node' = None
    /\ Goto(p, "closing")
    /\ UNCHANGED <<fd, listening, backlog, chan, child>>

\* ... and then closes the socket; the process drops its channels with it.
CloseSocket(p) ==
    /\ pc[p] = "closing"
    /\ Closes(OwnSocket(p))
    /\ fd' = [fd EXCEPT ![p] = None]
    /\ chan' = [chan EXCEPT ![p] = {}]
    /\ Goto(p, "done")
    /\ UNCHANGED child

----------------------------------------------------------------------------
(* Channel::connect and read on the client's side *)

ConnectAccepted(c) ==
    /\ pc[c] = "connect"
    /\ Answers
    /\ Len(backlog[node]) < Backlog
    /\ backlog' = [backlog EXCEPT ![node] = Append(@, c)]
    /\ Goto(c, "client")
    /\ UNCHANGED <<node, fd, listening, chan, child>>

ConnectRefused(c) ==
    /\ pc[c] = "connect"
    /\ ~Answers
    /\ Goto(c, "idle")
    /\ UNCHANGED <<node, fd, listening, backlog, chan, child>>

Queued(c) == \E s \in Sockets : \E i \in DOMAIN backlog[s] : backlog[s][i] = c
Accepted(c) == \E p \in Procs : c \in chan[p]
HeldByChild(c) == \E p \in Procs : c \in child[p].chans

\* read() returns Ok(0): no process has the other end open any more.
PeerClosed(c) ==
    /\ pc[c] = "client"
    /\ ~Queued(c) /\ ~Accepted(c) /\ ~HeldByChild(c)
    /\ Goto(c, "idle")
    /\ UNCHANGED <<node, fd, listening, backlog, chan, child>>

----------------------------------------------------------------------------
\* The kernel closes everything p had open; the node, if any, stays.  Channels
\* of which p was the client are closed at the other end.
Dies(p) ==
    LET dead == OwnSocket(p)
        Mark(q) == IF q = p THEN Gone ELSE q
    IN  /\ node' = IF node \in dead THEN Stale ELSE node
        /\ listening' = listening \ dead
        /\ backlog' = [s \in Sockets |-> IF s \in dead THEN <<>>
                                         ELSE [i \in DOMAIN backlog[s] |-> Mark(backlog[s][i])]]
        /\ fd' = [fd EXCEPT ![p] = None]
        /\ chan' = [q \in Procs |-> IF q = p THEN {} ELSE chan[q] \ {p}]
        /\ child' = [q \in Procs |-> [child[q] EXCEPT !.chans = @ \ {p}]]
        /\ Goto(p, "idle")

ListenerStep(p) ==
    \/ ProbeAnswered(p) \/ ProbeRefused(p) \/ Unlink(p) \/ BindName(p) \/ Listen(p)
    \/ Accept(p) \/ CloseSocket(p)
    \/ ConnectAccepted(p) \/ ConnectRefused(p) \/ PeerClosed(p)

----------------------------------------------------------------------------
(* Processes that bind the name with no lock around it. *)

Calls(p) ==
    /\ pc[p] \in {"idle", "done"}
    /\ pc' \in {[pc EXCEPT ![p] = w] : w \in {"probe", "connect"}}
    /\ UNCHANGED <<node, fd, listening, backlog, chan, child>>

BareNext == \E p \in Procs : Calls(p) \/ ListenerStep(p) \/ CloseUnlink(p)
BareSpec == ListenerInit /\ [][BareNext]_listenerVars

\* A bind that meets a live owner fails, so two processes never own the name
\* at the same time (the contract of ChannelListener::bind).
OneOwner == \A p, q \in Procs : pc[p] = "owner" /\ pc[q] = "owner" => p = q
====
