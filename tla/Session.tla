------------------------------ MODULE Session -------------------------------
(***************************************************************************)
(* One experiment's scenarios in sequence: run_scenario (harness.hpp) with *)
(* Peer::establish and Peer::reset (peer.cpp), over the utun fd and the    *)
(* listening socket that all scenarios share.  Scenario k uses source port *)
(* k, as the experiments take a fresh port each time.  receive() is one    *)
(* step here; Peer has its detail.  The kernel's side of the handshake is  *)
(* that of the XNU sources; close() and the listen queue are external.     *)
(***************************************************************************)
EXTENDS Integers, Sequences, FiniteSets

CONSTANTS
    Sizes,       \* bytes each scenario asks the kernel to send
    SendBuffer,  \* bytes the socket's send buffer holds
    sendspace,   \* net.inet.tcp.sendspace as read_knobs() saw it
    MaxFaults    \* bound: failed writes, lost frames, delays, interruptions

ASSUME SizesAssumption == Sizes \in Seq(Nat) /\ SendBuffer \in Nat
ASSUME SpaceAssumption == sendspace \in Int /\ sendspace <= SendBuffer
ASSUME FaultsAssumption == MaxFaults \in Nat

Ports == 1 .. Len(Sizes)
NoPort == 0
Errors == {"SYN", "RST", "no SYN-ACK", "not ready", "wrong port", "too big", "write"}

VARIABLES
    port,      \* source port of the running or last scenario
    pc,        \* where run_scenario is
    outcome,   \* per port: "none", "ok" or the error reported
    fd,        \* frames from the kernel on the utun fd: port and kind
    wire,      \* frames written by the peer, not yet seen by the kernel
    conn,      \* the kernel's endpoint per port
    listenq,   \* connections waiting for accept()
    afd,       \* afd_: the port whose connection the accepted socket is
    resent,    \* ports whose SYN-ACK the kernel has sent again
    faults,    \* faults so far
    hurt,      \* history: scenarios a fault happened to
    accepted   \* history: the connection each scenario was handed

vars == <<port, pc, outcome, fd, wire, conn, listenq, afd, resent, faults, hurt, accepted>>

Init ==
    /\ port = NoPort /\ pc = "idle"
    /\ outcome = [p \in Ports |-> "none"]
    /\ fd = <<>> /\ wire = <<>> /\ listenq = <<>>
    /\ conn = [p \in Ports |-> "closed"]
    /\ afd = NoPort /\ resent = {} /\ faults = 0 /\ hurt = {}
    /\ accepted = [p \in Ports |-> NoPort]

Fault(p) == faults < MaxFaults /\ faults' = faults + 1 /\ hurt' = hurt \cup {p}
NoFault == UNCHANGED <<faults, hurt>>

\* The scenario in progress reports this and goes on at l.
Reports(what, l) == outcome' = [outcome EXCEPT ![port] = what] /\ pc' = l

\* u_.send() succeeds, or its failure is not looked at.
\* Mutant: the segment's source port is left at its default.
SendsUnset(kind) == wire' = Append(wire, [port |-> NoPort, kind |-> kind]) /\ NoFault
Sends(kind) ==
    \/ wire' = Append(wire, [port |-> port, kind |-> kind]) /\ NoFault
    \/ wire' = wire /\ Fault(port)

-----------------------------------------------------------------------------
(* The kernel: tcp_input and tcp_timers on the listener's connections *)

Emits(p, kind) == fd' = Append(fd, [port |-> p, kind |-> kind])
KernelTakes(kind) ==
    /\ wire # <<>>
    /\ Head(wire).kind = kind
    /\ wire' = Tail(wire)
    /\ UNCHANGED <<port, pc, outcome, afd, resent, accepted>>

\* LISTEN: the listener's new socket enters SYN_RECEIVED.
SynReceived(p) == conn' = [conn EXCEPT ![p] = "half"]
\* No memory for a new socket (the queue of 16 does not fill): no answer.
ListenDrop == UNCHANGED <<conn, fd>>
\* Nothing listens on the port: the SYN is answered with a RST.
DropWithReset(p) == UNCHANGED conn /\ Emits(p, "rst")

\* The SYN-ACK may be lost on a full control socket.
KernelSyn ==
    /\ KernelTakes("syn")
    /\ UNCHANGED listenq
    /\ LET p == Head(wire).port IN
       \/ SynReceived(p) /\ Emits(p, "synack") /\ NoFault
       \/ SynReceived(p) /\ UNCHANGED fd /\ Fault(p)
       \/ ListenDrop /\ Fault(p)
       \/ DropWithReset(p) /\ Fault(p)

\* The retransmission timer in SYN_RECEIVED: the SYN-ACK goes out again, once
\* here, when something went wrong with the first or its acknowledgement.
KernelSynAckAgain(p) ==
    /\ conn[p] = "half"
    /\ p \in hurt \ resent
    /\ resent' = resent \cup {p}
    /\ Emits(p, "synack")
    /\ UNCHANGED <<port, pc, outcome, wire, conn, listenq, afd, accepted>>
    /\ NoFault

\* tcp_drop() of a connection whose SYN was received.
TcpDrop(p) == conn' = [conn EXCEPT ![p] = "closed"] /\ Emits(p, "rst")

\* The keep timer in SYN_RECEIVED, tcp_keepinit later: establish() has given up.
KernelGivesUp(p) ==
    /\ conn[p] = "half"
    /\ outcome[p] # "none"
    /\ \A i \in DOMAIN wire : wire[i].port # p
    /\ TcpDrop(p)
    /\ UNCHANGED <<port, pc, outcome, wire, listenq, afd, resent, accepted>>
    /\ NoFault

\* The ACK of the handshake finds the connection in SYN_RECEIVED: ESTABLISHED,
\* and soisconnected() puts it in the listen queue.
KernelAck ==
    /\ KernelTakes("ack")
    /\ conn' = [conn EXCEPT ![Head(wire).port] = "open"]
    /\ listenq' = Append(listenq, Head(wire).port)
    /\ UNCHANGED fd
    /\ NoFault

\* The RST's number is last_ack_sent, as the peer has sent no data: whatever
\* its state the connection is closed.
KernelRst ==
    /\ KernelTakes("rst")
    /\ conn' = [conn EXCEPT ![Head(wire).port] = "closed"]
    /\ UNCHANGED <<fd, listenq>>
    /\ NoFault

\* close() of an accepted socket (external): it is shut down in good order.
Closes(p) == conn' = [conn EXCEPT ![p] = "finwait"] /\ Emits(p, "fin")

-----------------------------------------------------------------------------
(* establish() *)

\* A new Peer sends its SYN.
Establish ==
    /\ pc = "idle"
    /\ port < Len(Sizes)
    /\ port' = port + 1
    /\ \/ /\ wire' = Append(wire, [port |-> port + 1, kind |-> "syn"])
          /\ pc' = "synack"
          /\ UNCHANGED outcome
          /\ NoFault
       \/ /\ outcome' = [outcome EXCEPT ![port + 1] = "SYN"]
          /\ Fault(port + 1)
          /\ UNCHANGED <<wire, pc>>
    /\ UNCHANGED <<fd, conn, listenq, afd, resent, accepted>>

\* The next frame of the wait for the SYN-ACK is for this peer.  The code throws
\* away what follows the SYN-ACK or RST in the same batch; here it stays, and a
\* later scenario skips it.  The SYN-ACK's number is right: the port is fresh.
Mine == Head(fd).port = port
Takes ==
    /\ pc = "synack" /\ fd # <<>> /\ fd' = Tail(fd)
    /\ UNCHANGED <<port, conn, listenq, afd, resent, accepted>>

SkipFrame ==
    /\ Takes
    /\ ~ Mine \/ Head(fd).kind \notin {"synack", "rst"}
    /\ UNCHANGED <<pc, outcome, wire>>
    /\ NoFault

TakeRst ==
    /\ Takes
    /\ Mine /\ Head(fd).kind = "rst"
    /\ Reports("RST", "idle")
    /\ UNCHANGED wire
    /\ NoFault

\* The SYN-ACK is acknowledged; the result of that write is not looked at.
TakeSynAck ==
    /\ Takes
    /\ Mine /\ Head(fd).kind = "synack"
    /\ Sends("ack")
    /\ pc' = "accept"
    /\ UNCHANGED outcome

\* 2000 ms pass: nothing is under way, or it is late.
Late(nothing) == IF nothing THEN NoFault ELSE Fault(port)

SynAckTimeout ==
    /\ pc = "synack"
    /\ Late(fd = <<>> /\ wire = <<>>)
    /\ Reports("no SYN-ACK", "idle")
    /\ UNCHANGED <<port, fd, wire, conn, listenq, afd, resent, accepted>>

\* poll() on the listening socket times out or is interrupted, or accept()
\* fails; a connection that is or becomes ready stays in the listen queue.
NotReady ==
    /\ pc = "accept"
    /\ Late(listenq = <<>> /\ wire = <<>>)
    /\ Reports("not ready", "idle")
    /\ UNCHANGED <<port, fd, wire, conn, listenq, afd, resent, accepted>>

\* accept() hands out the oldest connection; its port is checked.
\* Mutant: it is taken to be the one just made.
PortOkAlways == TRUE
PortOk == Head(listenq) = port

Accept ==
    /\ pc = "accept"
    /\ listenq # <<>>
    /\ listenq' = Tail(listenq)
    /\ accepted' = [accepted EXCEPT ![port] = Head(listenq)]
    /\ IF PortOk
       THEN afd' = Head(listenq) /\ pc' = "write" /\ UNCHANGED <<outcome, fd, conn>>
       ELSE Reports("wrong port", "idle") /\ Closes(Head(listenq)) /\ UNCHANGED afd
    /\ UNCHANGED <<port, wire, resent>>
    /\ NoFault

-----------------------------------------------------------------------------
(* The rest of run_scenario *)

\* Mutant: the send buffer is not looked at.
TooBigNever == FALSE
TooBig == sendspace > 0 /\ Sizes[port] > sendspace

AtWrite(cond) ==
    /\ pc = "write" /\ cond
    /\ UNCHANGED <<port, fd, wire, conn, listenq, afd, resent, accepted>>

RefuseSize == AtWrite(TooBig) /\ Reports("too big", "reset") /\ NoFault
WriteFails == AtWrite(~ TooBig) /\ Reports("write", "reset") /\ Fault(port)
\* write() returns once everything is in the send buffer.
Write ==
    /\ AtWrite(~ TooBig /\ Sizes[port] <= SendBuffer)
    /\ pc' = "receive"
    /\ UNCHANGED outcome
    /\ NoFault

Receive ==
    /\ pc = "receive"
    /\ Reports("ok", "reset")
    /\ UNCHANGED <<port, fd, wire, conn, listenq, afd, resent, accepted>>
    /\ NoFault

\* reset(): close the socket, send a RST, forget the connection.
\* Mutant: no RST.
TearDownPolite == wire' = wire /\ NoFault
TearDown == Sends("rst")

Reset ==
    /\ pc = "reset"
    /\ afd' = NoPort
    /\ Closes(afd)
    /\ TearDown
    /\ pc' = "idle"
    /\ UNCHANGED <<port, outcome, listenq, resent, accepted>>

Kernel ==
    \/ KernelSyn \/ KernelAck \/ KernelRst
    \/ \E p \in Ports : KernelSynAckAgain(p) \/ KernelGivesUp(p)
Scenario ==
    \/ Establish \/ SkipFrame \/ TakeRst \/ TakeSynAck \/ SynAckTimeout \/ NotReady \/ Accept
    \/ RefuseSize \/ WriteFails \/ Write \/ Receive \/ Reset

Next == Kernel \/ Scenario
Spec == Init /\ [][Next]_vars

\* The process and the kernel keep running, and the waits of 2000 ms end.
FairSpec == Spec /\ WF_vars(Kernel) /\ WF_vars(Scenario)

-----------------------------------------------------------------------------
(* Properties *)

Frame(kinds) == [port : Ports, kind : kinds]

\* Type invariant.
TypeOK ==
    /\ port \in {NoPort} \cup Ports
    /\ pc \in {"idle", "synack", "accept", "write", "receive", "reset"}
    /\ outcome \in [Ports -> {"none", "ok"} \cup Errors]
    /\ fd \in Seq(Frame({"synack", "rst", "fin"})) /\ wire \in Seq(Frame({"syn", "ack", "rst"}))
    /\ conn \in [Ports -> {"closed", "half", "open", "finwait"}]
    /\ listenq \in Seq(Ports) /\ afd \in {NoPort} \cup Ports
    /\ faults \in 0 .. MaxFaults /\ resent \subseteq Ports /\ hurt \subseteq Ports
    /\ accepted \in [Ports -> {NoPort} \cup Ports]

\* A scenario that reports a measurement made it on its own connection, even
\* when an earlier establish() gave up on a connection the kernel completed.
OwnConnection == \A p \in Ports : outcome[p] = "ok" => accepted[p] = p

\* "Tears the connection down [...] so the next experiment starts from a clean
\* port" (peer.hpp): once the kernel has seen everything, a scenario that no
\* fault happened to has left no endpoint behind, unless it was handed another
\* one's connection.
CleanPort ==
    (pc = "idle" /\ wire = <<>>) =>
        \A p \in 1 .. port : (p \notin hurt /\ outcome[p] # "wrong port") => conn[p] = "closed"

\* Every scenario ends: no wait lasts for ever, and no write blocks on a full
\* send buffer that nobody reads from.
ScenariosEnd == <>(pc = "idle" /\ port = Len(Sizes))

\* What establish() says when the port check fails: "accept() reported a
\* source port we never sent from".
WrongPortNeverSent ==
    \A p \in Ports : outcome[p] = "wrong port" => accepted[p] \notin 1 .. port
=============================================================================
