--------------------------- MODULE SessionProofs ----------------------------
(***************************************************************************)
(* Session, for any number of scenarios, any sizes and any number of       *)
(* faults: types, and that a reported measurement was made on the          *)
(* scenario's own connection.                                              *)
(***************************************************************************)
EXTENDS Session, TLAPS

\* Between establish() and its outcome the running scenario has reported
\* nothing; from the port check on, it holds its own connection.
OwnInv ==
    /\ pc # "idle" => port \in Ports
    /\ pc \in {"synack", "accept", "write", "receive"} => outcome[port] = "none"
    /\ pc \in {"write", "receive"} => accepted[port] = port
    /\ pc = "reset" => afd \in Ports
    /\ pc \in {"write", "receive"} => afd \in Ports
    /\ \A p \in Ports : p > port => outcome[p] = "none"
    /\ OwnConnection

SessionInv == TypeOK /\ OwnInv

\* The ports are numbers, and none of them is NoPort.
LEMMA PortFacts == Ports \subseteq Nat /\ NoPort \notin Ports /\ Len(Sizes) \in Nat
  BY SizesAssumption DEF Ports, NoPort

\* A fault, or none, keeps the fault counters within their types.
LEMMA FaultType ==
  ASSUME faults \in 0 .. MaxFaults, hurt \subseteq Ports, NEW p \in Ports, NoFault \/ Fault(p)
  PROVE  faults' \in 0 .. MaxFaults /\ hurt' \subseteq Ports
  BY FaultsAssumption DEF NoFault, Fault

\* Taking the first element off a queue.
LEMMA HeadTail ==
  ASSUME NEW S, NEW s \in Seq(S), s # <<>>
  PROVE  Head(s) \in S /\ Tail(s) \in Seq(S)
  OBVIOUS

\* What the kernel takes off the wire is a frame from some scenario's port.
LEMMA WireFacts ==
  ASSUME TypeOK, wire # <<>>
  PROVE  Head(wire).port \in Ports /\ Tail(wire) \in Seq(Frame({"syn", "ack", "rst"}))
<1>1. wire \in Seq(Frame({"syn", "ack", "rst"}))
  BY DEF TypeOK
<1>2. Head(wire) \in Frame({"syn", "ack", "rst"})
  BY <1>1, HeadTail
<1> QED
  BY <1>1, <1>2, HeadTail DEF Frame

\* Putting a frame on either queue.
LEMMA AppendFrame ==
  ASSUME NEW K, NEW q \in Seq(Frame(K)), NEW p \in Ports, NEW k \in K
  PROVE  Append(q, [port |-> p, kind |-> k]) \in Seq(Frame(K))
<1>1. [port |-> p, kind |-> k] \in Frame(K)
  BY DEF Frame
<1> QED
  BY <1>1

\* Nothing has happened yet.
LEMMA SessionInit == Init => SessionInv
  BY PortFacts, FaultsAssumption
  DEF Init, SessionInv, TypeOK, OwnInv, OwnConnection, Frame, NoPort, Errors

\* A kernel step touches neither the outcomes nor what was accepted.
LEMMA KernelStep == ASSUME SessionInv, Kernel PROVE SessionInv'
<1>1. CASE KernelSyn
  <2> DEFINE p == Head(wire).port
  <2>1. p \in Ports /\ wire' \in Seq(Frame({"syn", "ack", "rst"}))
    BY <1>1, WireFacts DEF SessionInv, KernelSyn, KernelTakes
  <2>2. NoFault \/ Fault(p)
    BY <1>1 DEF KernelSyn
  <2>3. faults' \in 0 .. MaxFaults /\ hurt' \subseteq Ports
    BY <2>1, <2>2, FaultType DEF SessionInv, TypeOK
  <2>4. fd' \in Seq(Frame({"synack", "rst", "fin"}))
    <3>1. fd \in Seq(Frame({"synack", "rst", "fin"}))
      BY DEF SessionInv, TypeOK
    <3>2. \A k \in {"synack", "rst", "fin"} :
            Append(fd, [port |-> p, kind |-> k]) \in Seq(Frame({"synack", "rst", "fin"}))
      BY <2>1, <3>1, AppendFrame
    <3>3. fd' = fd \/ \E k \in {"synack", "rst"} : fd' = Append(fd, [port |-> p, kind |-> k])
      BY <1>1 DEF KernelSyn, ListenDrop, DropWithReset, Emits
    <3> QED
      BY <3>1, <3>2, <3>3
  <2>5. conn' \in [Ports -> {"closed", "half", "open", "finwait"}]
    BY <1>1, <2>1 DEF SessionInv, TypeOK, KernelSyn, SynReceived, ListenDrop, DropWithReset
  <2>6. UNCHANGED <<port, pc, outcome, afd, resent, accepted, listenq>>
    BY <1>1 DEF KernelSyn, KernelTakes
  <2> QED
    BY <2>1, <2>3, <2>4, <2>5, <2>6 DEF SessionInv, TypeOK, OwnInv, OwnConnection
<1>2. CASE KernelAck
  <2>1. Head(wire).port \in Ports /\ wire' \in Seq(Frame({"syn", "ack", "rst"}))
    BY <1>2, WireFacts DEF SessionInv, KernelAck, KernelTakes
  <2>2. listenq' \in Seq(Ports) /\ conn' \in [Ports -> {"closed", "half", "open", "finwait"}]
    BY <1>2, <2>1 DEF SessionInv, TypeOK, KernelAck
  <2>3. UNCHANGED <<port, pc, outcome, afd, resent, accepted, fd, faults, hurt>>
    BY <1>2 DEF KernelAck, KernelTakes, NoFault
  <2> QED
    BY <2>1, <2>2, <2>3 DEF SessionInv, TypeOK, OwnInv, OwnConnection
<1>3. CASE KernelRst
  <2>1. Head(wire).port \in Ports /\ wire' \in Seq(Frame({"syn", "ack", "rst"}))
    BY <1>3, WireFacts DEF SessionInv, KernelRst, KernelTakes
  <2>2. conn' \in [Ports -> {"closed", "half", "open", "finwait"}]
    BY <1>3, <2>1 DEF SessionInv, TypeOK, KernelRst
  <2>3. UNCHANGED <<port, pc, outcome, afd, resent, accepted, fd, listenq, faults, hurt>>
    BY <1>3 DEF KernelRst, KernelTakes, NoFault
  <2> QED
    BY <2>1, <2>2, <2>3 DEF SessionInv, TypeOK, OwnInv, OwnConnection
<1>4. ASSUME NEW p \in Ports, KernelSynAckAgain(p) PROVE SessionInv'
  <2>1. fd' \in Seq(Frame({"synack", "rst", "fin"}))
    BY <1>4, AppendFrame DEF SessionInv, TypeOK, KernelSynAckAgain, Emits
  <2>2. resent' \subseteq Ports
    BY <1>4 DEF SessionInv, TypeOK, KernelSynAckAgain
  <2>3. UNCHANGED <<port, pc, outcome, wire, conn, listenq, afd, accepted, faults, hurt>>
    BY <1>4 DEF KernelSynAckAgain, NoFault
  <2> QED
    BY <2>1, <2>2, <2>3 DEF SessionInv, TypeOK, OwnInv, OwnConnection
<1>5. ASSUME NEW p \in Ports, KernelGivesUp(p) PROVE SessionInv'
  <2>1. fd' \in Seq(Frame({"synack", "rst", "fin"}))
    BY <1>5, AppendFrame DEF SessionInv, TypeOK, KernelGivesUp, TcpDrop, Emits
  <2>2. conn' \in [Ports -> {"closed", "half", "open", "finwait"}]
    BY <1>5 DEF SessionInv, TypeOK, KernelGivesUp, TcpDrop
  <2>3. UNCHANGED <<port, pc, outcome, wire, resent, listenq, afd, accepted, faults, hurt>>
    BY <1>5 DEF KernelGivesUp, NoFault
  <2> QED
    BY <2>1, <2>2, <2>3 DEF SessionInv, TypeOK, OwnInv, OwnConnection
<1> QED
  BY <1>1, <1>2, <1>3, <1>4, <1>5 DEF Kernel

\* A segment of the running scenario, sent or lost, keeps the wire and the
\* fault counters within their types.
LEMMA SendsType ==
  ASSUME TypeOK, port \in Ports, NEW k \in {"syn", "ack", "rst"}, Sends(k)
  PROVE  /\ wire' \in Seq(Frame({"syn", "ack", "rst"}))
         /\ faults' \in 0 .. MaxFaults /\ hurt' \subseteq Ports
<1>1. wire \in Seq(Frame({"syn", "ack", "rst"}))
  BY DEF TypeOK
<1>2. Append(wire, [port |-> port, kind |-> k]) \in Seq(Frame({"syn", "ack", "rst"}))
  BY <1>1, AppendFrame
<1>3. wire' \in Seq(Frame({"syn", "ack", "rst"}))
  BY <1>1, <1>2 DEF Sends
<1>4. NoFault \/ Fault(port)
  BY DEF Sends
<1> QED
  BY <1>3, <1>4, FaultType DEF TypeOK

\* establish() starts the next scenario, which has reported nothing yet.
LEMMA EstablishStep == ASSUME SessionInv, Establish PROVE SessionInv'
<1>1. port + 1 \in Ports /\ port' = port + 1 /\ port \in Nat
  BY SizesAssumption DEF Establish, SessionInv, TypeOK, Ports, NoPort
<1>2. UNCHANGED <<fd, conn, listenq, afd, resent, accepted>>
  BY DEF Establish
<1>3. wire' \in Seq(Frame({"syn", "ack", "rst"}))
  <2>1. wire \in Seq(Frame({"syn", "ack", "rst"}))
    BY DEF SessionInv, TypeOK
  <2>2. Append(wire, [port |-> port + 1, kind |-> "syn"]) \in Seq(Frame({"syn", "ack", "rst"}))
    BY <1>1, <2>1, AppendFrame
  <2> QED
    BY <2>1, <2>2 DEF Establish
<1>4. faults' \in 0 .. MaxFaults /\ hurt' \subseteq Ports
  <2>1. NoFault \/ Fault(port + 1)
    BY DEF Establish
  <2> QED
    BY <1>1, <2>1, FaultType DEF SessionInv, TypeOK
<1>5. /\ pc' \in {"idle", "synack"}
      /\ \/ pc' = "synack" /\ outcome' = outcome
         \/ pc' = "idle" /\ outcome' = [outcome EXCEPT ![port + 1] = "SYN"]
  BY DEF Establish
<1>6. outcome' \in [Ports -> {"none", "ok"} \cup Errors]
  BY <1>1, <1>5 DEF SessionInv, TypeOK, Errors
<1>7. TypeOK'
  BY <1>1, <1>2, <1>3, <1>4, <1>5, <1>6 DEF SessionInv, TypeOK
<1>8. OwnConnection'
  BY <1>1, <1>2, <1>5 DEF SessionInv, TypeOK, OwnInv, OwnConnection
<1>9. \A p \in Ports : p > port' => outcome'[p] = "none"
  BY <1>1, <1>5, PortFacts DEF SessionInv, TypeOK, OwnInv
<1>10. outcome[port + 1] = "none"
  BY <1>1, PortFacts DEF SessionInv, OwnInv
<1> QED
  BY <1>1, <1>2, <1>5, <1>7, <1>8, <1>9, <1>10 DEF SessionInv, OwnInv

\* A running scenario has the port establish() gave it.
LEMMA Running == ASSUME SessionInv, pc # "idle" PROVE port \in Ports /\ port \in Nat
  BY PortFacts DEF SessionInv, OwnInv

\* A scenario that reports an outcome keeps OwnInv, provided that it reports a
\* measurement only after it was handed its own connection.
LEMMA ReportOwn ==
  ASSUME SessionInv, pc # "idle", NEW w \in {"ok"} \cup Errors, NEW l \in {"idle", "reset"},
         Reports(w, l), port' = port,
         l = "reset" => afd' \in Ports,
         w = "ok" => accepted'[port] = port,
         \A p \in Ports : p # port => accepted'[p] = accepted[p]
  PROVE  OwnInv' /\ outcome' \in [Ports -> {"none", "ok"} \cup Errors]
         /\ pc' \in {"idle", "reset"}
<1>1. port \in Ports /\ port \in Nat
  BY Running
<1>2. outcome' = [outcome EXCEPT ![port] = w] /\ pc' = l
  BY DEF Reports
<1>3. outcome \in [Ports -> {"none", "ok"} \cup Errors]
  BY DEF SessionInv, TypeOK
<1>4. outcome' \in [Ports -> {"none", "ok"} \cup Errors]
  BY <1>1, <1>2, <1>3
<1>5. \A p \in Ports : p > port' => outcome'[p] = "none"
  BY <1>1, <1>2, <1>3, PortFacts DEF SessionInv, OwnInv
<1>6. OwnConnection'
  BY <1>1, <1>2, <1>3 DEF SessionInv, OwnInv, OwnConnection
<1> QED
  BY <1>1, <1>2, <1>4, <1>5, <1>6 DEF OwnInv

\* The frames off the fd are typed.
LEMMA TakesType ==
  ASSUME TypeOK, Takes
  PROVE  fd' \in Seq(Frame({"synack", "rst", "fin"}))
<1>1. fd \in Seq(Frame({"synack", "rst", "fin"})) /\ fd # <<>>
  BY DEF TypeOK, Takes
<1> QED
  BY <1>1, HeadTail DEF Takes

\* close() adds a frame to the fd.
LEMMA ClosesType ==
  ASSUME TypeOK, NEW p \in Ports, Closes(p)
  PROVE  /\ fd' \in Seq(Frame({"synack", "rst", "fin"}))
         /\ conn' \in [Ports -> {"closed", "half", "open", "finwait"}]
<1>1. fd \in Seq(Frame({"synack", "rst", "fin"}))
  BY DEF TypeOK
<1>2. Append(fd, [port |-> p, kind |-> "fin"]) \in Seq(Frame({"synack", "rst", "fin"}))
  BY <1>1, AppendFrame
<1> QED
  BY <1>2 DEF Closes, Emits, TypeOK

\* The wait for the SYN-ACK, up to the acknowledgement.
LEMMA HandshakeStep ==
  ASSUME SessionInv, SkipFrame \/ TakeRst \/ TakeSynAck PROVE SessionInv'
<1>1. pc = "synack" /\ port \in Ports /\ UNCHANGED <<port, conn, listenq, afd, resent, accepted>>
  BY Running DEF SkipFrame, TakeRst, TakeSynAck, Takes
<1>2. fd' \in Seq(Frame({"synack", "rst", "fin"}))
  BY TakesType DEF SessionInv, SkipFrame, TakeRst, TakeSynAck
<1>3. CASE SkipFrame
  BY <1>1, <1>2, <1>3 DEF SkipFrame, NoFault, SessionInv, TypeOK, OwnInv, OwnConnection
<1>4. CASE TakeRst
  <2>1. OwnInv' /\ outcome' \in [Ports -> {"none", "ok"} \cup Errors]
        /\ pc' \in {"idle", "reset"}
    BY <1>1, <1>4, ReportOwn DEF TakeRst, Errors
  <2> QED
    BY <1>1, <1>2, <1>4, <2>1 DEF TakeRst, NoFault, SessionInv, TypeOK
<1>5. CASE TakeSynAck
  <2>1. /\ wire' \in Seq(Frame({"syn", "ack", "rst"}))
        /\ faults' \in 0 .. MaxFaults /\ hurt' \subseteq Ports
    BY <1>1, <1>5, SendsType DEF TakeSynAck, SessionInv
  <2>2. pc' = "accept" /\ outcome' = outcome
    BY <1>5 DEF TakeSynAck
  <2> QED
    BY <1>1, <1>2, <2>1, <2>2 DEF SessionInv, TypeOK, OwnInv, OwnConnection
<1> QED
  BY <1>3, <1>4, <1>5

\* Outcomes that leave the queues alone: the two timeouts, a refused or failed
\* write, and a measurement.
LEMMA OutcomeStep ==
  ASSUME SessionInv, SynAckTimeout \/ NotReady \/ RefuseSize \/ WriteFails \/ Receive
  PROVE  SessionInv'
<1>1. /\ UNCHANGED <<port, fd, wire, conn, listenq, afd, resent, accepted>>
      /\ NoFault \/ Fault(port)
  BY DEF SynAckTimeout, NotReady, RefuseSize, WriteFails, Receive, AtWrite, Late
<1>2. pc # "idle" /\ port \in Ports
  BY Running DEF SynAckTimeout, NotReady, RefuseSize, WriteFails, Receive, AtWrite
<1>3. faults' \in 0 .. MaxFaults /\ hurt' \subseteq Ports
  BY <1>1, <1>2, FaultType DEF SessionInv, TypeOK
<1>4. OwnInv' /\ outcome' \in [Ports -> {"none", "ok"} \cup Errors]
      /\ pc' \in {"idle", "reset"}
  <2>1. CASE SynAckTimeout
    BY <1>1, <1>2, <2>1, ReportOwn DEF SynAckTimeout, Errors
  <2>2. CASE NotReady
    BY <1>1, <1>2, <2>2, ReportOwn DEF NotReady, Errors
  <2>3. CASE RefuseSize
    <3>1. afd \in Ports
      BY <2>3 DEF RefuseSize, AtWrite, SessionInv, OwnInv
    <3> QED
      BY <1>1, <1>2, <2>3, <3>1, ReportOwn DEF RefuseSize, Errors
  <2>4. CASE WriteFails
    <3>1. afd \in Ports
      BY <2>4 DEF WriteFails, AtWrite, SessionInv, OwnInv
    <3> QED
      BY <1>1, <1>2, <2>4, <3>1, ReportOwn DEF WriteFails, Errors
  <2>5. CASE Receive
    <3>1. afd \in Ports /\ accepted[port] = port
      BY <2>5 DEF Receive, SessionInv, OwnInv
    <3> QED
      BY <1>1, <1>2, <2>5, <3>1, ReportOwn DEF Receive
  <2> QED
    BY <2>1, <2>2, <2>3, <2>4, <2>5
<1> QED
  BY <1>1, <1>3, <1>4 DEF SessionInv, TypeOK

\* accept(): only the scenario's own connection gets past the port check.
LEMMA AcceptStep == ASSUME SessionInv, Accept PROVE SessionInv'
<1>1. /\ pc = "accept" /\ port \in Ports /\ port \in Nat /\ listenq # <<>>
      /\ UNCHANGED <<port, wire, resent, faults, hurt>>
      /\ listenq' = Tail(listenq)
      /\ accepted' = [accepted EXCEPT ![port] = Head(listenq)]
  BY Running DEF Accept, NoFault
<1>2. Head(listenq) \in Ports /\ listenq' \in Seq(Ports)
  BY <1>1, HeadTail DEF SessionInv, TypeOK
<1>3. /\ accepted' \in [Ports -> {NoPort} \cup Ports]
      /\ accepted'[port] = Head(listenq)
      /\ \A p \in Ports : p # port => accepted'[p] = accepted[p]
  BY <1>1, <1>2 DEF SessionInv, TypeOK
<1>4. CASE PortOk
  <2>1. afd' = port /\ pc' = "write" /\ UNCHANGED <<outcome, fd, conn>> /\ accepted'[port] = port
    BY <1>3, <1>4 DEF Accept, PortOk
  <2>2. OwnConnection'
    BY <1>1, <1>3, <2>1 DEF SessionInv, OwnInv, OwnConnection
  <2>3. OwnInv'
    BY <1>1, <2>1, <2>2 DEF SessionInv, OwnInv
  <2> QED
    BY <1>1, <1>2, <1>3, <2>1, <2>3 DEF SessionInv, TypeOK
<1>5. CASE ~ PortOk
  <2>1. Reports("wrong port", "idle") /\ Closes(Head(listenq)) /\ afd' = afd
    BY <1>5 DEF Accept
  <2>2. /\ fd' \in Seq(Frame({"synack", "rst", "fin"}))
        /\ conn' \in [Ports -> {"closed", "half", "open", "finwait"}]
    BY <1>2, <2>1, ClosesType DEF SessionInv
  <2>3. OwnInv' /\ outcome' \in [Ports -> {"none", "ok"} \cup Errors]
        /\ pc' \in {"idle", "reset"}
    BY <1>1, <1>3, <2>1, ReportOwn DEF Errors
  <2> QED
    BY <1>1, <1>2, <1>3, <2>1, <2>2, <2>3 DEF SessionInv, TypeOK
<1> QED
  BY <1>4, <1>5

\* A write that fits keeps the scenario on its connection.
LEMMA WriteStep == ASSUME SessionInv, Write PROVE SessionInv'
  BY DEF Write, AtWrite, NoFault, SessionInv, TypeOK, OwnInv, OwnConnection

\* reset() closes the accepted socket and leaves the outcome alone.
LEMMA ResetStep == ASSUME SessionInv, Reset PROVE SessionInv'
<1>1. afd \in Ports /\ port \in Ports
  BY Running DEF Reset, SessionInv, OwnInv
<1>2. /\ fd' \in Seq(Frame({"synack", "rst", "fin"}))
      /\ conn' \in [Ports -> {"closed", "half", "open", "finwait"}]
  BY <1>1, ClosesType DEF Reset, SessionInv
<1>3. /\ wire' \in Seq(Frame({"syn", "ack", "rst"}))
      /\ faults' \in 0 .. MaxFaults /\ hurt' \subseteq Ports
  BY <1>1, SendsType DEF Reset, TearDown, SessionInv
<1>4. afd' = NoPort /\ pc' = "idle" /\ UNCHANGED <<port, outcome, listenq, resent, accepted>>
  BY DEF Reset
<1> QED
  BY <1>2, <1>3, <1>4 DEF SessionInv, TypeOK, OwnInv, OwnConnection

\* SessionInv holds throughout: the argument behind the two theorems below.
THEOREM SessionInvariance == Spec => []SessionInv
<1>1. ASSUME SessionInv, [Next]_vars PROVE SessionInv'
  <2>1. CASE Kernel
    BY <1>1, <2>1, KernelStep
  <2>2. CASE Scenario
    BY <1>1, <2>2, EstablishStep, HandshakeStep, OutcomeStep, AcceptStep, WriteStep, ResetStep
    DEF Scenario
  <2>3. CASE UNCHANGED vars
    BY <1>1, <2>3 DEF vars, SessionInv, TypeOK, OwnInv, OwnConnection
  <2> QED
    BY <1>1, <2>1, <2>2, <2>3 DEF Next
<1> QED
  BY SessionInit, <1>1, PTL DEF Spec

\* The handshake, the listen queue and the harness's variables keep their types,
\* whatever fails and however often.
THEOREM SessionTypeCorrect == Spec => []TypeOK
<1>1. SessionInv => TypeOK
  BY DEF SessionInv
<1> QED
  BY <1>1, SessionInvariance, PTL

\* A scenario that run_scenario reports as measured was handed its own
\* connection by accept(), for any number of scenarios and of faults.
THEOREM MeasuredOnOwnConnection == Spec => []OwnConnection
<1>1. SessionInv => OwnConnection
  BY DEF SessionInv, OwnInv
<1> QED
  BY <1>1, SessionInvariance, PTL

-----------------------------------------------------------------------------
(* CleanPort.  A scenario that no fault happens to has at most one frame on *)
(* the wire, of the kind its stage of the handshake calls for, and until    *)
(* the kernel takes it the endpoint stays as it was; from reset() on, that  *)
(* frame is the RST.                                                        *)

NoFrame(q, p) == \A j \in DOMAIN q : q[j].port # p
OneFrame(q, p, k) ==
    \E i \in DOMAIN q :
        /\ q[i].port = p /\ q[i].kind = k
        /\ \A j \in DOMAIN q : q[j].port = p => j = i
\* The fd holds an answer to p's SYN, and only such answers.
Answered(p) ==
    /\ \E i \in DOMAIN fd : fd[i].port = p
    /\ \A i \in DOMAIN fd : fd[i].port = p => fd[i].kind = "synack"
Unqueued(p) == \A j \in DOMAIN listenq : listenq[j] # p
Queued(p) ==
    \E i \in DOMAIN listenq :
        /\ listenq[i] = p
        /\ \A j \in DOMAIN listenq : listenq[j] = p => j = i

Fresh(p) ==
    /\ NoFrame(wire, p) /\ NoFrame(fd, p) /\ Unqueued(p)
    /\ conn[p] = "closed" /\ p \notin hurt
SynSent(p) ==
    /\ Unqueued(p)
    /\ \/ OneFrame(wire, p, "syn") /\ NoFrame(fd, p) /\ conn[p] = "closed"
       \/ NoFrame(wire, p) /\ Answered(p) /\ conn[p] = "half"
AckSent(p) ==
    \/ OneFrame(wire, p, "ack") /\ conn[p] = "half" /\ Unqueued(p)
    \/ NoFrame(wire, p) /\ conn[p] = "open" /\ Queued(p)
Held(p) == NoFrame(wire, p) /\ Unqueued(p) /\ conn[p] = "open"
Over(p) ==
    /\ Unqueued(p)
    /\ OneFrame(wire, p, "rst") \/ (NoFrame(wire, p) /\ conn[p] = "closed")

Owning == {"write", "receive", "reset"}
Stage(p) ==
    /\ (p = port /\ pc = "synack") => SynSent(p)
    /\ (p = port /\ pc = "accept") => AckSent(p)
    /\ (p = port /\ pc \in Owning) => Held(p)
    /\ (p < port \/ pc = "idle") => Over(p)
Unhurt(p) == p <= port /\ p \notin hurt /\ outcome[p] # "wrong port"

CleanInv ==
    /\ pc \in Owning => afd = port
    /\ \A p \in Ports : p > port => Fresh(p)
    /\ \A p \in Ports : Unhurt(p) => Stage(p)

\* A queue to which another port's frame is added.
LEMMA AppendOther ==
  ASSUME NEW S, NEW q \in Seq(S), NEW x \in S, NEW p, x.port # p
  PROVE  /\ NoFrame(q, p) => NoFrame(Append(q, x), p)
         /\ \A k : OneFrame(q, p, k) => OneFrame(Append(q, x), p, k)
<1> DEFINE r == Append(q, x)
<1>1. /\ DOMAIN q = 1 .. Len(q) /\ Len(q) \in Nat /\ DOMAIN r = 1 .. Len(q) + 1
      /\ r[Len(q) + 1] = x /\ \A j \in DOMAIN q : r[j] = q[j]
  OBVIOUS
<1> HIDE DEF r
<1>2. NoFrame(q, p) => NoFrame(r, p)
  BY <1>1 DEF NoFrame
<1>3. ASSUME NEW k, OneFrame(q, p, k) PROVE OneFrame(r, p, k)
  BY <1>1, <1>3 DEF OneFrame
<1> QED
  BY <1>2, <1>3 DEF r

\* A queue to which this port's first frame is added.
LEMMA AppendOwn ==
  ASSUME NEW S, NEW q \in Seq(S), NEW x \in S, NoFrame(q, x.port)
  PROVE  OneFrame(Append(q, x), x.port, x.kind)
<1> DEFINE r == Append(q, x)
<1>1. /\ DOMAIN q = 1 .. Len(q) /\ Len(q) \in Nat /\ DOMAIN r = 1 .. Len(q) + 1
      /\ r[Len(q) + 1] = x /\ \A j \in DOMAIN q : r[j] = q[j]
  OBVIOUS
<1> HIDE DEF r
<1>2. Len(q) + 1 \in DOMAIN r /\ \A j \in DOMAIN r : r[j].port = x.port => j = Len(q) + 1
  BY <1>1 DEF NoFrame
<1> QED
  BY <1>1, <1>2 DEF OneFrame, r

\* A queue from which a frame is taken: another port's, or this port's only one.
LEMMA TailOther ==
  ASSUME NEW S, NEW q \in Seq(S), q # <<>>, NEW p
  PROVE  /\ NoFrame(q, p) => NoFrame(Tail(q), p) /\ Head(q).port # p
         /\ Head(q).port # p => \A k : OneFrame(q, p, k) => OneFrame(Tail(q), p, k)
         /\ Head(q).port = p => \A k : OneFrame(q, p, k) => NoFrame(Tail(q), p) /\ Head(q).kind = k
<1> DEFINE r == Tail(q)  h == Head(q)
<1>1. /\ DOMAIN q = 1 .. Len(q) /\ Len(q) \in Nat \ {0} /\ DOMAIN r = 1 .. Len(q) - 1
      /\ h = q[1] /\ \A j \in DOMAIN r : r[j] = q[j + 1]
  OBVIOUS
<1> HIDE DEF r, h
<1>2. NoFrame(q, p) => NoFrame(r, p) /\ h.port # p
  BY <1>1 DEF NoFrame
<1>3. ASSUME h.port # p, NEW k, OneFrame(q, p, k) PROVE OneFrame(r, p, k)
  <2>1. PICK i \in DOMAIN q : /\ q[i].port = p /\ q[i].kind = k
                              /\ \A j \in DOMAIN q : q[j].port = p => j = i
    BY <1>3 DEF OneFrame
  <2>2. i - 1 \in DOMAIN r /\ r[i - 1] = q[i]
    BY <1>1, <1>3, <2>1
  <2>3. ASSUME NEW j \in DOMAIN r, r[j].port = p PROVE j = i - 1
    BY <1>1, <2>1, <2>3
  <2> QED
    BY <2>1, <2>2, <2>3 DEF OneFrame
<1>4. ASSUME h.port = p, NEW k, OneFrame(q, p, k) PROVE NoFrame(r, p) /\ h.kind = k
  <2>1. PICK i \in DOMAIN q : /\ q[i].port = p /\ q[i].kind = k
                              /\ \A j \in DOMAIN q : q[j].port = p => j = i
    BY <1>4 DEF OneFrame
  <2>2. i = 1
    BY <1>1, <1>4, <2>1
  <2> QED
    BY <1>1, <2>1, <2>2 DEF NoFrame
<1> QED
  BY <1>2, <1>3, <1>4 DEF r, h

\* The listen queue likewise.
LEMMA QueueAppend ==
  ASSUME NEW x \in Ports, listenq \in Seq(Ports), listenq' = Append(listenq, x), NEW p
  PROVE  /\ x # p => (Unqueued(p) => Unqueued(p)') /\ (Queued(p) => Queued(p)')
         /\ x = p => (Unqueued(p) => Queued(p)')
<1>1. /\ DOMAIN listenq = 1 .. Len(listenq) /\ Len(listenq) \in Nat
      /\ DOMAIN listenq' = 1 .. Len(listenq) + 1 /\ listenq'[Len(listenq) + 1] = x
      /\ \A j \in DOMAIN listenq : listenq'[j] = listenq[j]
  OBVIOUS
<1>2. x # p => (Unqueued(p) => Unqueued(p)')
  BY <1>1 DEF Unqueued
<1>4. ASSUME x # p, Queued(p) PROVE Queued(p)'
  <2>1. PICK i \in DOMAIN listenq : /\ listenq[i] = p
                                    /\ \A j \in DOMAIN listenq : listenq[j] = p => j = i
    BY <1>4 DEF Queued
  <2>2. i \in DOMAIN listenq' /\ \A j \in DOMAIN listenq' : listenq'[j] = p => j = i
    BY <1>1, <1>4, <2>1
  <2> QED
    BY <1>1, <2>1, <2>2 DEF Queued
<1>3. ASSUME x = p, Unqueued(p) PROVE Queued(p)'
  <2>1. /\ Len(listenq) + 1 \in DOMAIN listenq'
        /\ \A j \in DOMAIN listenq' : listenq'[j] = p => j = Len(listenq) + 1
    BY <1>1, <1>3 DEF Unqueued
  <2> QED
    BY <1>1, <1>3, <2>1 DEF Queued
<1> QED
  BY <1>2, <1>3, <1>4

\* Taking the head of the listen queue, for its port and for any other.
LEMMA QueueTail ==
  ASSUME listenq \in Seq(Ports), listenq # <<>>, listenq' = Tail(listenq), NEW p
  PROVE  /\ Unqueued(p) => Unqueued(p)' /\ Head(listenq) # p
         /\ Head(listenq) # p => (Queued(p) => Queued(p)')
         /\ Head(listenq) = p => (Queued(p) => Unqueued(p)')
<1> DEFINE h == Head(listenq)
<1>1. /\ DOMAIN listenq = 1 .. Len(listenq) /\ Len(listenq) \in Nat \ {0}
      /\ DOMAIN listenq' = 1 .. Len(listenq) - 1 /\ h = listenq[1]
      /\ \A j \in DOMAIN listenq' : listenq'[j] = listenq[j + 1]
  OBVIOUS
<1> HIDE DEF h
<1>2. Unqueued(p) => Unqueued(p)' /\ h # p
  BY <1>1 DEF Unqueued
<1>3. ASSUME h # p, Queued(p) PROVE Queued(p)'
  <2>1. PICK i \in DOMAIN listenq : /\ listenq[i] = p
                                    /\ \A j \in DOMAIN listenq : listenq[j] = p => j = i
    BY <1>3 DEF Queued
  <2>2. i - 1 \in DOMAIN listenq' /\ listenq'[i - 1] = p
    BY <1>1, <1>3, <2>1
  <2>3. ASSUME NEW j \in DOMAIN listenq', listenq'[j] = p PROVE j = i - 1
    BY <1>1, <2>1, <2>3
  <2> QED
    BY <2>2, <2>3 DEF Queued
<1>4. ASSUME h = p, Queued(p) PROVE Unqueued(p)'
  <2>1. PICK i \in DOMAIN listenq : /\ listenq[i] = p
                                    /\ \A j \in DOMAIN listenq : listenq[j] = p => j = i
    BY <1>4 DEF Queued
  <2>2. 1 \in DOMAIN listenq /\ listenq[1] = p
    BY <1>1, <1>4
  <2>3. i = 1
    BY <2>1, <2>2
  <2> QED
    BY <1>1, <2>1, <2>3 DEF Unqueued
<1> QED
  BY <1>2, <1>3, <1>4 DEF h

\* What a frame on the fd does to the ports it is not for, and to its own.
LEMMA EmitsView ==
  ASSUME TypeOK, NEW q \in Ports, NEW k \in {"synack", "rst", "fin"}, Emits(q, k), NEW p
  PROVE  /\ q # p => (NoFrame(fd, p) => NoFrame(fd', p)) /\ (Answered(p) => Answered(p)')
         /\ (q = p /\ k = "synack") => (NoFrame(fd, p) => Answered(p)')
<1> DEFINE x == [port |-> q, kind |-> k]
<1>1. fd \in Seq(Frame({"synack", "rst", "fin"})) /\ x \in Frame({"synack", "rst", "fin"})
      /\ fd' = Append(fd, x) /\ x.port = q /\ x.kind = k
  BY DEF TypeOK, Frame, Emits
<1> HIDE DEF x
<1>2. /\ DOMAIN fd = 1 .. Len(fd) /\ Len(fd) \in Nat /\ DOMAIN fd' = 1 .. Len(fd) + 1
      /\ fd'[Len(fd) + 1] = x /\ \A j \in DOMAIN fd : fd'[j] = fd[j]
  BY <1>1
<1>3. q # p => (NoFrame(fd, p) => NoFrame(fd', p))
  BY <1>1, <1>2 DEF NoFrame
<1>4. ASSUME q # p, Answered(p) PROVE Answered(p)'
  <2>1. PICK i \in DOMAIN fd : fd[i].port = p
    BY <1>4 DEF Answered
  <2>2. i \in DOMAIN fd' /\ fd'[i].port = p
    BY <1>2, <2>1
  <2>3. \A j \in DOMAIN fd' : fd'[j].port = p => fd'[j].kind = "synack"
    BY <1>1, <1>2, <1>4 DEF Answered
  <2> QED
    BY <2>2, <2>3 DEF Answered
<1>5. ASSUME q = p, k = "synack", NoFrame(fd, p) PROVE Answered(p)'
  <2>1. Len(fd) + 1 \in DOMAIN fd' /\ fd'[Len(fd) + 1].port = p
    BY <1>1, <1>2, <1>5
  <2>2. \A j \in DOMAIN fd' : fd'[j].port = p => fd'[j].kind = "synack"
    BY <1>1, <1>2, <1>5 DEF NoFrame
  <2> QED
    BY <2>1, <2>2 DEF Answered
<1> QED
  BY <1>3, <1>4, <1>5

\* What taking the next frame off the fd does.
LEMMA TakesView ==
  ASSUME TypeOK, Takes, NEW p
  PROVE  /\ NoFrame(fd, p) => NoFrame(fd', p) /\ Head(fd).port # p
         /\ Answered(p) => \/ Head(fd).port = p /\ Head(fd).kind = "synack"
                           \/ Head(fd).port # p /\ Answered(p)'
<1> DEFINE h == Head(fd)
<1>1. fd \in Seq(Frame({"synack", "rst", "fin"})) /\ fd # <<>> /\ fd' = Tail(fd)
  BY DEF TypeOK, Takes
<1>2. /\ DOMAIN fd = 1 .. Len(fd) /\ Len(fd) \in Nat \ {0} /\ DOMAIN fd' = 1 .. Len(fd) - 1
      /\ h = fd[1] /\ \A j \in DOMAIN fd' : fd'[j] = fd[j + 1]
  BY <1>1
<1> HIDE DEF h
<1>3. NoFrame(fd, p) => NoFrame(fd', p) /\ h.port # p
  BY <1>2 DEF NoFrame
<1>4. ASSUME Answered(p), h.port # p PROVE Answered(p)'
  <2>1. PICK i \in DOMAIN fd : fd[i].port = p
    BY <1>4 DEF Answered
  <2>2. i - 1 \in DOMAIN fd' /\ fd'[i - 1].port = p
    BY <1>2, <1>4, <2>1
  <2>3. \A j \in DOMAIN fd' : fd'[j].port = p => fd'[j].kind = "synack"
    BY <1>2, <1>4 DEF Answered
  <2> QED
    BY <2>2, <2>3 DEF Answered
<1>5. Answered(p) /\ h.port = p => h.kind = "synack"
  BY <1>2 DEF Answered
<1> QED
  BY <1>3, <1>4, <1>5 DEF h

\* A step that is none of p's business.
Same(p) ==
    /\ NoFrame(wire, p) => NoFrame(wire', p)
    /\ \A k \in {"syn", "ack", "rst"} : OneFrame(wire, p, k) => OneFrame(wire', p, k)
    /\ NoFrame(fd, p) => NoFrame(fd', p)
    /\ (p = port /\ Answered(p)) => Answered(p)'
    /\ Unqueued(p) => Unqueued(p)'
    /\ Queued(p) => Queued(p)'
    /\ conn'[p] = conn[p]

\* Such a step keeps p where it is.
LEMMA SameStages ==
  ASSUME NEW p, Same(p)
  PROVE  /\ (p = port /\ SynSent(p)) => SynSent(p)'
         /\ AckSent(p) => AckSent(p)'
         /\ Held(p) => Held(p)'
         /\ Over(p) => Over(p)'
         /\ (Fresh(p) /\ p \notin hurt') => Fresh(p)'
<1>1. (p = port /\ SynSent(p)) => SynSent(p)'
  BY DEF Same, SynSent
<1>2. AckSent(p) => AckSent(p)'
  BY DEF Same, AckSent
<1>3. Held(p) => Held(p)'
  BY DEF Same, Held
<1>4. Over(p) => Over(p)'
  BY DEF Same, Over
<1>5. (Fresh(p) /\ p \notin hurt') => Fresh(p)'
  BY DEF Same, Fresh
<1> QED
  BY <1>1, <1>2, <1>3, <1>4, <1>5

\* A step about port q leaves the others where they are.
LEMMA StepOf ==
  ASSUME SessionInv, CleanInv, port' = port, NEW q \in Ports, q <= port,
         hurt \subseteq hurt', hurt' \subseteq hurt \cup {q},
         q = port \/ pc' = pc,
         \A p \in Ports : p # q => outcome'[p] = outcome[p],
         \A p \in Ports : (p # q /\ (p > port \/ Unhurt(p))) => Same(p),
         pc' \in Owning => afd' = port,
         Unhurt(q)' => Stage(q)'
  PROVE  CleanInv'
<1>1. port \in Nat /\ Ports \subseteq Nat
  BY PortFacts DEF SessionInv, TypeOK, NoPort
<1>2. ASSUME NEW p \in Ports, p > port' PROVE Fresh(p)'
  <2>1. p # q /\ Fresh(p) /\ Same(p)
    BY <1>1, <1>2 DEF CleanInv
  <2>2. p \notin hurt'
    BY <2>1 DEF Fresh
  <2> QED
    BY <2>1, <2>2, SameStages
<1>3. ASSUME NEW p \in Ports, p # q, Unhurt(p)' PROVE Stage(p)'
  <2>1. Unhurt(p) /\ Stage(p) /\ Same(p)
    BY <1>3 DEF CleanInv, Unhurt
  <2>2. p = port => pc' = pc
    BY <1>3
  <2>3. CASE p = port
    BY <1>1, <2>1, <2>2, <2>3, SameStages DEF Stage
  <2>4. CASE p # port
    <3>0. p \in Nat /\ p <= port
      BY <1>1, <2>1 DEF Unhurt
    <3>1. p < port
      BY <1>1, <2>4, <3>0
    <3>2. Over(p)'
      BY <2>1, <3>1, SameStages DEF Stage
    <3> QED
      BY <2>4, <3>1, <3>2 DEF Stage
  <2> QED
    BY <2>3, <2>4
<1> QED
  BY <1>2, <1>3 DEF CleanInv

\* The wire of a typed state, and what the kernel finds at its head: a frame of
\* a scenario that has begun.
LEMMA WireHead ==
  ASSUME SessionInv, CleanInv, wire # <<>>
  PROVE  Head(wire).port \in Ports /\ Head(wire).port <= port
<1>1. wire \in Seq(Frame({"syn", "ack", "rst"})) /\ port \in Nat /\ Ports \subseteq Nat
  BY PortFacts DEF SessionInv, TypeOK, NoPort
<1>2. Head(wire).port \in Ports
  BY WireFacts DEF SessionInv
<1>3. ~ NoFrame(wire, Head(wire).port)
  BY <1>1, TailOther
<1>4. ~ (Head(wire).port > port)
  BY <1>2, <1>3 DEF CleanInv, Fresh
<1>5. Head(wire).port \in Nat
  BY <1>1, <1>2
<1> QED
  BY <1>1, <1>2, <1>4, <1>5

\* What is on the wire after the kernel has taken its head.
LEMMA KernelTakesView ==
  ASSUME TypeOK, NEW k, KernelTakes(k), NEW p
  PROVE  /\ NoFrame(wire, p) => NoFrame(wire', p) /\ Head(wire).port # p
         /\ Head(wire).port # p => \A l : OneFrame(wire, p, l) => OneFrame(wire', p, l)
         /\ Head(wire).port = p => \A l : OneFrame(wire, p, l) => NoFrame(wire', p) /\ l = k
<1>1. /\ wire \in Seq(Frame({"syn", "ack", "rst"})) /\ wire # <<>> /\ wire' = Tail(wire)
      /\ Head(wire).kind = k
  BY DEF TypeOK, KernelTakes
<1> QED
  BY <1>1, TailOther

\* Nothing has happened yet.
LEMMA CleanInit == Init => CleanInv
<1> SUFFICES ASSUME Init PROVE CleanInv
  OBVIOUS
<1>1. \A p \in Ports : Fresh(p)
  BY DEF Init, Fresh, NoFrame, Unqueued
<1>2. \A p \in Ports : ~ (p <= port)
  BY PortFacts DEF Init, Ports, NoPort
<1> QED
  BY <1>1, <1>2 DEF Init, CleanInv, Unhurt, Owning

\* Where the scenario is that a frame at the head of the wire belongs to.
LEMMA TakenStage ==
  ASSUME SessionInv, CleanInv, NEW k, KernelTakes(k), NEW q \in Ports, q = Head(wire).port, Unhurt(q)
  PROVE  /\ NoFrame(wire', q)
         /\ port \in Nat /\ q \in Nat /\ q <= port
         /\ \/ k = "syn" /\ q = port /\ pc = "synack" /\ Unqueued(q) /\ NoFrame(fd, q)
            \/ k = "ack" /\ q = port /\ pc = "accept" /\ Unqueued(q)
            \/ k = "rst" /\ (q < port \/ pc = "idle") /\ Unqueued(q)
<1>1. TypeOK /\ Stage(q)
  BY DEF SessionInv, CleanInv
<1>2. ~ NoFrame(wire, q) /\ \A l : OneFrame(wire, q, l) => l = k /\ NoFrame(wire', q)
  BY <1>1, KernelTakesView
<1>3. port \in Nat /\ q \in Nat /\ q <= port
  <2>1. port \in Nat /\ Ports \subseteq Nat
    BY <1>1, PortFacts DEF TypeOK, NoPort
  <2> QED
    BY <2>1 DEF Unhurt
<1>4. pc \in {"idle", "synack", "accept"} \cup Owning
  BY <1>1 DEF TypeOK, Owning
<1>5. q = port \/ q < port
  BY <1>3
<1>6. CASE q < port \/ pc = "idle"
  <2>1. Over(q)
    BY <1>1, <1>6 DEF Stage
  <2> QED
    BY <1>2, <1>3, <1>6, <2>1 DEF Over
<1>7. CASE q = port /\ pc = "synack"
  <2>1. SynSent(q)
    BY <1>1, <1>7 DEF Stage
  <2> QED
    BY <1>2, <1>3, <1>7, <2>1 DEF SynSent
<1>8. CASE q = port /\ pc = "accept"
  <2>1. AckSent(q)
    BY <1>1, <1>8 DEF Stage
  <2> QED
    BY <1>2, <1>3, <1>8, <2>1 DEF AckSent
<1>9. CASE q = port /\ pc \in Owning
  <2>1. Held(q)
    BY <1>1, <1>9 DEF Stage
  <2> QED
    BY <1>2, <2>1 DEF Held
<1> QED
  BY <1>4, <1>5, <1>6, <1>7, <1>8, <1>9

\* The stage of the running scenario.
LEMMA StageOfRunning ==
  ASSUME port' \in Nat, NEW q, q = port',
         pc' = "synack" => SynSent(q)', pc' = "accept" => AckSent(q)',
         pc' \in Owning => Held(q)', pc' = "idle" => Over(q)'
  PROVE  Stage(q)'
<1>1. ~ (q < port')
  OBVIOUS
<1> QED
  BY <1>1 DEF Stage

\* A kernel step that takes a frame of q's leaves the other ports alone, if it
\* does so with the fd and the listen queue.
LEMMA KernelSame ==
  ASSUME SessionInv, NEW k, KernelTakes(k), NEW p \in Ports, p # Head(wire).port,
         NoFrame(fd, p) => NoFrame(fd', p), Answered(p) => Answered(p)',
         Unqueued(p) => Unqueued(p)', Queued(p) => Queued(p)', conn'[p] = conn[p]
  PROVE  Same(p)
  BY KernelTakesView DEF Same, SessionInv

\* The kernel takes a SYN: an unhurt scenario has its answer.
LEMMA CleanSyn == ASSUME SessionInv, CleanInv, KernelSyn PROVE CleanInv'
<1>0. PICK q : q = Head(wire).port
  OBVIOUS
<1>1. /\ TypeOK /\ KernelTakes("syn") /\ wire # <<>> /\ listenq' = listenq
      /\ UNCHANGED <<port, pc, outcome, afd>>
  BY DEF SessionInv, KernelSyn, KernelTakes
<1>2. q \in Ports /\ q <= port
  BY <1>0, <1>1, WireHead
<1>3. /\ hurt \subseteq hurt' /\ hurt' \subseteq hurt \cup {q}
      /\ fd' = fd \/ \E k \in {"synack", "rst"} : Emits(q, k)
      /\ conn' = conn \/ conn' = [conn EXCEPT ![q] = "half"]
      /\ q \notin hurt' => (Emits(q, "synack") /\ conn' = [conn EXCEPT ![q] = "half"])
  BY <1>0 DEF KernelSyn, SynReceived, ListenDrop, DropWithReset, NoFault, Fault
<1>4. ASSUME NEW p \in Ports, p # q PROVE Same(p)
  <2>1. NoFrame(fd, p) => NoFrame(fd', p)
    BY <1>1, <1>2, <1>3, <1>4, EmitsView
  <2>2. Answered(p) => Answered(p)'
    <3>1. CASE fd' = fd
      BY <3>1 DEF Answered
    <3> QED
      BY <1>1, <1>2, <1>3, <1>4, <3>1, EmitsView
  <2>3. (Unqueued(p) => Unqueued(p)') /\ (Queued(p) => Queued(p)')
    BY <1>1 DEF Unqueued, Queued
  <2>4. conn'[p] = conn[p]
    BY <1>1, <1>2, <1>3, <1>4 DEF TypeOK
  <2> QED
    BY <1>0, <1>1, <1>4, <2>1, <2>2, <2>3, <2>4, KernelSame
<1>5. ASSUME Unhurt(q)' PROVE Stage(q)'
  <2>1. Unhurt(q) /\ q \notin hurt'
    BY <1>1, <1>2, <1>3, <1>5 DEF Unhurt
  <2>2. /\ NoFrame(wire', q) /\ Unqueued(q) /\ NoFrame(fd, q)
        /\ q = port /\ pc = "synack" /\ port \in Nat
    BY <1>0, <1>1, <1>2, <2>1, TakenStage
  <2>3. Answered(q)' /\ conn'[q] = "half"
    BY <1>1, <1>2, <1>3, <2>1, <2>2, EmitsView DEF TypeOK
  <2>4. SynSent(q)'
    BY <1>1, <2>2, <2>3 DEF SynSent, Unqueued
  <2> QED
    BY <1>1, <2>2, <2>4, StageOfRunning DEF Owning
<1>6. pc' \in Owning => afd' = port
  BY <1>1 DEF CleanInv
<1> QED
  BY <1>1, <1>2, <1>3, <1>4, <1>5, <1>6, StepOf

\* The kernel takes the ACK: the connection is in the listen queue.
LEMMA CleanAck == ASSUME SessionInv, CleanInv, KernelAck PROVE CleanInv'
<1>0. PICK q : q = Head(wire).port
  OBVIOUS
<1>1. /\ TypeOK /\ KernelTakes("ack") /\ wire # <<>> /\ listenq' = Append(listenq, q)
      /\ UNCHANGED <<port, pc, outcome, afd, fd, hurt>>
      /\ conn' = [conn EXCEPT ![q] = "open"]
  BY <1>0 DEF SessionInv, KernelAck, KernelTakes, NoFault
<1>2. q \in Ports /\ q <= port
  BY <1>0, <1>1, WireHead
<1>3. ASSUME NEW p \in Ports, p # q PROVE Same(p)
  <2>1. (NoFrame(fd, p) => NoFrame(fd', p)) /\ (Answered(p) => Answered(p)')
    BY <1>1 DEF Answered
  <2>2. (Unqueued(p) => Unqueued(p)') /\ (Queued(p) => Queued(p)')
    BY <1>1, <1>2, <1>3, QueueAppend DEF TypeOK
  <2>3. conn'[p] = conn[p]
    BY <1>1, <1>2, <1>3 DEF TypeOK
  <2> QED
    BY <1>0, <1>1, <1>3, <2>1, <2>2, <2>3, KernelSame
<1>4. ASSUME Unhurt(q)' PROVE Stage(q)'
  <2>1. Unhurt(q)
    BY <1>1, <1>4 DEF Unhurt
  <2>2. /\ NoFrame(wire', q) /\ Unqueued(q) /\ q = port /\ pc = "accept" /\ port \in Nat
    BY <1>0, <1>1, <1>2, <2>1, TakenStage
  <2>3. Queued(q)' /\ conn'[q] = "open"
    BY <1>1, <1>2, <2>2, QueueAppend DEF TypeOK
  <2>4. AckSent(q)'
    BY <2>2, <2>3 DEF AckSent
  <2> QED
    BY <1>1, <2>2, <2>4, StageOfRunning DEF Owning
<1>5. pc' \in Owning => afd' = port
  BY <1>1 DEF CleanInv
<1> QED
  BY <1>1, <1>2, <1>3, <1>4, <1>5, StepOf

\* The kernel takes the RST: no endpoint is left.
LEMMA CleanRst == ASSUME SessionInv, CleanInv, KernelRst PROVE CleanInv'
<1>0. PICK q : q = Head(wire).port
  OBVIOUS
<1>1. /\ TypeOK /\ KernelTakes("rst") /\ wire # <<>>
      /\ UNCHANGED <<port, pc, outcome, afd, fd, hurt, listenq>>
      /\ conn' = [conn EXCEPT ![q] = "closed"]
  BY <1>0 DEF SessionInv, KernelRst, KernelTakes, NoFault
<1>2. q \in Ports /\ q <= port
  BY <1>0, <1>1, WireHead
<1>3. ASSUME NEW p \in Ports, p # q PROVE Same(p)
  <2>1. (NoFrame(fd, p) => NoFrame(fd', p)) /\ (Answered(p) => Answered(p)')
    BY <1>1 DEF Answered
  <2>2. (Unqueued(p) => Unqueued(p)') /\ (Queued(p) => Queued(p)')
    BY <1>1 DEF Unqueued, Queued
  <2>3. conn'[p] = conn[p]
    BY <1>1, <1>2, <1>3 DEF TypeOK
  <2> QED
    BY <1>0, <1>1, <1>3, <2>1, <2>2, <2>3, KernelSame
<1>4. ASSUME Unhurt(q)' PROVE Stage(q)'
  <2>1. Unhurt(q)
    BY <1>1, <1>4 DEF Unhurt
  <2>2. NoFrame(wire', q) /\ Unqueued(q) /\ (q < port \/ pc = "idle") /\ port \in Nat /\ q \in Nat
    BY <1>0, <1>1, <1>2, <2>1, TakenStage
  <2>3. Over(q)'
    <3>1. conn'[q] = "closed"
      BY <1>1, <1>2 DEF TypeOK
    <3> QED
      BY <1>1, <2>2, <3>1 DEF Over, Unqueued
  <2> QED
    BY <1>1, <2>2, <2>3 DEF Stage, Owning
<1>5. pc' \in Owning => afd' = port
  BY <1>1 DEF CleanInv
<1> QED
  BY <1>1, <1>2, <1>3, <1>4, <1>5, StepOf

\* The kernel's timers act on connections that something went wrong with.
LEMMA CleanTimers ==
  ASSUME SessionInv, CleanInv, NEW q \in Ports, KernelSynAckAgain(q) \/ KernelGivesUp(q)
  PROVE  CleanInv'
<1>1. /\ TypeOK /\ conn[q] = "half"
      /\ UNCHANGED <<port, pc, outcome, wire, listenq, afd, hurt>>
      /\ \E k \in {"synack", "rst"} : Emits(q, k)
      /\ conn' = conn \/ conn' = [conn EXCEPT ![q] = "closed"]
  BY DEF SessionInv, KernelSynAckAgain, KernelGivesUp, TcpDrop, NoFault
<1>2. port \in Nat /\ q \in Nat
  BY <1>1, PortFacts DEF TypeOK, NoPort
<1>3. q <= port
  <2>1. ~ Fresh(q)
    BY <1>1 DEF Fresh
  <2> QED
    BY <1>2, <2>1 DEF CleanInv
<1>4. ~ Unhurt(q)
  <2>1. CASE KernelSynAckAgain(q)
    BY <2>1 DEF KernelSynAckAgain, Unhurt
  <2>2. CASE KernelGivesUp(q)
    <3>1. outcome[q] # "none" /\ NoFrame(wire, q)
      BY <2>2 DEF KernelGivesUp, NoFrame
    <3>2. ~ Over(q)
      <4>1. \A k : ~ OneFrame(wire, q, k)
        BY <3>1 DEF OneFrame, NoFrame
      <4> QED
        BY <1>1, <4>1 DEF Over
    <3>3. q = port => pc \in {"idle", "reset"}
      BY <1>1, <3>1 DEF SessionInv, OwnInv, TypeOK
    <3>4. ~ Held(q)
      BY <1>1 DEF Held
    <3> QED
      BY <1>2, <1>3, <3>2, <3>3, <3>4 DEF CleanInv, Stage, Owning
  <2> QED
    BY <2>1, <2>2
<1>5. ASSUME NEW p \in Ports, p # q PROVE Same(p)
  <2>1. (NoFrame(fd, p) => NoFrame(fd', p)) /\ (Answered(p) => Answered(p)')
    BY <1>1, <1>5, EmitsView
  <2>2. (Unqueued(p) => Unqueued(p)') /\ (Queued(p) => Queued(p)')
    BY <1>1 DEF Unqueued, Queued
  <2>3. conn'[p] = conn[p]
    BY <1>1, <1>5 DEF TypeOK
  <2> QED
    BY <1>1, <2>1, <2>2, <2>3 DEF Same
<1>6. ~ Unhurt(q)'
  BY <1>1, <1>4 DEF Unhurt
<1>7. pc' \in Owning => afd' = port
  BY <1>1 DEF CleanInv
<1> QED
  BY <1>1, <1>3, <1>5, <1>6, <1>7, StepOf

\* A step of the running scenario that touches no queue and no endpoint.
LEMMA UntouchedSame ==
  ASSUME NEW p, UNCHANGED <<fd, wire, conn, listenq>>
  PROVE  Same(p)
  BY DEF Same, NoFrame, OneFrame, Answered, Unqueued, Queued

\* A step of the running scenario.
LEMMA StepOfRunning ==
  ASSUME SessionInv, CleanInv, pc # "idle", port' = port,
         hurt \subseteq hurt', hurt' \subseteq hurt \cup {port},
         \A p \in Ports : p # port => outcome'[p] = outcome[p],
         \A p \in Ports : (p # port /\ (p > port \/ Unhurt(p))) => Same(p),
         pc' \in Owning => afd' = port,
         \A q \in Ports : (q = port /\ Unhurt(q)') =>
            /\ pc' = "synack" => SynSent(q)'
            /\ pc' = "accept" => AckSent(q)'
            /\ pc' \in Owning => Held(q)'
            /\ pc' = "idle" => Over(q)'
  PROVE  CleanInv'
<1>1. PICK q \in Ports : q = port
  BY Running
<1>2. q <= port /\ port' \in Nat
  BY <1>1, Running
<1>3. ASSUME Unhurt(q)' PROVE Stage(q)'
  BY <1>1, <1>2, <1>3, StageOfRunning
<1> QED
  BY <1>1, <1>2, <1>3, StepOf

\* A fault of the running scenario, or none.
LEMMA FaultHurt ==
  ASSUME NEW p, NoFault \/ Fault(p)
  PROVE  /\ hurt \subseteq hurt' /\ hurt' \subseteq hurt \cup {p}
         /\ p \notin hurt' => NoFault
  BY DEF NoFault, Fault

\* What the running scenario's stage is, if it is unhurt.
LEMMA RunningStage ==
  ASSUME SessionInv, CleanInv, pc # "idle", port \notin hurt
  PROVE  /\ pc = "synack" => SynSent(port)
         /\ pc = "accept" => AckSent(port)
         /\ pc \in Owning \ {"reset"} => Held(port)
         /\ pc = "reset" /\ outcome[port] # "wrong port" => Held(port)
<1>1. port \in Ports /\ port \in Nat
  BY Running
<1>2. pc \in {"synack", "accept", "write", "receive"} => outcome[port] = "none"
  BY DEF SessionInv, OwnInv
<1>3. outcome[port] # "wrong port" => Unhurt(port)
  <2>1. port <= port
    BY <1>1
  <2> QED
    BY <2>1 DEF Unhurt
<1>4. outcome[port] # "wrong port" => Stage(port)
  BY <1>1, <1>3 DEF CleanInv
<1> QED
  BY <1>2, <1>4 DEF Stage, Owning

\* A segment of the running scenario: on the wire, unless it is hurt.
LEMMA SendsView ==
  ASSUME TypeOK, port \in Ports, NEW k \in {"syn", "ack", "rst"}, Sends(k), NEW p
  PROVE  /\ p # port => /\ NoFrame(wire, p) => NoFrame(wire', p)
                        /\ \A l : OneFrame(wire, p, l) => OneFrame(wire', p, l)
         /\ (p = port /\ p \notin hurt') => (NoFrame(wire, p) => OneFrame(wire', p, k))
<1> DEFINE x == [port |-> port, kind |-> k]
<1>1. wire \in Seq(Frame({"syn", "ack", "rst"})) /\ x \in Frame({"syn", "ack", "rst"})
      /\ x.port = port /\ x.kind = k
  BY DEF TypeOK, Frame
<1>2. /\ wire' = Append(wire, x) \/ wire' = wire
      /\ port \notin hurt' => wire' = Append(wire, x)
  BY DEF Sends, Fault
<1> HIDE DEF x
<1>3. p # port => /\ NoFrame(wire, p) => NoFrame(wire', p)
                  /\ \A l : OneFrame(wire, p, l) => OneFrame(wire', p, l)
  BY <1>1, <1>2, AppendOther
<1>4. (p = port /\ p \notin hurt') => (NoFrame(wire, p) => OneFrame(wire', p, k))
  BY <1>1, <1>2, AppendOwn
<1> QED
  BY <1>3, <1>4

\* The wait for the SYN-ACK: an unhurt scenario finds its answer and no RST.
LEMMA CleanHandshake ==
  ASSUME SessionInv, CleanInv, SkipFrame \/ TakeRst \/ TakeSynAck PROVE CleanInv'
<1>1. /\ TypeOK /\ Takes /\ pc = "synack" /\ port \in Ports
      /\ UNCHANGED <<port, conn, listenq>>
  BY Running DEF SkipFrame, TakeRst, TakeSynAck, Takes, SessionInv
<1>2. \A p \in Ports : /\ NoFrame(fd, p) => NoFrame(fd', p) /\ Head(fd).port # p
                       /\ Answered(p) => \/ Head(fd).port = p /\ Head(fd).kind = "synack"
                                         \/ Head(fd).port # p /\ Answered(p)'
  BY <1>1, TakesView
<1>3. \A p : Unqueued(p) => Unqueued(p)'
  BY <1>1 DEF Unqueued
<1>4. \A p : Queued(p) => Queued(p)'
  BY <1>1 DEF Queued
<1>5. CASE SkipFrame
  <2>1. /\ UNCHANGED <<pc, outcome, wire, hurt>>
        /\ Head(fd).port # port \/ Head(fd).kind \notin {"synack", "rst"}
    BY <1>5 DEF SkipFrame, NoFault, Mine
  <2>2. ASSUME NEW p \in Ports, p # port PROVE Same(p)
    BY <1>1, <1>2, <1>3, <1>4, <2>1, <2>2 DEF Same
  <2>3. ASSUME NEW q \in Ports, q = port, Unhurt(q)' PROVE SynSent(q)'
    <3>1. SynSent(q)
      BY <1>1, <2>1, <2>3, RunningStage DEF Unhurt
    <3>2. Answered(q) => Answered(q)'
      BY <1>2, <2>1, <2>3
    <3> QED
      BY <1>1, <1>2, <1>3, <2>1, <3>1, <3>2 DEF SynSent
  <2> QED
    BY <1>1, <2>1, <2>2, <2>3, StepOfRunning DEF Owning
<1>6. CASE TakeRst
  <2>1. /\ UNCHANGED <<wire, hurt>> /\ Head(fd).port = port /\ Head(fd).kind = "rst"
        /\ pc' = "idle" /\ outcome' = [outcome EXCEPT ![port] = "RST"]
    BY <1>6 DEF TakeRst, NoFault, Mine, Reports
  <2>2. ASSUME NEW p \in Ports, p # port PROVE Same(p) /\ outcome'[p] = outcome[p]
    BY <1>1, <1>2, <1>3, <1>4, <2>1, <2>2 DEF Same, TypeOK
  <2>3. port \in hurt
    <3>1. ~ SynSent(port)
      BY <1>1, <1>2, <2>1 DEF SynSent
    <3> QED
      BY <1>1, <3>1, RunningStage
  <2> QED
    BY <1>1, <2>1, <2>2, <2>3, StepOfRunning DEF Owning, Unhurt
<1>7. CASE TakeSynAck
  <2>1. /\ Sends("ack") /\ pc' = "accept" /\ outcome' = outcome
        /\ Head(fd).port = port /\ Head(fd).kind = "synack"
    BY <1>7 DEF TakeSynAck, Mine
  <2>2. NoFault \/ Fault(port)
    BY <2>1 DEF Sends
  <2>3. hurt \subseteq hurt' /\ hurt' \subseteq hurt \cup {port} /\ (port \notin hurt' => NoFault)
    BY <2>2, FaultHurt
  <2>4. ASSUME NEW p \in Ports, p # port PROVE Same(p)
    BY <1>1, <1>2, <1>3, <1>4, <2>1, <2>4, SendsView DEF Same
  <2>5. ASSUME NEW q \in Ports, q = port, Unhurt(q)' PROVE AckSent(q)'
    <3>1. q \notin hurt' /\ q \notin hurt
      BY <2>3, <2>5 DEF Unhurt
    <3>2. SynSent(q)
      BY <1>1, <2>5, <3>1, RunningStage
    <3>3. NoFrame(wire, q) /\ conn[q] = "half" /\ Unqueued(q)
      BY <1>2, <2>1, <2>5, <3>2 DEF SynSent
    <3>4. OneFrame(wire', q, "ack")
      BY <1>1, <2>1, <2>5, <3>1, <3>3, SendsView
    <3> QED
      BY <1>1, <1>3, <3>3, <3>4 DEF AckSent
  <2> QED
    BY <1>1, <2>1, <2>3, <2>4, <2>5, StepOfRunning DEF Owning
<1> QED
  BY <1>5, <1>6, <1>7

\* The two timeouts: an unhurt scenario has its answer under way.
LEMMA CleanTimeouts ==
  ASSUME SessionInv, CleanInv, SynAckTimeout \/ NotReady PROVE CleanInv'
<1>1. /\ UNCHANGED <<port, fd, wire, conn, listenq, afd>> /\ pc' = "idle"
      /\ NoFault \/ Fault(port)
      /\ \E w : outcome' = [outcome EXCEPT ![port] = w]
  BY DEF SynAckTimeout, NotReady, Late, Reports
<1>2. pc \in {"synack", "accept"} /\ port \in Ports
  BY Running DEF SynAckTimeout, NotReady
<1>3. hurt \subseteq hurt' /\ hurt' \subseteq hurt \cup {port} /\ (port \notin hurt' => port \notin hurt)
  BY <1>1, FaultHurt
<1>4. port \in hurt'
  <2>1. SUFFICES ASSUME port \notin hurt' PROVE FALSE
    OBVIOUS
  <2>2. ~ Fault(port) /\ port \notin hurt
    BY <1>3, <2>1 DEF Fault
  <2>3. CASE SynAckTimeout
    <3>1. pc = "synack" /\ fd = <<>> /\ wire = <<>>
      BY <2>2, <2>3 DEF SynAckTimeout, Late
    <3>2. SynSent(port)
      BY <2>2, <3>1, RunningStage
    <3> QED
      BY <3>1, <3>2 DEF SynSent, OneFrame, Answered
  <2>4. CASE NotReady
    <3>1. pc = "accept" /\ listenq = <<>> /\ wire = <<>>
      BY <2>2, <2>4 DEF NotReady, Late
    <3>2. AckSent(port)
      BY <2>2, <3>1, RunningStage
    <3> QED
      BY <3>1, <3>2 DEF AckSent, OneFrame, Queued
  <2> QED
    BY <2>3, <2>4
<1>5. \A p \in Ports : Same(p) /\ (p # port => outcome'[p] = outcome[p])
  BY <1>1, UntouchedSame DEF SessionInv, TypeOK
<1> QED
  BY <1>1, <1>2, <1>3, <1>4, <1>5, StepOfRunning DEF Owning, Unhurt

\* On the accepted connection nothing is on the wire.
LEMMA CleanOwning ==
  ASSUME SessionInv, CleanInv, RefuseSize \/ WriteFails \/ Write \/ Receive PROVE CleanInv'
<1>1. /\ UNCHANGED <<port, fd, wire, conn, listenq, afd>> /\ pc' \in Owning
      /\ pc \in {"write", "receive"}
      /\ NoFault \/ Fault(port)
      /\ outcome' = outcome \/ \E w : outcome' = [outcome EXCEPT ![port] = w]
  BY DEF RefuseSize, WriteFails, Write, Receive, AtWrite, Reports, Owning
<1>2. hurt \subseteq hurt' /\ hurt' \subseteq hurt \cup {port}
  BY <1>1, FaultHurt
<1>3. \A p \in Ports : Same(p) /\ (p # port => outcome'[p] = outcome[p])
  BY <1>1, UntouchedSame DEF SessionInv, TypeOK
<1>4. ASSUME NEW q \in Ports, q = port, Unhurt(q)' PROVE Held(q)'
  <2>1. q \notin hurt
    BY <1>2, <1>4 DEF Unhurt
  <2>2. Held(q)
    BY <1>1, <1>4, <2>1, RunningStage DEF Owning
  <2> QED
    BY <1>1, <2>2 DEF Held, Unqueued
<1>5. afd' = port
  BY <1>1 DEF CleanInv, Owning
<1> QED
  BY <1>1, <1>2, <1>3, <1>4, <1>5, StepOfRunning DEF Owning

\* accept(): the other ports with a connection in the queue are hurt, or were
\* handed another's connection themselves.
LEMMA CleanAccept == ASSUME SessionInv, CleanInv, Accept PROVE CleanInv'
<1>0. PICK h : h = Head(listenq)
  OBVIOUS
<1>1. /\ TypeOK /\ pc = "accept" /\ port \in Ports /\ port \in Nat
      /\ listenq \in Seq(Ports) /\ listenq # <<>> /\ listenq' = Tail(listenq)
      /\ UNCHANGED <<port, wire, hurt>>
  BY Running DEF Accept, NoFault, SessionInv, TypeOK
<1>2. h \in Ports
  BY <1>0, <1>1, HeadTail
<1>3. ASSUME NEW p
      PROVE  /\ Unqueued(p) => Unqueued(p)' /\ h # p
             /\ h # p => (Queued(p) => Queued(p)')
             /\ h = p => (Queued(p) => Unqueued(p)')
  BY <1>0, <1>1, QueueTail
<1>4. ASSUME NEW p \in Ports, p # port, p > port \/ Unhurt(p) PROVE Unqueued(p)
  <2>1. CASE p > port
    BY <2>1 DEF CleanInv, Fresh
  <2>2. CASE ~ (p > port)
    <3>1. p \in Nat
      BY PortFacts
    <3>2. p < port /\ Unhurt(p)
      BY <1>1, <1>4, <2>2, <3>1
    <3> QED
      BY <3>2 DEF CleanInv, Stage, Over
  <2> QED
    BY <2>1, <2>2
<1>5. CASE PortOk
  <2>1. h = port /\ afd' = port /\ pc' = "write" /\ UNCHANGED <<outcome, fd, conn>>
    BY <1>0, <1>5 DEF Accept, PortOk
  <2>2. ASSUME NEW p \in Ports, p # port PROVE Same(p)
    BY <1>1, <1>3, <2>1, <2>2 DEF Same
  <2>3. ASSUME NEW q \in Ports, q = port, Unhurt(q)' PROVE Held(q)'
    <3>1. AckSent(q)
      BY <1>1, <2>3, RunningStage DEF Unhurt
    <3>2. NoFrame(wire, q) /\ conn[q] = "open" /\ Queued(q)
      BY <1>3, <2>1, <2>3, <3>1 DEF AckSent
    <3> QED
      BY <1>1, <1>3, <2>1, <2>3, <3>2 DEF Held
  <2> QED
    BY <1>1, <2>1, <2>2, <2>3, StepOfRunning DEF Owning
<1>6. CASE ~ PortOk
  <2>1. /\ pc' = "idle" /\ outcome' = [outcome EXCEPT ![port] = "wrong port"]
        /\ Emits(h, "fin") /\ conn' = [conn EXCEPT ![h] = "finwait"]
    BY <1>0, <1>6 DEF Accept, Reports, Closes
  <2>2. ASSUME NEW p \in Ports, p # port, p > port \/ Unhurt(p) PROVE Same(p)
    <3>1. Unqueued(p) /\ h # p
      BY <1>3, <1>4, <2>2
    <3>2. NoFrame(fd, p) => NoFrame(fd', p)
      BY <1>1, <1>2, <2>1, <3>1, EmitsView
    <3>3. conn'[p] = conn[p]
      BY <1>1, <1>2, <2>1, <3>1 DEF TypeOK
    <3> QED
      BY <1>1, <1>3, <2>2, <3>1, <3>2, <3>3 DEF Same
  <2>3. \A p \in Ports : p # port => outcome'[p] = outcome[p]
    BY <1>1, <2>1 DEF TypeOK
  <2>4. outcome'[port] = "wrong port"
    BY <1>1, <2>1 DEF TypeOK
  <2> QED
    BY <1>1, <2>1, <2>2, <2>3, <2>4, StepOfRunning DEF Owning, Unhurt
<1> QED
  BY <1>5, <1>6

\* reset(): an unhurt scenario's RST is on the wire.
LEMMA CleanReset == ASSUME SessionInv, CleanInv, Reset PROVE CleanInv'
<1>1. /\ TypeOK /\ pc = "reset" /\ port \in Ports /\ afd = port
      /\ Sends("rst") /\ pc' = "idle" /\ UNCHANGED <<port, outcome, listenq>>
      /\ Emits(port, "fin") /\ conn' = [conn EXCEPT ![port] = "finwait"]
  BY Running DEF Reset, TearDown, Closes, SessionInv, CleanInv, Owning
<1>2. hurt \subseteq hurt' /\ hurt' \subseteq hurt \cup {port}
  <2>1. NoFault \/ Fault(port)
    BY <1>1 DEF Sends
  <2> QED
    BY <2>1, FaultHurt
<1>3. ASSUME NEW p \in Ports, p # port PROVE Same(p)
  <2>1. NoFrame(fd, p) => NoFrame(fd', p)
    BY <1>1, <1>3, EmitsView
  <2>2. (Unqueued(p) => Unqueued(p)') /\ (Queued(p) => Queued(p)')
    BY <1>1 DEF Unqueued, Queued
  <2>3. conn'[p] = conn[p]
    BY <1>1, <1>3 DEF TypeOK
  <2>4. /\ NoFrame(wire, p) => NoFrame(wire', p)
        /\ \A k \in {"syn", "ack", "rst"} : OneFrame(wire, p, k) => OneFrame(wire', p, k)
    BY <1>1, <1>3, SendsView
  <2> QED
    BY <1>3, <2>1, <2>2, <2>3, <2>4 DEF Same
<1>4. ASSUME NEW q \in Ports, q = port, Unhurt(q)' PROVE Over(q)'
  <2>1. q \notin hurt' /\ q \notin hurt /\ outcome[q] # "wrong port"
    BY <1>1, <1>2, <1>4 DEF Unhurt
  <2>2. Held(q)
    BY <1>1, <1>4, <2>1, RunningStage
  <2>3. OneFrame(wire', q, "rst")
    BY <1>1, <1>4, <2>1, <2>2, SendsView DEF Held
  <2> QED
    BY <1>1, <2>2, <2>3 DEF Over, Held, Unqueued
<1> QED
  BY <1>1, <1>2, <1>3, <1>4, StepOfRunning DEF Owning

\* establish(): the next port has not been used.
LEMMA CleanEstablish == ASSUME SessionInv, CleanInv, Establish PROVE CleanInv'
<1>0. PICK n : n = port + 1
  OBVIOUS
<1>1. /\ TypeOK /\ pc = "idle" /\ n \in Ports /\ port' = n /\ port \in Nat /\ n \in Nat
      /\ UNCHANGED <<fd, conn, listenq>>
  BY <1>0, SizesAssumption DEF Establish, SessionInv, TypeOK, Ports, NoPort
<1>2. /\ hurt \subseteq hurt' /\ hurt' \subseteq hurt \cup {n}
      /\ \A p \in Ports : p # n => outcome'[p] = outcome[p]
      /\ pc' \in {"idle", "synack"}
      /\ wire' = wire \/ wire' = Append(wire, [port |-> n, kind |-> "syn"])
      /\ n \notin hurt' => pc' = "synack" /\ wire' = Append(wire, [port |-> n, kind |-> "syn"])
  BY <1>0, <1>1 DEF Establish, NoFault, Fault, TypeOK
<1>3. Fresh(n)
  BY <1>0, <1>1 DEF CleanInv
<1>4. PICK x : x = [port |-> n, kind |-> "syn"]
  OBVIOUS
<1>5. /\ x \in Frame({"syn", "ack", "rst"}) /\ x.port = n /\ x.kind = "syn"
      /\ wire \in Seq(Frame({"syn", "ack", "rst"}))
  BY <1>1, <1>4 DEF Frame, TypeOK
<1>6. ASSUME NEW p \in Ports, p # n
      PROVE  /\ NoFrame(wire, p) => NoFrame(wire', p)
             /\ OneFrame(wire, p, "rst") => OneFrame(wire', p, "rst")
  BY <1>2, <1>4, <1>5, <1>6, AppendOther
<1>7. \A p : Unqueued(p) => Unqueued(p)'
  BY <1>1 DEF Unqueued
<1>8. ASSUME NEW p \in Ports, p > port' PROVE Fresh(p)'
  <2>1. p \in Nat /\ p # n /\ p > port
    BY <1>0, <1>1, <1>8, PortFacts
  <2>2. Fresh(p)
    BY <2>1 DEF CleanInv
  <2> QED
    BY <1>1, <1>2, <1>6, <1>7, <2>1, <2>2 DEF Fresh
<1>9. ASSUME NEW p \in Ports, Unhurt(p)' PROVE Stage(p)'
  <2>1. CASE p = n
    <3>1. pc' = "synack" /\ wire' = Append(wire, x)
      BY <1>2, <1>4, <1>9, <2>1 DEF Unhurt
    <3>2. OneFrame(wire', n, "syn")
      BY <1>3, <1>5, <3>1, AppendOwn DEF Fresh
    <3>3. SynSent(p)'
      BY <1>1, <1>3, <1>7, <2>1, <3>2 DEF SynSent, Fresh
    <3> QED
      BY <1>1, <2>1, <3>1, <3>3, StageOfRunning DEF Owning
  <2>2. CASE p # n
    <3>1. p \in Nat /\ p <= n
      BY <1>1, <1>9, PortFacts DEF Unhurt
    <3>2. p <= port /\ p < n
      BY <1>0, <1>1, <2>2, <3>1
    <3>3. Unhurt(p)
      BY <1>2, <1>9, <2>2, <3>2 DEF Unhurt
    <3>4. Over(p)
      BY <1>1, <3>3 DEF CleanInv, Stage
    <3>5. Over(p)'
      BY <1>1, <1>6, <1>7, <2>2, <3>4 DEF Over
    <3> QED
      BY <1>1, <2>2, <3>5 DEF Stage
  <2> QED
    BY <2>1, <2>2
<1> QED
  BY <1>2, <1>8, <1>9 DEF CleanInv, Owning

\* A scenario that no fault happens to and that is not handed another's
\* connection leaves no endpoint behind in the kernel, once the kernel has seen
\* everything: reset() gives the next one "a clean port" (peer.hpp).
THEOREM PortLeftClean == Spec => []CleanPort
<1>1. ASSUME SessionInv, CleanInv, [Next]_vars PROVE CleanInv'
  <2>1. CASE Kernel
    BY <1>1, <2>1, CleanSyn, CleanAck, CleanRst, CleanTimers DEF Kernel
  <2>2. CASE Scenario
    BY <1>1, <2>2, CleanEstablish, CleanHandshake, CleanTimeouts, CleanAccept, CleanOwning,
       CleanReset DEF Scenario
  <2>3. CASE UNCHANGED vars
    <3>1. /\ UNCHANGED <<port, pc, outcome, afd, hurt>>
          /\ UNCHANGED <<fd, wire, conn, listenq>>
      BY <2>3 DEF vars
    <3>2. \A p \in Ports : Same(p)
      BY <3>1, UntouchedSame
    <3>3. ASSUME NEW p \in Ports, p > port' PROVE Fresh(p)'
      BY <1>1, <3>1, <3>2, <3>3, SameStages DEF CleanInv, Fresh
    <3>4. ASSUME NEW p \in Ports, Unhurt(p)' PROVE Stage(p)'
      <4>1. Stage(p)
        BY <1>1, <3>1, <3>4 DEF CleanInv, Unhurt
      <4> QED
        BY <3>1, <3>2, <4>1, SameStages DEF Stage
    <3> QED
      BY <1>1, <3>1, <3>3, <3>4 DEF CleanInv
  <2> QED
    BY <1>1, <2>1, <2>2, <2>3 DEF Next
<1>2. ASSUME SessionInv, CleanInv PROVE CleanPort
  <2>1. \A p \in 1 .. port : p \in Ports /\ p <= port
    <3>1. port \in {0} \cup 1 .. Len(Sizes) /\ Len(Sizes) \in Nat
      BY <1>2, PortFacts DEF SessionInv, TypeOK, Ports, NoPort
    <3> QED
      BY <3>1 DEF Ports
  <2>2. ASSUME pc = "idle", NEW p \in Ports, Unhurt(p) PROVE Over(p)
    BY <1>2, <2>2 DEF CleanInv, Stage
  <2>3. ASSUME wire = <<>>, NEW p PROVE ~ OneFrame(wire, p, "rst")
    BY <2>3 DEF OneFrame
  <2> QED
    BY <2>1, <2>2, <2>3 DEF CleanPort, Unhurt, Over
<1> QED
  BY SessionInvariance, CleanInit, <1>1, <1>2, PTL DEF Spec
=============================================================================
