-------------------------------- MODULE Peer --------------------------------
(***************************************************************************)
(* tp::Peer::receive (src/src/peer.cpp): the loop that drains the utun fd, *)
(* applies the loss policy, reassembles, queues delayed ACKs and fills in  *)
(* the RunSummary an experiment prints, against a kernel TCP sender.       *)
(*                                                                         *)
(* The kernel's side admits more than the sources in src/reference/xnu do  *)
(* (XnuSender follows those): it is any sender, with SACK or without, that *)
(* respects the advertised window, segments and repacketises as it likes,  *)
(* retransmits spuriously up to a budget and by timeout when nothing is in *)
(* flight, and may interpose control segments or a RST.  The peer          *)
(* reassembles with the contract of ReassemblySpec, which Reassembly       *)
(* implements.  Time is discrete and may pass between any two steps of a   *)
(* call.                                                                   *)
(***************************************************************************)
EXTENDS Stream, LossPolicy

CONSTANTS
    Targets,      \* total_target of each successive call of receive()
    Policies,     \* the loss policy of each call
    SendSack,     \* offer_sack && send_sack_blocks
    AckDelay,     \* cfg.ack_delay_ms
    Timeouts,     \* the values of timeout_ms a call may be given
    Slice,        \* the 20 ms drain slice
    MaxTime,      \* bound: the last instant
    MaxRexmt,     \* bound: spurious retransmissions by the kernel
    MaxControl,   \* bound: FIN, pure ACK and foreign frames
    MaxRst,       \* bound: RSTs from the kernel
    MaxFail       \* bound: failing writes to the utun fd

ASSUME TargetsAssumption ==
    /\ Targets \in Seq(Nat) /\ Len(Policies) = Len(Targets)
    /\ \A k \in 1 .. Len(Targets) : Targets[k] <= StreamLen
    /\ \A k \in 1 .. Len(Policies) : Policies[k] \in Seq(DropRule)
\* The experiments write more before every call, and each policy names bytes
\* not yet written by the calls before, in rules that have not fired.
ASSUME ForwardAssumption ==
    /\ \A j, k \in 1 .. Len(Targets) : j < k => Targets[j] <= Targets[k]
    /\ \A k \in 1 .. Len(Policies) : \A r \in 1 .. Len(Policies[k]) :
          /\ Policies[k][r].lo < Policies[k][r].hi /\ Policies[k][r].fired = 0
          /\ k > 1 => Targets[k - 1] <= Policies[k][r].lo
ASSUME BoundsAssumption ==
    /\ {AckDelay, Slice, MaxTime, MaxRexmt, MaxControl, MaxRst, MaxFail} \subseteq Nat
    /\ Timeouts \subseteq Nat /\ SendSack \in BOOLEAN

VARIABLES
    \* the kernel and the fd
    wrote,        \* bytes the experiment has written to the accepted socket
    snd_max,      \* bytes the kernel has sent at least once
    snd_una,      \* the kernel's oldest unacknowledged byte
    fd,           \* frames queued on the utun fd
    spent,        \* budgets used: rexmt, control, rst, fail
    \* the peer
    got, frontier,     \* rsm_: positions accepted, in-order prefix
    max_seq_end_seen,  \* max_seq_end_seen_
    pending,      \* pending_: ACKs waiting for their due time
    rules,        \* the LossPolicy of the running call
    pc,           \* where receive() is
    call,         \* number of the running or last call
    t_end,        \* deadline of the call
    mark,         \* deadline of the running drain, then the now of flush_acks()
    batch,        \* segments taken by the drain and not yet processed
    hole_open, hole_end_seq,
    sum,          \* the RunSummary
    now,          \* now_ms()
    \* history
    told,         \* positions the kernel was told have arrived
    acked,        \* highest cumulative ACK written, as a position
    log           \* of the running call, see EmptyLog

kernelVars == <<wrote, snd_max, snd_una>>
holeVars == <<hole_open, hole_end_seq>>
rsmVars == <<got, frontier>>
callVars == <<call, t_end>>
toldVars == <<told, acked>>
vars == <<kernelVars, fd, spent, rsmVars, max_seq_end_seen, pending, rules, pc, callVars,
          mark, batch, holeVars, sum, now, toldVars, log>>

Budget == [rexmt |-> MaxRexmt, control |-> MaxControl, rst |-> MaxRst, fail |-> MaxFail]
Spend(b) == spent[b] < Budget[b] /\ spent' = [spent EXCEPT ![b] = @ + 1]

NoTime == -1

EmptySummary(wanted) ==
    [bytes_wanted |-> wanted, bytes_delivered |-> 0, completed |-> FALSE,
     saw_rst |-> FALSE, saw_fin |-> FALSE,
     segments_dropped |-> 0, retransmits |-> 0,
     acks_sent |-> 0, dup_acks_sent |-> 0, ack_send_failures |-> 0,
     t_first_data |-> NoTime, t_last_original |-> NoTime,
     t_hole_created |-> NoTime, t_hole_filled |-> NoTime, hol_delay_ms |-> NoTime]

\* Segments accepted; ACKs written that repeat the number before them; time of
\* the first drop; bytes the policy took; whether the call started with data
\* outstanding from an earlier one.
EmptyLog == [accepted |-> 0, repeats |-> 0, firstDrop |-> NoTime, lost |-> {}, behind |-> FALSE]

\* establish() has returned: nothing sent, nothing received, the handshake's
\* ACK is the last one the kernel saw.
Init ==
    /\ wrote = 0 /\ snd_max = 0 /\ snd_una = 0
    /\ fd = <<>>
    /\ spent = [b \in DOMAIN Budget |-> 0]
    /\ got = {} /\ frontier = 0
    /\ max_seq_end_seen = SeqOf(0)
    /\ pending = <<>> /\ rules = <<>>
    /\ pc = "idle" /\ call = 0 /\ t_end = 0 /\ mark = 0 /\ batch = <<>>
    /\ hole_open = FALSE /\ hole_end_seq = 0
    /\ sum = EmptySummary(0) /\ now = 0
    /\ told = {} /\ acked = 0 /\ log = EmptyLog

-----------------------------------------------------------------------------
(* The kernel sender: more than tcp_output(), tcp_input() and the timers do *)

KernelFrame == UNCHANGED <<rsmVars, max_seq_end_seen, pending, rules, pc, callVars, mark,
                           batch, holeVars, sum, now, toldVars, log>>

Emit(kind, pos, len) == fd' = Append(fd, [kind |-> kind, pos |-> pos, len |-> len])

\* A connection the kernel has reset sends nothing more.
Alive == spent.rst = 0

\* New data, in segments of any size the MSS allows.
KSend(len) ==
    /\ Alive
    /\ snd_max + len <= wrote
    /\ snd_max + len <= snd_una + Window
    /\ Emit("data", snd_max, len)
    /\ snd_max' = snd_max + len
    /\ UNCHANGED <<wrote, snd_una, spent>>
    /\ KernelFrame

\* A retransmission the peer did not need, from any unacknowledged byte; it
\* may be cut differently from the original and run into new data.
KRexmt(pos, len) ==
    /\ Alive
    /\ Spend("rexmt")
    /\ snd_una <= pos /\ pos < snd_max
    /\ pos + len <= wrote
    /\ pos + len <= snd_una + Window
    /\ Emit("data", pos, len)
    /\ snd_max' = IF pos + len > snd_max THEN pos + len ELSE snd_max
    /\ UNCHANGED <<wrote, snd_una>>
    /\ KernelFrame

\* The retransmission timer: everything is quiet and data is outstanding.
Quiet == fd = <<>> /\ batch = <<>> /\ pending = <<>> /\ snd_una = acked
KRto(len) ==
    /\ Alive /\ pc = "drain" /\ Quiet
    /\ snd_una + len <= snd_max
    /\ Emit("data", snd_una, len)
    /\ UNCHANGED <<kernelVars, spent>>
    /\ KernelFrame

\* The kernel takes in the ACKs written so far.
KAck ==
    /\ snd_una < acked
    /\ snd_una' = acked
    /\ UNCHANGED <<wrote, snd_max, fd, spent>>
    /\ KernelFrame

\* A FIN, a pure ACK, or a frame for another 4-tuple on the same fd.
KControl(kind) ==
    /\ Alive
    /\ Spend("control")
    /\ Emit(kind, snd_max, 0)
    /\ UNCHANGED kernelVars
    /\ KernelFrame

KReset ==
    /\ pc # "idle"
    /\ Spend("rst")
    /\ Emit("rst", snd_max, 0)
    /\ UNCHANGED kernelVars
    /\ KernelFrame

Kernel ==
    \/ \E len \in 1 .. MaxLen : KSend(len)
    \/ \E pos \in 0 .. StreamLen - 1, len \in 1 .. MaxLen : KRexmt(pos, len)
    \/ \E len \in 1 .. MaxLen : KRto(len)
    \/ KAck
    \/ \E kind \in {"fin", "ack", "foreign"} : KControl(kind)
    \/ KReset

-----------------------------------------------------------------------------
(* receive() *)

delivered == Wrap(frontier)          \* rsm.delivered(), a uint32_t

\* The experiment writes what the call is to deliver, which fails on a reset
\* connection, then calls receive().
StartReceive ==
    /\ pc = "idle" /\ Alive
    /\ call < Len(Targets)
    /\ call' = call + 1
    /\ wrote' = Targets[call + 1]
    /\ rules' = Policies[call + 1]
    /\ sum' = EmptySummary(Targets[call + 1])
    /\ hole_open' = FALSE /\ hole_end_seq' = 0
    /\ \E timeout_ms \in Timeouts : t_end' = now + timeout_ms
    /\ log' = [EmptyLog EXCEPT !.behind = frontier < snd_max]
    /\ pc' = "loop"
    /\ UNCHANGED <<snd_max, snd_una, fd, spent, max_seq_end_seen, pending, mark, batch, now,
                   rsmVars, toldVars>>

PeerFrame == UNCHANGED <<kernelVars, callVars, now>>

\* Mutant: the loop has no deadline.
ContinueForever == delivered < sum.bytes_wanted
Continue == now < t_end /\ delivered < sum.bytes_wanted

\* The while test, and the drain slice cut short for the next due ACK; with no
\* time left in the slice, drain() returns before it polls.
Deadline ==
    IF pending # <<>> /\ Head(pending).due < now + Slice THEN Head(pending).due ELSE now + Slice
EnterDrain ==
    /\ pc = "loop"
    /\ Continue
    /\ IF Deadline <= now THEN pc' = "batch" /\ UNCHANGED mark
                          ELSE pc' = "drain" /\ mark' = Deadline
    /\ UNCHANGED <<fd, spent, rsmVars, max_seq_end_seen, pending, rules, batch, holeVars, sum,
                   toldVars, log>>
    /\ PeerFrame

LeaveLoop ==
    /\ pc = "loop"
    /\ ~ Continue
    /\ pc' = "final"
    /\ UNCHANGED <<fd, spent, rsmVars, max_seq_end_seen, pending, rules, mark, batch, holeVars,
                   sum, toldVars, log>>
    /\ PeerFrame

\* u_.drain(): one frame is read and stamped, possibly after the deadline when
\* the poll was entered before it.
DrainRead ==
    /\ pc = "drain"
    /\ fd # <<>>
    /\ batch' = Append(batch, [s |-> Head(fd), t_ms |-> now])
    /\ fd' = Tail(fd)
    /\ UNCHANGED <<spent, rsmVars, max_seq_end_seen, pending, rules, pc, mark, holeVars, sum,
                   toldVars, log>>
    /\ PeerFrame

\* Nothing more is queued after the first frame, or the slice is over.
DrainReturn ==
    /\ pc = "drain"
    /\ IF batch # <<>> THEN fd = <<>> ELSE now >= mark
    /\ pc' = "batch"
    /\ mark' = 0
    /\ UNCHANGED <<fd, spent, rsmVars, max_seq_end_seen, pending, rules, batch, holeVars,
                   sum, toldVars, log>>
    /\ PeerFrame

\* The loop over the batch takes its next segment, of one of these kinds.
Taking(kinds) ==
    /\ pc = "batch"
    /\ batch # <<>>
    /\ Head(batch).s.kind \in kinds
BatchFrame == UNCHANGED <<fd, spent, toldVars>> /\ PeerFrame

HandleRst ==
    /\ Taking({"rst"})
    /\ sum' = [sum EXCEPT !.saw_rst = TRUE]
    /\ batch' = <<>>
    /\ pc' = "idle"
    /\ UNCHANGED <<rsmVars, max_seq_end_seen, pending, rules, mark, holeVars, log>>
    /\ BatchFrame

\* Another connection's frame is skipped; a FIN or a pure ACK only noted.
HandleControl ==
    /\ Taking({"fin", "ack", "foreign"})
    /\ sum' = IF Head(batch).s.kind = "fin" THEN [sum EXCEPT !.saw_fin = TRUE] ELSE sum
    /\ batch' = Tail(batch)
    /\ UNCHANGED <<pc, rsmVars, max_seq_end_seen, pending, rules, mark, holeVars, log>>
    /\ BatchFrame

seg == Head(batch).s
rel == int32(seq_sub(SeqOf(seg.pos), SeqOf(0)))
\* Mutant: the sum is not cut to 32 bits.
seg_end_wide == SeqOf(seg.pos) + seg.len
seg_end == Wrap(SeqOf(seg.pos) + seg.len)
is_rexmt == seq_lt(SeqOf(seg.pos), max_seq_end_seen)
Dropped == rel >= 0 /\ Drops(rules, rel, seg.len)

\* What is done for every data segment, dropped or not.
SeeData(sm) ==
    /\ Taking({"data"})
    /\ batch' = Tail(batch)
    /\ max_seq_end_seen' = IF seq_gt(seg_end, max_seq_end_seen) THEN seg_end ELSE max_seq_end_seen
    /\ sum' = IF is_rexmt THEN [sm EXCEPT !.retransmits = @ + 1] ELSE sm
    /\ UNCHANGED <<pc, mark>>
    /\ BatchFrame

\* The first drop opens the hole; later ones belong to it while it is open.
\* Mutant: a retransmission is taken to be of a segment already dropped.
OpensHoleOriginal == ~ hole_open /\ ~ is_rexmt
\* Mutant: every drop opens the hole anew, a lost retransmission too.
OpensHoleEach == TRUE
OpensHole == ~ hole_open
\* Mutant: every segment is taken to be full-sized.
HoleEndFull == Wrap(SeqOf(seg.pos) + MaxLen)
HoleEnd == seg_end
HoleTime == Head(batch).t_ms

\* The policy takes the segment: it is counted and not acknowledged.
HandleDrop ==
    /\ Taking({"data"})
    /\ Dropped
    /\ rules' = Charged(rules, rel, seg.len)
    /\ hole_open' = (hole_open \/ OpensHole)
    /\ hole_end_seq' = IF OpensHole THEN HoleEnd ELSE hole_end_seq
    /\ SeeData([sum EXCEPT !.segments_dropped = @ + 1,
                           !.t_hole_created = IF OpensHole THEN HoleTime ELSE @])
    /\ log' = [log EXCEPT !.firstDrop = IF @ = NoTime THEN Head(batch).t_ms ELSE @,
                          !.lost = @ \cup Bytes(seg.pos, seg.len)]
    /\ UNCHANGED <<rsmVars, pending>>

\* rsm.accept() by its contract.
Accepted == got \cup Bytes(seg.pos, seg.len)
NewFrontier == CHOOSE f \in frontier .. StreamLen : IsFrontier(f, Accepted)

\* Mutants: the highest byte seen is acknowledged; the newest ACK goes first;
\* an ACK is a duplicate when it carries SACK blocks.
queue_ack_highest(ack, sacks, is_dup) ==
    Append(pending, [due |-> now + AckDelay, ack |-> max_seq_end_seen, sacks |-> sacks,
                     is_dup |-> is_dup])
queue_ack_front(ack, sacks, is_dup) ==
    <<[due |-> now + AckDelay, ack |-> ack, sacks |-> sacks, is_dup |-> is_dup]>> \o pending
queue_ack_sacked(ack, sacks, is_dup) ==
    Append(pending, [due |-> now + AckDelay, ack |-> ack, sacks |-> sacks,
                     is_dup |-> sacks # <<>>])
queue_ack(ack, sacks, is_dup) ==
    Append(pending, [due |-> now + AckDelay, ack |-> ack, sacks |-> sacks, is_dup |-> is_dup])

\* Mutant: the frontier must go beyond the hole, not just reach its end.
FillsHoleBeyond == hole_open /\ seq_gt(SeqOf(NewFrontier), hole_end_seq)
FillsHole == hole_open /\ seq_geq(SeqOf(NewFrontier), hole_end_seq)

\* The segment is accepted: reassemble, time it, queue its ACK, close the hole
\* if the frontier has passed it.
HandleData ==
    /\ Taking({"data"})
    /\ ~ Dropped
    /\ got' = Accepted
    /\ frontier' = NewFrontier
    /\ pending' = queue_ack(SeqOf(NewFrontier), Sacks(Accepted, NewFrontier), NewFrontier = frontier)
    /\ hole_open' = (hole_open /\ ~ FillsHole)
    /\ SeeData([sum EXCEPT
          !.t_first_data = IF @ = NoTime THEN Head(batch).t_ms ELSE @,
          !.t_last_original = IF is_rexmt THEN @ ELSE Head(batch).t_ms,
          !.t_hole_filled = IF FillsHole THEN Head(batch).t_ms ELSE @,
          !.hol_delay_ms = IF FillsHole THEN Head(batch).t_ms - sum.t_hole_created ELSE @])
    /\ log' = [log EXCEPT !.accepted = @ + 1]
    /\ UNCHANGED <<rules, hole_end_seq>>

EndBatch ==
    /\ pc = "batch"
    /\ batch = <<>>
    /\ pc' = "flush"
    /\ mark' = now
    /\ UNCHANGED <<batch, sum, rsmVars, max_seq_end_seen, pending, rules, holeVars, log>>
    /\ BatchFrame

\* flush_acks(): in order, while due or forced.
AckReady ==
    /\ pending # <<>>
    /\ \/ pc = "final"
       \/ pc = "flush" /\ Head(pending).due <= mark
FlushFrame == UNCHANGED <<fd, rsmVars, max_seq_end_seen, rules, batch, holeVars>> /\ PeerFrame

\* The position a 32-bit acknowledgement stands for, seen from the last one.
AckPos(ack) == acked + int32(seq_sub(ack, SeqOf(acked)))
BlockBytes(b) == {p \in 0 .. StreamLen - 1 : seq_geq(SeqOf(p), b.start) /\ seq_lt(SeqOf(p), b.end)}
ToldBy(a) ==
    0 .. AckPos(a.ack) - 1 \cup
    (IF SendSack THEN UNION {BlockBytes(a.sacks[k]) : k \in 1 .. Len(a.sacks)} ELSE {})

FlushSend ==
    /\ AckReady
    /\ pending' = Tail(pending)
    /\ told' = told \cup ToldBy(Head(pending))
    /\ acked' = AckPos(Head(pending).ack)
    /\ sum' = [sum EXCEPT !.acks_sent = @ + 1,
                          !.dup_acks_sent = IF Head(pending).is_dup THEN @ + 1 ELSE @]
    /\ log' = [log EXCEPT !.repeats = IF AckPos(Head(pending).ack) = acked THEN @ + 1 ELSE @]
    /\ UNCHANGED <<pc, mark, spent>>
    /\ FlushFrame

\* write() to the fd fails: the ACK is gone, and only counted.
\* Mutant: the result of the write is ignored.
CountFailureIgnored == sum' = sum
CountFailure == sum' = [sum EXCEPT !.ack_send_failures = @ + 1]

FlushFail ==
    /\ AckReady
    /\ Spend("fail")
    /\ pending' = Tail(pending)
    /\ CountFailure
    /\ UNCHANGED <<pc, mark, toldVars, log>>
    /\ FlushFrame

FlushDone ==
    /\ pc = "flush"
    /\ ~ AckReady
    /\ pc' = "loop"
    /\ mark' = 0
    /\ UNCHANGED <<pending, sum, spent, toldVars, log>>
    /\ FlushFrame

\* The forced flush is over.
Return ==
    /\ pc = "final"
    /\ pending = <<>>
    /\ sum' = [sum EXCEPT !.bytes_delivered = delivered,
                          !.completed = delivered >= sum.bytes_wanted]
    /\ pc' = "idle"
    /\ UNCHANGED <<pending, mark, spent, toldVars, log>>
    /\ FlushFrame

\* Time passes while a call runs.
Tick ==
    /\ pc # "idle"
    /\ now < MaxTime
    /\ now' = now + 1
    /\ UNCHANGED <<kernelVars, fd, spent, rsmVars, max_seq_end_seen, pending, rules, pc, callVars,
                   mark, batch, holeVars, sum, toldVars, log>>

Receive ==
    \/ EnterDrain \/ LeaveLoop \/ DrainRead \/ DrainReturn
    \/ HandleRst \/ HandleControl \/ HandleDrop \/ HandleData \/ EndBatch
    \/ FlushSend \/ FlushFail \/ FlushDone \/ Return

Next == Kernel \/ StartReceive \/ Receive \/ Tick

Spec == Init /\ [][Next]_vars

\* The process runs and time passes: nothing is asked of the kernel.
ReturnSpec == Spec /\ WF_vars(StartReceive) /\ WF_vars(Receive) /\ WF_vars(Tick)

\* A kernel that sends what it may, takes in ACKs and has a retransmission
\* timer, on a connection it does not reset.
LiveKernel ==
    /\ WF_vars(\E len \in 1 .. MaxLen : KSend(len))
    /\ WF_vars(\E len \in 1 .. MaxLen : KRto(len))
    /\ WF_vars(KAck)
    /\ [](spent.rst = 0)

-----------------------------------------------------------------------------
(* Properties *)

Segment == [kind : {"data", "fin", "ack", "foreign", "rst"}, pos : Nat, len : Nat]
Times == {NoTime} \cup 0 .. MaxTime

\* Type invariant.
TypeOK ==
    /\ wrote \in 0 .. StreamLen /\ snd_max \in 0 .. wrote /\ snd_una \in 0 .. snd_max
    /\ fd \in Seq(Segment)
    /\ \A b \in DOMAIN Budget : spent[b] \in 0 .. Budget[b]
    /\ got \subseteq 0 .. StreamLen - 1 /\ frontier \in 0 .. StreamLen
    /\ max_seq_end_seen \in SeqNo /\ hole_end_seq \in SeqNo
    /\ pending \in Seq([due : Nat, ack : SeqNo, sacks : Seq([start : SeqNo, end : SeqNo]),
                        is_dup : BOOLEAN])
    /\ rules \in Seq(DropRule)
    /\ pc \in {"idle", "loop", "drain", "batch", "flush", "final"}
    /\ call \in 0 .. Len(Targets) /\ t_end \in Nat /\ mark \in Nat /\ now \in 0 .. MaxTime
    /\ batch \in Seq([s : Segment, t_ms : 0 .. MaxTime])
    /\ hole_open \in BOOLEAN
    /\ {sum.t_first_data, sum.t_last_original, sum.t_hole_created, sum.t_hole_filled,
        sum.hol_delay_ms} \subseteq Times
    /\ told \subseteq 0 .. StreamLen - 1 /\ acked \in Nat

\* The kernel is never told of a byte the peer has not accepted, by a
\* cumulative ACK or by a SACK block: a withheld segment stays a loss, and the
\* kernel keeps it for retransmission.
KernelToldTruth == told \subseteq got /\ 0 .. snd_una - 1 \subseteq got

\* The cumulative ACKs on the wire never go back, whatever the delays and the
\* failed writes.
AcksNeverRegress == [][acked' >= acked]_vars

\* While the hole is open, the frontier is short of its end: what the summary
\* times is a real stall.  (A rule still to fire has had none of its bytes
\* accepted, so the segment it takes always leaves one missing.)
HoleIsReal == hole_open => seq_lt(SeqOf(frontier), hole_end_seq)

\* On a connection with nothing outstanding when the call began, the policy is
\* the only cause of the stall: every byte missing below the end of the hole
\* was in a segment the policy took during this call.
StallIsPolicy ==
    (hole_open /\ ~ log.behind) =>
        \A p \in 0 .. StreamLen - 1 :
            (seq_lt(SeqOf(p), hole_end_seq) /\ p \notin got) => p \in log.lost

\* dup_acks_sent, the headline column of exp_dupack, counts exactly the ACKs
\* that repeated the number before them on the wire, as long as no write has
\* failed.
DupCountExact == spent.fail = 0 => sum.dup_acks_sent = log.repeats

\* When receive() returns, every accepted data segment has been acknowledged or
\* its failed ACK counted, none twice; the return at a RST may leave ACKs of
\* the batch in the queue, any other return leaves none.
EveryAckAccounted ==
    pc = "idle" =>
        /\ sum.acks_sent + sum.ack_send_failures + Len(pending) = log.accepted
        /\ spent.rst = 0 => pending = <<>>

\* A run the experiments count as valid (completed, every rule fired) has a
\* head-of-line delay: the -1 of an unrepaired hole, which would print as
\* "fast", cannot get through.
ValidRunHasHol ==
    (pc = "idle" /\ call > 0 /\ sum.completed /\ rules # <<>> /\ unfired(rules) = {}) =>
        sum.hol_delay_ms # NoTime

\* What peer.hpp says of t_hole_created: "arrival of the first segment the
\* policy dropped"; hol_delay_ms is measured from there, also when the rule
\* takes the retransmission later on.
HolFromFirstDrop ==
    sum.t_hole_filled # NoTime =>
        /\ sum.t_hole_created = log.firstDrop
        /\ sum.hol_delay_ms = sum.t_hole_filled - log.firstDrop

\* A call of receive() returns by its deadline, whatever the kernel does or
\* leaves undone.
DeadlineInReach == t_end <= MaxTime
ReceiveReturns == (pc = "loop" /\ DeadlineInReach) ~> pc = "idle"

\* With no deadline in the way and a live kernel, a finite number of drops and
\* failed writes cannot keep a byte from being delivered and reported.
EventuallyCompletes ==
    (LiveKernel /\ [](call > 0 => ~ DeadlineInReach)) =>
        <>(pc = "idle" /\ call = Len(Targets) /\ sum.completed)
=============================================================================
