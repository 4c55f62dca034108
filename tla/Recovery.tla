------------------------------ MODULE Recovery ------------------------------
(***************************************************************************)
(* The experiments that measure the kernel's loss recovery without SACK    *)
(* (exp_hol, exp_rto, exp_dupack): the sender of XnuSender against the     *)
(* peer, which drops what its policy says, accepts the rest and answers    *)
(* each accepted segment with one cumulative ACK, over the utun in order.  *)
(*                                                                         *)
(* The peer delays its ACKs by at most 60 ms (exp_rto) and the timer is    *)
(* never below 200 ms (rexmt_slop), so the retransmission timer fires only *)
(* when no ACK and no segment is on the way; from one call of receive() to *)
(* the next no such time passes while segments are unread.                 *)
(***************************************************************************)
EXTENDS XnuSender, LossPolicy, FiniteSets

CONSTANTS
    Scenarios,   \* sets of rounds: how much is written, and the drop rules
    MaxFail,     \* bound: ACKs the peer fails to write
    MaxLate,     \* bound: rounds written 60 s or more after the one before
    MaxExpired   \* bound: calls of receive() that return at their deadline

Rounds == [bytes : Nat \ {0}, rules : Seq(DropRule)]
ASSUME RecoveryAssumption ==
    /\ Scenarios \subseteq Seq(Rounds)
    /\ MaxFail \in Nat /\ MaxLate \in Nat /\ MaxExpired \in Nat

VARIABLES
    scenario,    \* the experiment: a sequence of rounds on one connection
    round,       \* number of the running or last round
    recv,        \* receive(): running, or how the last call returned
    wrote,       \* bytes written to the accepted socket
    tp,          \* the kernel's control block
    data,        \* segments on the utun, oldest first
    acks,        \* ACKs on the utun, oldest first
    got, frontier,   \* the peer's reassembly, by its contract
    rules,       \* the LossPolicy of the round
    sum,         \* the RunSummary of the round, the part the verdicts read
    max_end,     \* max_seq_end_seen_: end of the highest segment seen
    clock,       \* time in the round, in units of the base timeout
    drops,       \* the trace's DROPPED events of the round: their times
    spent        \* budgets used: fail, late, expired

peerVars == <<got, frontier, rules, max_end>>
vars == <<scenario, round, recv, wrote, tp, data, acks, peerVars, sum, clock, drops, spent>>

\* timeouts: those that fired while the hole was open, which is what separates
\* a hol_delay_ms of milliseconds from one of hundreds.  left: the early
\* retransmits the kernel still allowed when the round began.
EmptySum(l) ==
    [hole_end |-> 0, retransmits |-> 0, dup_acks_sent |-> 0, ack_send_failures |-> 0,
     timeouts |-> 0, left |-> l]

Init ==
    /\ scenario \in Scenarios
    /\ round = 0 /\ recv = "completed" /\ wrote = 0
    /\ tp = Established
    /\ data = <<>> /\ acks = <<>>
    /\ got = {} /\ frontier = 0
    /\ rules = <<>> /\ max_end = 0 /\ sum = EmptySum(0)
    /\ clock = 0 /\ drops = <<>>
    /\ spent = [fail |-> 0, late |-> 0, expired |-> 0]

\* The kernel acts: a handler's result is adopted and its segments queued.
Adopt(r) == tp' = r.tp /\ data' = data \o r.sent

\* Everything written so far is delivered.
Completed == frontier = wrote

\* The experiment writes the next round's bytes and calls receive() with the
\* round's policy, at once or after a minute of silence; however the call
\* before ended, unless the write fails.
NextRound == recv # "running" /\ ~ tp.closed /\ round < Len(scenario) /\ round' = round + 1
WriteRound(late) ==
    /\ NextRound
    /\ late => spent.late < MaxLate /\ data = <<>> /\ acks = <<>> /\ ~ tp.rexmt
    /\ recv' = "running"
    /\ wrote' = wrote + scenario[round + 1].bytes
    /\ rules' = scenario[round + 1].rules
    /\ \E r \in UserWrite(tp, wrote', late) : Adopt(r)
    /\ sum' = EmptySum(IF late \/ tp.early_win_old THEN Limit ELSE Limit - tp.t_early_rexmt_count)
    /\ spent' = IF late THEN [spent EXCEPT !.late = @ + 1] ELSE spent
    /\ clock' = 0 /\ drops' = <<>>
    /\ UNCHANGED <<scenario, acks, got, frontier, max_end>>

seg == Head(data)
Bytes(s) == s.pos .. s.pos + s.len - 1
HoleOpen == frontier < sum.hole_end

\* What receive() does for every data segment, dropped or not.
ReadSegment == recv = "running" /\ data # <<>> /\ data' = Tail(data)
SeeData(sm) ==
    /\ ReadSegment
    /\ max_end' = Greater(max_end, seg.pos + seg.len)
    /\ sum' = [sm EXCEPT !.retransmits = IF seg.pos < max_end THEN @ + 1 ELSE @]
    /\ UNCHANGED <<scenario, round, recv, wrote, tp, clock>>

\* The policy takes the segment: the first drop opens the hole.
PeerDrop ==
    /\ data # <<>>
    /\ Drops(rules, seg.pos, seg.len)
    /\ rules' = Charged(rules, seg.pos, seg.len)
    /\ SeeData([sum EXCEPT !.hole_end = IF HoleOpen THEN @ ELSE seg.pos + seg.len])
    /\ drops' = Append(drops, clock)
    /\ UNCHANGED <<acks, got, frontier, spent>>

\* The segment is accepted and its cumulative ACK written; the write may fail,
\* which is only counted.
NewFrontier == CHOOSE f \in frontier .. wrote : f \notin got' /\ frontier .. f - 1 \subseteq got'
PeerAccept(fails) ==
    /\ data # <<>>
    /\ ~ Drops(rules, seg.pos, seg.len)
    /\ got' = got \cup Bytes(seg)
    /\ frontier' = NewFrontier
    /\ IF fails
       THEN /\ spent.fail < MaxFail
            /\ spent' = [spent EXCEPT !.fail = @ + 1]
            /\ SeeData([sum EXCEPT !.ack_send_failures = @ + 1])
            /\ UNCHANGED acks
       ELSE /\ acks' = Append(acks, frontier')
            /\ SeeData([sum EXCEPT !.dup_acks_sent = IF frontier' = frontier THEN @ + 1 ELSE @])
            /\ UNCHANGED spent
    /\ UNCHANGED <<rules, drops>>

\* The loop of receive() ends with everything delivered, though segments may be
\* left on the utun; or with the RST of a connection that the kernel gave up.
Return ==
    /\ recv = "running"
    /\ \/ Completed /\ recv' = "completed"
       \/ tp.closed /\ data = <<>> /\ recv' = "reset"
    /\ UNCHANGED <<scenario, round, wrote, tp, data, acks, peerVars, sum, clock, drops, spent>>

\* The loop ends at its deadline, with the round incomplete.
ReturnExpired ==
    /\ recv = "running" /\ ~ Completed
    /\ spent.expired < MaxExpired
    /\ spent' = [spent EXCEPT !.expired = @ + 1]
    /\ recv' = "expired"
    /\ UNCHANGED <<scenario, round, wrote, tp, data, acks, peerVars, sum, clock, drops>>

\* The kernel takes in the next ACK.
TakeAck == acks # <<>> /\ ~ tp.closed /\ acks' = Tail(acks)
KernelAck ==
    /\ TakeAck
    /\ \E r \in TcpInput(tp, Head(acks), wrote) : Adopt(r)
    /\ UNCHANGED <<scenario, round, recv, wrote, peerVars, sum, clock, drops, spent>>

\* The retransmission timer fires, tcp_backoff[t_rxtshift] base timeouts after
\* it was set.
Expire ==
    /\ data = <<>> /\ acks = <<>>
    /\ tp.rexmt /\ ~ tp.closed
    /\ clock' = clock + tcp_backoff[tp.t_rxtshift + 1]
KernelTimeout ==
    /\ Expire
    /\ \E r \in RexmtTimeout(tp, wrote) : Adopt(r)
    /\ sum' = IF HoleOpen THEN [sum EXCEPT !.timeouts = @ + 1] ELSE sum
    /\ UNCHANGED <<scenario, round, recv, wrote, acks, peerVars, drops, spent>>

Next ==
    \/ \E late \in BOOLEAN : WriteRound(late)
    \/ PeerDrop
    \/ \E fails \in BOOLEAN : PeerAccept(fails)
    \/ Return
    \/ ReturnExpired
    \/ KernelAck
    \/ KernelTimeout

Spec == Init /\ [][Next]_vars

\* The experiment goes on to its next round; receive(), while it runs, reads what
\* is queued and ends when it is done; the kernel takes in what the peer wrote,
\* and an armed timer fires.
FairSpec ==
    /\ Spec
    /\ WF_round(NextRound) /\ WF_data(ReadSegment) /\ WF_recv(Return)
    /\ WF_acks(TakeAck) /\ WF_clock(Expire)

-----------------------------------------------------------------------------
(* Properties *)

TypeOK ==
    /\ scenario \in Scenarios /\ round \in 0 .. Len(scenario)
    /\ recv \in {"running", "completed", "reset", "expired"}
    /\ wrote \in Nat /\ frontier \in Nat /\ max_end \in Nat /\ clock \in Nat
    /\ tp \in Tcpcb
    /\ data \in Seq([pos : Nat, len : Nat \ {0}]) /\ acks \in Seq(Nat)
    /\ got \subseteq Nat /\ rules \in Seq(DropRule) /\ drops \in Seq(Nat)
    /\ sum \in [hole_end : Nat, retransmits : Nat, dup_acks_sent : Nat, ack_send_failures : Nat,
                timeouts : Nat, left : Nat]
    /\ spent \in [fail : Nat, late : Nat, expired : Nat]

\* The send pointers keep their order, and the kernel never believes more was
\* delivered than the peer has: snd_una follows the frontier, the oldest ACK
\* on the way is not below snd_una.
SenderOrder ==
    /\ tp.snd_una <= tp.snd_nxt /\ tp.snd_nxt <= tp.snd_max /\ tp.snd_max <= wrote
    /\ tp.snd_una <= frontier /\ frontier <= tp.snd_max
    /\ \A k \in 1 .. Len(acks) : tp.snd_una <= acks[k] /\ acks[k] <= frontier

\* Data outstanding is never left without the retransmission timer: recovery
\* switches it off and counts on tcp_output() to send and rearm it.
TimerGuardsData == tp.snd_una < tp.snd_max /\ ~ tp.closed => tp.rexmt

\* Outstanding data fits the window and everything on the wire or with the peer
\* is below snd_max; ACKs are in order; the backoff stays within its table and
\* the early retransmits within their budget.
Bounded ==
    /\ tp.snd_max <= tp.snd_una + Window /\ tp.snd_recover <= tp.snd_max
    /\ \A k \in 1 .. Len(data) : data[k].pos + data[k].len <= tp.snd_max
    /\ \A p \in got : p < tp.snd_max
    /\ \A j, k \in 1 .. Len(acks) : j <= k => acks[j] <= acks[k]
    /\ tp.t_rxtshift <= MaxShift /\ tp.t_early_rexmt_count <= Limit

\* The invariant every step of the kernel and of the peer preserves: with it,
\* no handler moves a send pointer out of order or leaves data without a timer.
InductiveInv == TypeOK /\ SenderOrder /\ TimerGuardsData /\ Bounded

\* A round the experiments print: everything was delivered and the rule fired;
\* and on the whole connection every ACK was written and no round incomplete.
OneLossRound == Len(rules) = 1 /\ rules[1].times = 1
ValidRound ==
    /\ round > 0 /\ Completed
    /\ unfired(rules) = {} /\ spent.fail = 0 /\ spent.expired = 0
Followers == (wrote - sum.hole_end + tp.t_maxseg - 1) \div tp.t_maxseg

\* exp_dupack: a lost segment is repaired without the timer exactly when a
\* segment follows it, and, with fewer followers than the fixed threshold,
\* early retransmits are left in the kernel's window.
CliffIsBudget ==
    ValidRound /\ OneLossRound =>
        (sum.timeouts > 0 <=> Followers = 0 \/ (Followers < tcprexmtthresh /\ sum.left = 0))

\* classify() of exp_hol, with half the floor between no timeout and one.
\* Mutant: more duplicates than the threshold, not as many.
classify_strict ==
    IF sum.dup_acks_sent > tcprexmtthresh THEN "fast-retransmit"
    ELSE IF sum.timeouts = 0 THEN "tlp"
    ELSE "rto"
classify ==
    IF sum.retransmits = 0 THEN "none"
    ELSE IF HoleOpen THEN "unrepaired"
    ELSE IF sum.dup_acks_sent >= tcprexmtthresh THEN "fast-retransmit"
    ELSE IF sum.timeouts = 0 THEN "tlp"
    ELSE "rto"

\* exp_hol names the mechanism that repaired the loss.
ClassifyNamesMechanism ==
    ValidRound /\ OneLossRound /\ (Followers = 0 \/ Followers >= tcprexmtthresh) =>
        classify = IF sum.timeouts > 0 THEN "rto" ELSE "fast-retransmit"

\* The sender Peer assumes: what goes on the wire is new data at snd_max or
\* starts in what is outstanding, never in what is acknowledged; it has been
\* written and fits the window.
FitsWindow ==
    \A k \in Len(data) + 1 .. Len(data') :
        /\ tp'.snd_una <= data'[k].pos /\ data'[k].pos <= tp'.snd_max
        /\ data'[k].pos + data'[k].len <= wrote'
        /\ data'[k].pos + data'[k].len <= tp'.snd_una + Window
WindowSender == [][FitsWindow]_vars

\* The experiment comes to its last round and receive() returns from it with
\* everything ever written delivered, what incomplete rounds before it left behind
\* included; unless this call runs into its deadline, or the kernel gives the
\* connection up, but only after a round lost more than MaxShift segments.
Delivers ==
    <>[](\/ round = Len(scenario) /\ recv = "completed" /\ Completed
         \/ round = Len(scenario) /\ recv = "expired"
         \/ tp.closed /\ Len(drops) > MaxShift)

\* exp_rto, part 3: the loss rule takes the last segment at every try.
LadderRound == \E k \in 1 .. Len(rules) : rules[k].times > 2 /\ rules[k].hi = wrote
Intervals == [k \in 1 .. Len(drops) - 1 |-> drops[k + 1] - drops[k]]

\* exp_rto: "It should reproduce tcp_backoff[] = {1,2,4,8,16,32,64,64,...}".
LadderIsBackoff ==
    LadderRound => \A k \in DOMAIN Intervals : Intervals[k] = tcp_backoff[k]

\* What the kernel does instead, and results/exp_rto.txt shows: the second
\* timeout is taken for a path-MTU black hole, the last segment is resent in
\* two parts, the first part escapes the rule and its ACK resets t_rxtshift.
LadderRestartsOnce ==
    LadderRound /\ spent.fail = 0 =>
        \A k \in DOMAIN Intervals : Intervals[k] = (<<1, 2>> \o tcp_backoff)[k]
=============================================================================
