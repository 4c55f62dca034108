------------------------------- MODULE Burst -------------------------------
(***************************************************************************)
(* exp_challenge_ack: Peer::burst fires kProbes segments that each ask for *)
(* a challenge ACK and counts the replies; the kernel's limiter            *)
(* tcp_is_ack_ratelimited() answers some and stays silent on the rest.     *)
(* Several peers share one utun fd, replies may come late, writes may fail *)
(* and the process may stall.                                              *)
(*                                                                         *)
(* Time is counted in ticks; a sleep of 60 ms is less than one.  The three *)
(* triggers reach the limiter at three call sites and are otherwise alike. *)
(***************************************************************************)
EXTENDS Integers, Sequences, FiniteSets

CONSTANTS
    kProbes,          \* probes of one burst
    ChallengeLimit,   \* net.inet.tcp.challengeack_limit as found
    Second,           \* ticks in the limiter's 1000 ms
    CollectTicks,     \* ticks in the 300 ms a burst collects replies (400 for the triggers)
    PauseTicks,       \* ticks in the 1200 ms before the third burst
    StartNow,         \* values of tcp_now when the experiment starts
    NowMod,           \* tcp_now wraps here; 2^32 in the code
    Starts,           \* bursts a behaviour may start with: the first of their peer
    MaxBursts,        \* bound: bursts in one behaviour
    MaxFail,          \* bound: probes the fd does not take
    MaxStall          \* bound: ticks the process or the kernel is held up

ASSUME BurstAssumption ==
    /\ ChallengeLimit \in Nat \ {0} /\ kProbes \in Nat /\ kProbes >= ChallengeLimit
    /\ Second \in Nat \ {0} /\ CollectTicks \in Nat \ {0} /\ PauseTicks \in Nat
    /\ PauseTicks >= Second /\ 2 * CollectTicks < Second
    /\ Starts \subseteq {1, 2, 3, 4, 6, 9}
    /\ NowMod \in Nat \ {0} /\ StartNow \subseteq 0 .. NowMod - 1
    /\ MaxBursts \in Nat \ {0} /\ MaxFail \in Nat /\ MaxStall \in Nat

\* The limit the control sets, with a ScopedSysctl around its burst.
ProbeLimit == IF ChallengeLimit >= 4 THEN 3 ELSE 1

\* The bursts of main(), in order: the peer, what is slept before, the limit in
\* force, and which peers are established just before and torn down just after.
\* Mutant: no sleep before the third burst.
PauseNone == 0
Pause == PauseTicks
Fires(p, up, down) ==
    [peer |-> p, pause |-> 0, limit |-> ChallengeLimit, up |-> up, down |-> down]
Script ==
    << Fires(1, {1}, {1}), Fires(2, {2}, {2}), Fires(3, {3}, {3}),
       Fires(4, {4, 5}, {}), Fires(5, {}, {4, 5}),
       Fires(6, {6}, {}), Fires(6, {}, {}),
       [Fires(6, {}, {6}) EXCEPT !.pause = Pause],
       [Fires(7, {7}, {7}) EXCEPT !.limit = ProbeLimit] >>
Peers == 1 .. 7
Bursts == DOMAIN Script

VARIABLES
    begun, step,   \* numbers of the first and of the running burst
    pc,         \* "ready", "sending", "collecting" or "done"
    wake,       \* end of the sleep or of the collection
    limiter,    \* t_challengeack_last and t_challengeack_count of each peer's socket
    alive,      \* sockets in ESTABLISHED
    probes,     \* probes on the way to the kernel: burst numbers
    replies,    \* frames on the fd: the burst that drew them
    res,        \* BurstResult of every burst
    clock, start,
    spent,      \* budgets used: fail, stall
    passed      \* history: of each burst, the probes handled before it returned, when,
                \* the probes answered, and the answers it counted itself

vars == <<begun, step, pc, wake, limiter, alive, probes, replies, res, clock, start, spent, passed>>

Init ==
    /\ begun \in Starts /\ step = begun /\ pc = "ready" /\ wake = 0
    /\ limiter = [p \in Peers |-> [last |-> 0, count |-> 0]]
    /\ alive = {}
    /\ probes = <<>> /\ replies = <<>>
    /\ res = [k \in Bursts |-> [acks |-> 0, sent |-> 0, send_failures |-> 0]]
    /\ clock = 0 /\ start \in StartNow
    /\ spent = [fail |-> 0, stall |-> 0]
    /\ passed = [k \in Bursts |-> [handled |-> 0, acks |-> 0, counted |-> 0, first |-> 0, last |-> 0]]

-----------------------------------------------------------------------------
(* The kernel *)

tcp_now == (start + clock) % NowMod
timer_diff(a, b) ==
    LET d == (a - b) % NowMod IN IF 2 * d < NowMod THEN d ELSE d - NowMod

\* The control block that counts for peer p.
\* Mutant: one budget for the host.
LimiterOfHost(p) == 1
LimiterOf(p) == p

\* The limiter's second is over, or was never begun.
\* Mutant: the comparison is made in seconds.
SecondOverSoon(l) == l.last = 0 \/ timer_diff(tcp_now, l.last) >= 1
SecondOver(l) == l.last = 0 \/ timer_diff(tcp_now, l.last) >= Second

\* Result of tcp_is_ack_ratelimited() on l: the answer and the new state.
tcp_is_ack_ratelimited(l, limit) ==
    LET base == IF SecondOver(l) THEN [last |-> tcp_now, count |-> 0] ELSE l
        limited == ~ SecondOver(l) /\ l.count >= limit
    IN  [limited |-> limited, to |-> IF limited THEN base ELSE [base EXCEPT !.count = @ + 1]]

Running == pc \in {"sending", "collecting"}
LimitInForce == IF Running THEN Script[step].limit ELSE ChallengeLimit

\* The kernel takes in the next probe.  On an established connection the
\* limiter decides; on one that reset() has closed it may answer or not.
KernelProbe ==
    /\ probes # <<>>
    /\ probes' = Tail(probes)
    /\ LET k == Head(probes)
           p == Script[k].peer
           verdict == tcp_is_ack_ratelimited(limiter[LimiterOf(p)], LimitInForce)
       IN  \E answers \in IF p \in alive THEN {~ verdict.limited} ELSE BOOLEAN :
              /\ limiter' = IF p \in alive THEN [limiter EXCEPT ![LimiterOf(p)] = verdict.to] ELSE limiter
              /\ replies' = IF answers THEN Append(replies, k) ELSE replies
              /\ passed' = [passed EXCEPT
                    ![k].handled = IF k = step /\ Running THEN @ + 1 ELSE @,
                    ![k].acks = IF answers THEN @ + 1 ELSE @,
                    ![k].first = IF passed[k].handled = 0 THEN clock ELSE @,
                    ![k].last = clock]
    /\ UNCHANGED <<begun, step, pc, wake, alive, res, clock, start, spent>>

-----------------------------------------------------------------------------
(* The experiment *)

\* The peers of the burst are established, which discards what is on the fd,
\* and the burst begins; the third burst on a connection only after its sleep.
Begin ==
    /\ pc = "ready"
    /\ clock >= wake
    /\ alive' = alive \cup Script[step].up
    /\ replies' = IF Script[step].up = {} THEN replies ELSE <<>>
    /\ pc' = "sending" /\ wake' = 0
    /\ UNCHANGED <<begun, step, limiter, probes, res, clock, start, spent, passed>>

\* Peer::burst writes one probe.
Fired(k) == res[k].sent + res[k].send_failures
SendProbe(ok) ==
    /\ pc = "sending"
    /\ Fired(step) < kProbes
    /\ IF ok
       THEN /\ probes' = Append(probes, step)
            /\ res' = [res EXCEPT ![step].sent = @ + 1]
            /\ UNCHANGED spent
       ELSE /\ spent.fail < MaxFail
            /\ spent' = [spent EXCEPT !.fail = @ + 1]
            /\ res' = [res EXCEPT ![step].send_failures = @ + 1]
            /\ UNCHANGED probes
    /\ UNCHANGED <<begun, step, pc, wake, limiter, alive, replies, clock, start, passed>>

\* drain_for() starts.
StartCollect ==
    /\ pc = "sending"
    /\ Fired(step) = kProbes
    /\ pc' = "collecting"
    /\ wake' = clock + CollectTicks
    /\ UNCHANGED <<begun, step, limiter, alive, probes, replies, res, clock, start, spent, passed>>

\* A frame of the burst's own port counts, any other is skipped.
\* Mutant: every ACK counts.
IsMineAny(k) == TRUE
IsMine(k) == Script[k].peer = Script[step].peer
Collect ==
    /\ pc = "collecting"
    /\ replies # <<>>
    /\ replies' = Tail(replies)
    /\ res' = IF IsMine(Head(replies)) THEN [res EXCEPT ![step].acks = @ + 1] ELSE res
    /\ passed' = IF Head(replies) = step THEN [passed EXCEPT ![step].counted = @ + 1] ELSE passed
    /\ UNCHANGED <<begun, step, pc, wake, limiter, alive, probes, clock, start, spent>>

LastBurst == IF begun + MaxBursts - 1 < Len(Script) THEN begun + MaxBursts - 1 ELSE Len(Script)
\* drain_for() returns at its deadline; reset() follows where main() calls it.
EndBurst ==
    /\ pc = "collecting"
    /\ clock >= wake
    /\ alive' = alive \ Script[step].down
    /\ IF step < LastBurst
       THEN /\ step' = step + 1 /\ pc' = "ready"
            /\ wake' = clock + Script[step + 1].pause
       ELSE /\ pc' = "done" /\ UNCHANGED <<step, wake>>
    /\ UNCHANGED <<begun, limiter, probes, replies, res, clock, start, spent, passed>>

\* Time passes while the experiment waits and nothing is under way; any other
\* tick is a stall of the process, or of the kernel's input.
Waiting == pc \in {"ready", "collecting"} /\ clock < wake /\ probes = <<>>
              /\ (pc = "collecting" => replies = <<>>)
Tick ==
    /\ pc # "done"
    /\ \/ Waiting /\ UNCHANGED spent
       \/ /\ ~ Waiting /\ (pc = "collecting" => replies = <<>>)
          /\ spent.stall < MaxStall
          /\ spent' = [spent EXCEPT !.stall = @ + 1]
    /\ clock' = clock + 1
    /\ UNCHANGED <<begun, step, pc, wake, limiter, alive, probes, replies, res, start, passed>>

Next ==
    \/ KernelProbe \/ Begin \/ StartCollect \/ Collect \/ EndBurst \/ Tick
    \/ \E ok \in BOOLEAN : SendProbe(ok)

Spec == Init /\ [][Next]_vars

-----------------------------------------------------------------------------
(* Properties *)

\* BurstResult::complete.
Complete(k) == res[k].send_failures = 0 /\ res[k].sent = kProbes
Over(k) == k \in begun .. step /\ (k < step \/ pc = "done")

\* Every probe was handled and every answer counted before the burst returned.
Prompt(k) == Over(k) /\ Complete(k) /\ passed[k].handled = kProbes /\ passed[k].counted = passed[k].acks
InOneSecond(j, k) == passed[k].last - passed[j].first < Second
\* tcp_now was not 0 at the first probe of the burst: a second opened at 0 is
\* taken for "never".  It may wrap later in the burst.
NowNonzero(k) == (start + passed[k].first) % NowMod # 0

FirstOfPeer == {k \in Bursts : \A j \in 1 .. k - 1 : Script[j].peer # Script[k].peer}

\* "a burst of N > limit probes inside one window draws exactly `limit`
\* challenge ACKs", and per connection: whatever the bursts before it spent,
\* and whatever came late for them, the first burst of a connection counts
\* exactly the limit in force.
FreshBurstExact ==
    \A k \in FirstOfPeer :
        Prompt(k) /\ InOneSecond(k, k) /\ NowNonzero(k) => res[k].acks = Script[k].limit

\* The second burst on a connection draws nothing while its last probe is
\* handled within a second of the first probe of the first burst.
SameWindowSilent ==
    Prompt(6) /\ Prompt(7) /\ InOneSecond(6, 7) /\ NowNonzero(6) => res[7].acks = 0

\* The sleep of 1200 ms is enough: the third burst counts the whole limit again,
\* even if a stall let the second one open a window of its own.
NextWindowExact ==
    Prompt(6) /\ Prompt(7) /\ Prompt(8) /\ InOneSecond(8, 8) /\ NowNonzero(8)
        => res[8].acks = ChallengeLimit

\* The replies counted for a connection are replies the kernel sent on it, each
\* counted once, though all peers read one fd.
Total(p, f(_)) ==
    LET Sum[k \in 0 .. Len(Script)] ==
            IF k = 0 THEN 0 ELSE Sum[k - 1] + (IF Script[k].peer = p THEN f(k) ELSE 0)
    IN  Sum[Len(Script)]
Acked(k) == res[k].acks
Answered(k) == passed[k].acks
CountsOwnReplies == \A p \in Peers : Total(p, Acked) <= Total(p, Answered)
=============================================================================
