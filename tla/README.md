# A TLA+ model of tcp_probe

tcp_probe measures how the macOS (XNU) TCP stack reacts to loss. It opens a
`utun` interface, plays the remote TCP peer on its file descriptor in user
space, has the *kernel* send data over a real connection, withholds chosen
segments, and reports how and when the kernel repaired them. The numbers it
prints are only as good as the small receiver, the bookkeeping and the
teardown between scenarios. That is what these modules are about.

Paths below are relative to the repository (`src/peer.cpp` etc.).

## 1. Inventory

| Component | State | Operations | Interacts with |
|---|---|---|---|
| Sequence arithmetic (`tp/seq.hpp`) | none | `seq_lt/leq/gt/geq` on `uint32_t` | everything |
| Reassembly (`reassembly.*`) | `rcv_nxt_`, `held_`, `advances_`, `dups_`, `ooo_` | `accept`, `sack_blocks`, `time_reached`, `delivered` | called by `Peer::receive` |
| Loss policy (`policy.*`) | rules with fired counts | `add`, `drop`, `unfired` | called by `Peer::receive`; experiments read `unfired` |
| Peer: receive loop (`peer.*`) | `rsm_`, `pending_`, `max_seq_end_seen_`, hole, `RunSummary` | `receive`, `queue_ack`, `flush_acks`, `burst` | Utun, Reassembly, LossPolicy, the kernel |
| Peer: handshake, teardown | `snd_`, `data_isn_`, `afd_` | `establish`, `reset`, destructor | Utun, the listening socket |
| Utun (`utun.*`) | fd, counters, `peak_burst_frames_` | `open`, `send`, `drain`, `drain_for` | the kernel's control socket |
| ScopedSysctl (`sysctl.*`) | process-wide `pending()` table, handlers | constructor, destructor, `restore_all`, `on_signal` | kernel knobs, signals, `exit` |
| Scenario harness (`experiments/harness.hpp`) | `Lab` (fd, listening socket, knobs), `Outcome` | `Lab::start`, `run_scenario`, `print_integrity` | Peer, the accepted socket |
| Segment codec, checksum (`segment.*`, `checksum.hpp`) | none | `build`, `parse`, `encode`, `wire_len` | Utun |
| Trace (`trace.*`) | events, origin | `set_origin`, `record_*`, printing | Peer |
| Clock (`clock.*`) | none | `now_ms`, `sleep_ms` | everything |
| Experiments (`experiments/exp_*.cpp`) | run summaries | baseline, head-of-line, dup-ACK, RTO ladder, challenge ACK | harness |
| The kernel's sender (`reference/xnu/tcp_*.c`) | `struct tcpcb` | `tcp_output`, ACK processing in `tcp_input`, the retransmission timer, cubic, the challenge-ACK limiter | the peer, over the utun |

`reference/xnu` holds the sources of the kernel under measurement. They are not
built here, but the experiments state what they expect by citing their lines, and
whether an experiment's conclusion follows from its measurement depends on them;
the parts that decide are therefore modelled too. `reference/salvage` (leftovers of
an earlier project), `tests/` and `scripts/` are not part of the running system. The
unit tests were read as statements of intent.

The process is single-threaded. What is hard about it:

* *cyclic arithmetic*: every decision of the receiver is a signed difference of
  32-bit numbers, over ranges that may straddle 2^32;
* *arrival order*: the merge walk over `held_` relies on an order that each call
  must re-establish, for any overlap, duplication and repacketisation;
* *an active environment*: the kernel sends, retransmits, times out and resets
  while the peer is anywhere in its loop, and time passes between any two
  statements; ACKs are delayed in a queue and their writes can fail;
* *one slot of bookkeeping*: one hole, one summary, counters that are decided at
  one moment and counted at another;
* *shared resources across scenarios*: one fd and one listen queue, over which a
  scenario that fails leaves traces for the next;
* *inference*: an experiment sees counts and delays and names a kernel mechanism;
  budgets, windows and detections of the kernel that it does not see can make the
  same numbers mean something else;
* *process death*: a signal between two statements of a guard that has changed a
  kernel knob.

`PROJECT.json` lists these hazards at their lines with the properties that cover
them; those without a property carry a note.

## 2. Modules

| Module | Models | Kind |
|---|---|---|
| `SeqSpace` | `tp/seq.hpp`, with the width as parameter `Half` (2^31 in the code) | operators |
| `Stream` | byte positions and the sequence numbers that stand for them, frontier, runs, window | operators |
| `ReassemblySpec` | the contract of `Reassembly`: a set of accepted bytes, its frontier, what the caller reads | abstract specification |
| `Reassembly` | `Reassembly::accept` at the grain of its two loops | state machine, refines `ReassemblySpec` |
| `LossPolicy` | `LossPolicy::drop`, `unfired` | operators |
| `Peer` | `Peer::receive`, `queue_ack`, `flush_acks`, against a kernel sender | state machine, uses `Stream` and `LossPolicy` |
| `Segment` | `Options::wire_len`, `encode`, `build`, `parse` | operators |
| `Utun` | `Utun::send`, `drain`, `drain_for` and their counters, over `Segment` | state machine |
| `XnuSender` | the kernel's loss recovery without SACK, one operator per handler | operators |
| `Recovery` | the rounds of `exp_dupack`, `exp_hol`, `exp_rto`: `XnuSender` against the peer | composition of `XnuSender` and `LossPolicy` |
| `Burst` | `exp_challenge_ack`: `Peer::burst` on a shared fd against the kernel's limiter | state machine |
| `ScopedSysctl` | the guard, statement by statement | state machine |
| `Session` | `run_scenario`, `Peer::establish`, `Peer::reset`, the kernel's listener, the listen queue | state machine |
| `MCPeer`, `MCRecovery`, `MCSession`, `MCSysctl`, `MCUtun` | constant values for TLC | instances |
| `SeqSpaceProofs`, `ReassemblyProofs`, `PeerProofs`, `RecoveryProofs`, `SessionProofs`, `SysctlProofs`, `UtunProofs`, `BurstProofs` | lemmas and theorems | proofs |

Variables and operators keep the names of the code (`rcv_nxt`, `held`, `pending`,
`hole_end_seq`, `sum`, `queue_ack`, ...). Operators marked *Mutant* in a comment
are wrong variants of the definition after them. They are not used by any
specification; replacing the definition by the mutant breaks the property named
in `PROJECT.json`, which shows that the property is sensitive to that code.

### Reassembly

One call of `accept` is a sequence of steps: the entry (empty, duplicate, or the
trimmed range `cur`), one step per range of the merge walk (`MergeBelow`,
`MergeAbove`, `MergeAbsorb`), the swap (`MergeDone`), one step per drained range,
and the return (`DrainDone`), which records the advance or the out-of-order
arrival. Sequence numbers are cyclic throughout; the history variables `total`
(unwrapped frontier), `got` (positions accepted) and `when` say what the 32-bit
state is supposed to mean. The environment may deliver any segment that a
window-respecting sender can (`InWindow`): the assumption under which cyclic
comparison is meaningful at all. It is external, and holds because the peer
advertises a 16-bit window and the kernel keeps to it.

### Peer

`pc` is where `receive` is: `loop` (the while test), `drain`, `batch` (the for
loop), `flush` (`flush_acks(now)`), `final` (`flush_acks(now, force)`), `idle`.
Each data segment of a batch is one step: `HandleDrop` or `HandleData`, both
through `SeeData`, which does what the code does before it consults the policy.
Reassembly is used by its contract, which `Reassembly` is shown to implement.
`mark` is the deadline of the running drain and then the `now` that `flush_acks`
was called with.

The kernel's side admits more behaviours than the sources in `reference/xnu` do, since
it also stands for the senders with SACK and RACK that are not there. `XnuSender` follows
those sources, and `WindowSender` shows that what it sends stays within what is assumed
here. The kernel sends new data in any segmentation, retransmits spuriously and with other boundaries (`KRexmt`, budgeted), retransmits by timer
(`KRto`), takes in ACKs at any time, interposes FINs, pure ACKs and frames of
other connections, and may reset. `KRto` needs quiet and a waiting peer, since a
retransmission timeout is far longer than the processing of a batch; an early one
is a `KRexmt`. Time is discrete and may pass anywhere in a call.

### Segment and Utun

`Segment` has the option field byte by byte, because `wire_len`, `encode`, `build`
and `parse` each compute where it ends; the parser's option loop is a recursive
function of the offset it stands at, with the loop's own bounds and steps. The rest of
a frame is the lengths and offsets that `parse` trusts. Ports, numbers and addresses are copied verbatim by the
code and left out.

In `Utun`, `send` builds and writes one frame. `drain` is at the grain of its loop:
test, poll, read, classify; `drain_for` is around it. What a frame is taken for
follows from `parse`. The queue has a capacity; arrivals at a full queue vanish, as
they do in the kernel, and are therefore not actions. `poll` rounds its wait up to a
whole millisecond, so it may still return a frame that came just after the deadline.

### XnuSender and Recovery

`XnuSender` is the part of the kernel's `tcpcb` that recovery reads, and an operator
for each handler, from a control block to the set of its possible results with the
segments sent. There is more than one result where cubic computes from clocks and
floating point: any value within its clamps is then possible (`pre_fr`, `post_fr`).
`ack_rcvd` grows the window by the bytes acknowledged, up to either of the two limits of
the slow start, or by any amount of the cubic and TCP-friendly curves. Positions are counted in units, two to a segment, so that the halved
segments of black-hole detection are visible.

`Recovery` puts it against the peer: an ordered wire each way, one cumulative ACK for
each accepted segment, writes of ACKs that may fail, and rounds that are written as
soon as the last call of `receive` has returned, or a minute later. `recv` says whether
`receive` is running and how the last call returned: with everything delivered, with the
RST of a connection the kernel gave up, or at its deadline (`ReturnExpired`, budgeted).
Only a running call reads segments: after the last one nothing is read or acknowledged,
and `exp_dupack` goes on with the next round after an incomplete one, as in the code.
`sum` is the part of `RunSummary` the verdicts read; `timeouts`, the timeouts
that fired while the hole was open, stands for the size of `hol_delay_ms`. `clock` is
in base timeouts, and `drops` are the times `exp_rto` reads from the trace.

Facts of the kernel the model relies on:

* the SYN occupies the position before the first byte, so `snd_recover` starts at -1;
* the retransmission timer is at least 200 ms and the peer delays its ACKs by at most
  60 ms (`exp_rto`): it fires only when the wire is quiet, so a timeout is never
  spurious. The time between two calls of `receive` is as short;
* the connection is dropped by the number of its timeouts only. The other conditions at
  `tcp_timer.c:1094-1111` (`t_rxt_conndroptime`, `TF_RXTFINDROP`, a long sleep,
  `t_rxt_minimum_timeout`) belong to socket options the program never sets and to a
  machine that was suspended;
* after the black-hole test the next segment size is `mssdflt`. A `t_maxopd` above
  `tcp_pmtud_black_hole_mss` would give that value first; the experiments' segments have
  1024 bytes;
* the peer's window is constant and at least two segments (it is 65535 bytes in the
  experiments), so the persist timer and the `max_sndwnd / 2` rule play no part;
* the non-validated phase of the window can only begin when it is more than twice the
  initial one, and then keeps it from growing;
* `t_rxtshift` never exceeds `TCP_MAXRXTSHIFT`, so `tcp_backoff[]` is indexed inside
  its bounds (part of `InductiveInv`).

### Burst

`Script` is `main` of `exp_challenge_ack` as the nine bursts it fires, each with its
peer, the sleep before it, the limit in force and the connections set up before and
torn down after. The kernel takes in probes and answers them at its own pace; a tick
that passes while something is under way is a stall, of which there are a bounded
number. Replies that come late stay on the fd for the next burst, which sorts them out
by port, or for the next `establish`, which discards them. The three triggers reach the
limiter through three call sites and are otherwise alike.

### ScopedSysctl

The constructor is five steps and the destructor two, because a signal may come
between any two statements. `Ends` is the end of the process: `restore_all` runs
if the handlers are armed. A missing oid or a refused `sysctl_set` leaves an inert
guard.

### Session

Scenarios run one after the other, scenario *k* on source port *k*. Shared
between them are the fd (frames of older scenarios are skipped by the 4-tuple
test) and the listen queue. The kernel's side is taken from the XNU sources: the
listener answers a SYN, drops it or resets it; a half-open connection repeats its
SYN-ACK by timer and is given up by the keep timer; an ACK completes it and puts it
in the listen queue; a RST frees it. What `close()` sends, and the listen queue as a
FIFO, belong to the socket layer and are external. Faults are budgeted by
`MaxFaults` and attributed to a scenario (`hurt`): a lost SYN or ACK or RST, a SYN
the listener drops or refuses, a lost SYN-ACK, a wait that ends although an answer
is on its way, an interrupted `poll`, a failed or short write. `write` completes only when the transfer fits in the send buffer,
since nobody reads at that point. `receive` is one step; `Peer` has the detail.

## 3. Runs

| Run | Question | Result |
|---|---|---|
| `reassembly` | Do the held ranges and the frontier stand for exactly the accepted bytes, at every loop step, across wraps? Does `accept` implement its contract? Is `time_reached` right? | holds |
| `peer` | Is the kernel ever told of a byte the peer does not have? Is the reported hole a real stall caused by the policy? Do the counters match what went over the wire? | holds |
| `peer_live` | Does `receive` return by its deadline without any help from the kernel, with every ACK accounted for even at a RST? Is the delay of a tail that is lost twice measured from the first loss? Does a transfer whose tail is lost repeatedly complete? | holds |
| `recovery` | Does the kernel's sender keep its pointers, its timer and the window in order, and deliver every round? Does the cliff of `exp_dupack` show exactly the early-retransmit budget, does `classify` name the mechanism, what does the ladder of `exp_rto` show? | holds |
| `recovery_ladder` | Is the ladder of `exp_rto` the backoff table, as it prints? | violated |
| `burst` | Does a prompt burst count exactly what the limiter allows, per connection and per window, whatever came late for the bursts before it? | holds |
| `sysctl` | Do scopes nest, and are the knobs restored on exit and on signals outside a constructor? | holds |
| `sysctl_signal` | Also when the signal comes inside the constructor? | violated |
| `utun` | Does `send` write what reads back as the segment? Does every segment reach the caller once, in order, intact, with a true stamp, and does `drain` return? | holds |
| `utun_peak` | Is `peak_burst_frames` a lower bound of the queue's occupancy? | violated |
| `session` | Is every measurement made on the scenario's own connection, is the port left clean, does every scenario end? | holds |
| `session_stale` | Is the message of the port check true? | violated |

### Bounds

* `reassembly`: a space of 14 numbers (`Half = 7`), the window at its maximum of
  6, an ISN near the wrap and a stream of 15 bytes, longer than the space; five
  calls of up to 3 bytes. Three disjoint held ranges, a segment that swallows two
  of them, the wrap inside a range and between ranges all occur. The proofs
  remove the bounds.
* `peer`: a space of 16 with the wrap after the second byte; two calls (2 and 5
  bytes), so that frontier, queue and `max_seq_end_seen_` carry over; one loss
  per call, one failed write, one spurious or repacketised retransmission; ACK
  delay 1, a timeout of 2 in a run of 3 instants, so that a deadline may fall
  between any two steps.
* `peer_live`: a stream of two bytes whose last one is lost twice, with control
  frames, a RST, a failed write and a spurious retransmission. The two losses may be at
  the same or at different instants. The deadline is one
  tick away or out of reach; `EventuallyCompletes` is about the second kind, where
  only ACKs and the kernel's timer bring progress.
* `utun`: three frames of five kinds, capacity 2, timeouts 0 and 1; and 192
  segments for `send`, every combination of options up to five SACK blocks (one more
  than fits), with payloads around the size of the frame.
* `recovery`: segments of two units, a window of six of them; eight segments with one
  loss anywhere, a lost retransmission, two losses in a flight; four rounds on a
  connection with an early-retransmit budget of two, so that it runs out; the ladder
  with 12 losses as in the experiment, and with 20, where the kernel gives up; two
  failed ACKs, one call that ends at its deadline and one minute of silence anywhere. The proofs remove the bounds.
* `burst`: three probes for a limit of two, a second of four ticks, three bursts from
  each of three starting points (every relation between two bursts of the script
  occurs within three), three ticks of stall and one failed write; `tcp_now` early or
  about to wrap, so that it wraps between bursts and inside a window of the limiter.
* `sysctl`: four guards, two knobs and a missing oid, two values. Three nested
  guards on one knob and a sibling are enough for every case of the depth count.
* `session`: four scenarios, one too large for the send buffer, three faults: a
  scenario can inherit a connection from one that itself inherited one.

Deadlock checking is off where a run has an end (all calls made, process dead).

### Fairness

* `Peer!ReturnSpec`: only the process and the clock. `EventuallyCompletes` adds as a
  premise (`LiveKernel`) that the kernel sends what its window allows, processes ACKs,
  has a retransmission timer and does not reset the connection. Nothing is assumed of
  spurious retransmissions, control frames or failing writes.
* `Recovery!FairSpec`: the experiment goes on to its next round, `receive`, while it
  runs, reads what is queued and returns once its loop is done, the kernel takes in what
  was written, and an armed timer fires. Nothing is read after the last call has returned. The
  conditions name the part of the step that makes progress (`NextRound`, `ReadSegment`,
  `Return`, `TakeAck`, `Expire`): whether the segment read is dropped, or the ACK's write fails,
  is left open.
* `Utun!FairSpec`: the process and the clock, and strong fairness of a read and of
  an empty poll: `EINTR` may come any number of times, but not on every poll for
  ever. After the first segment `drain` no longer looks at its deadline, so it
  ends only when arrivals pause; the kernel's window, which needs the ACKs that
  `drain` is not sending, makes them pause.
* `Session!FairSpec`: the process and the kernel keep running, and the waits of
  2000 ms end.

## 4. Proofs

`ReassemblyProofs` proves, for every `Half > 0`, every `Isn`, every
`Window < Half`, every stream, segment size and number of calls:

* `Invariance`: `Spec => []InductiveInv`;
* `TypeCorrect`, `HeldStaysSorted`, `FrontierIsExact`, `HeldIsExact`,
  `AssertionHolds` (the `assert` after the merge walk cannot fail);
* `Refinement` (`ImplementsContract`): `Reassembly` implements `ReassemblySpec`;
* `TimesAreExact` (`TimeReachedExact`).

None of these is inductive: in the middle of a call the held ranges, the range in
hand and the output of the walk overlap and are incomplete. `InductiveInv` has one
conjunct per phase. `HistoryInv` bounds the accepted bytes by the window;
`CallInv` says that a call under way brings something new; `HeldInv` describes the
object until the drain; `MergeInv` says that output, current range and unvisited
ranges are apart in this order and *together* cover exactly the old and the new
bytes; `DrainInv` says that the drain takes at most one range, because ranges are
never adjacent. All of it is stated in distances from `Base`, the frontier at the
start of the call. The lemma `Compare` in `SeqSpaceProofs` reduces the signed
32-bit comparisons to the order of those distances (both at most `Window < Half`),
and `Rebase` moves the distances to the new frontier when the call returns. After
that the arithmetic is linear and no proof sees a modulus.

For the refinement, a call that returns must map to one atomic `SpecAccept` and every
other step to a stutter. The work is at the return: that `held_` lists exactly the
maximal runs of accepted bytes above the frontier, so that the blocks read off its end
are those the contract defines from the set alone (`SackExact`), and that frontier and
history agree (`ReturnRefines`). `TimesAreExact` adds that the recorded advances ascend
in position and in time, which is what lets `time_reached` stop at the first one that
covers its argument.

`PeerProofs` proves, for every stream shorter than `Half` (transfers below 2 GiB; past
that, SACK blocks and offsets from the initial sequence number change sign), every loss
policy, sequence of calls, delay, deadline and budget of faults:

* `PeerInvariant`: `Spec => []PeerInv`;
* `ToldTruth` (`KernelToldTruth`), `NeverRegress` (`AcksNeverRegress`), `AckAccounted`
  (`EveryAckAccounted`), `DupExact` (`DupCountExact`).

An ACK is made when its segment is accepted and written later, after other segments
have been accepted and other ACKs have been lost, so each of the four needs to know what
is in the queue. `QueueInv` says that every queued number lies between the last one
written and the frontier, that the numbers are in order, and that every SACK block names
accepted bytes only (`SackFacts`, from the maximal runs of `Stream`). `DupInv` says that
`is_dup` marks exactly the ACKs whose number equals the one before them in the queue, or
the last one written, and that the last one queued is the frontier; a failed write breaks
this, which is why `DupCountExact` excludes it. `CountInv` balances accepted segments
with ACKs written, failed and queued. `RstInv` says that only a RST the kernel has sent
makes `receive` return with a queue, so the next call starts with an empty one. The
frontier exists as the least missing position, and the k-th block by the order of the runs
(`LeastOf`, `Ranked`: well-founded induction from the library).

It also proves `PeerTypes` (`TypeOK`) and what the summary says of the hole:

* `RealHole` (`HoleIsReal`), `PolicyStall` (`StallIsPolicy`), `ValidHol`
  (`ValidRunHasHol`);
* `HolOfFirstDrop` (`HolFromFirstDrop`), for policies of at most one rule per call
  (`OneRule`). Every experiment that prints the delay has such a policy; with two rules
  the statement is false, see the observations below.

These rest on `ForwardAssumption`: targets grow from call to call, and a rule names bytes
not written before the call it is for. The experiments compute their rules from the bytes
written so far (`exp_dupack.cpp:84,148-159`, `exp_hol.cpp:147`, `exp_rto.cpp:86,130`). A
rule over bytes already accepted could take a late duplicate and open a hole behind the
frontier, which nothing would ever close. The invariant is `HoleFacts`. `WireInv`: what is
on its way was sent, and what was sent was written. `RuleInv`: no byte of a rule that has
not finished has been accepted; this is why a drop always opens a hole *beyond* the
frontier. `TimeInv`: the stamps of a batch ascend and are not ahead of the clock.
`HoleInv`: an open hole ends beyond the frontier and is older than everything still to be
processed, and a rule that has fired has left an open hole or a delay. `LossInv`, for
`StallIsPolicy`: first transmissions are in order on the way, behind what has arrived or
was dropped, so a gap below a segment in hand can only be what the policy took. `DoneInv`
is the verdict of a call. `OneHoleInv` adds, for one rule, that the open hole is still
that of the first drop and holds a byte of the rule, so the rule cannot fire again after
the hole has closed.

`SessionProofs` proves, for any number of scenarios, sizes and faults,
`SessionTypeCorrect` and `MeasuredOnOwnConnection`. The strengthening `OwnInv`
adds that scenarios not yet started, and the running one until it reports, have
no outcome, and that past the port check the connection accepted is the
scenario's own. It also proves `PortLeftClean`: between
scenarios, when nothing is on its way, the kernel's endpoint is closed for every port
that no fault happened to and that did not fail the port check. `CleanPort` speaks of
quiet states only, so `CleanInv` says for each stage of such a scenario what of its
port exists where: nothing before its turn; then the SYN or what the kernel made of
it; then the ACK or the completed connection; then one connection that is held; and
after `reset` either the RST, on its way, or nothing. The kernel works on one frame of one port at a time, so
the work is to show that frames of other ports leave a port's stage alone
(`AppendOther`, `TailOther`).

`SysctlProofs` proves, for any machine, any values and any number and nesting of
guards, `MachineRestored` (`RestoredAtDeath`) and `ScopesNest` (`ScopeValue`), under
the assumption that signals come between the experiment's statements or in a
destructor (`SignalAt`); run `sysctl_signal` shows that it is needed. The invariant
`ScopeInv` has two parts. `Chain` says that each live guard remembers what the next
live guard below it on the same knob set, and the lowest what the machine had. The other
part says for each statement which live guards the knob's value and the table's entry
account for: all of them between statements (`Settled`); all for the value but all
except the innermost for the table in a constructor (`Constructing`); the reverse in
a destructor (`Retiring`).

`RecoveryProofs` proves, for every segment size, initial window, threshold, budget and
shift limit that `SenderAssumption` allows, every loss policy and sequence of rounds
and any number of failed ACKs and of incomplete rounds:

* `Invariance`: `Spec => []InductiveInv`; `PointersInOrder`, `DataIsTimed`;
* `SendsWithinWindow`: what goes on the wire starts at or above `snd_una`, has been
  written, and ends within the peer's window. This is the sender that `Peer` and
  `Reassembly` take for granted (`InWindow`);
* `LadderSequence`: `LadderRestartsOnce`, the exact sequence of losses in `exp_rto`, part 3
  (finding 3), below.

The order of the pointers and the timer are not inductive by themselves: that an ACK
does not overtake `snd_max` needs that everything on the wire and with the peer is
below it, and that ACKs are in order (`Bounded`). The argument goes handler by
handler. `Fit` is what a control block must satisfy before `tcp_output` is called,
`Good` what the result satisfies, `Like` relates a block to one that differs only in
congestion state. The key lemma is `OutputGood`: recovery switches the timer off and
moves `snd_nxt` to the hole before it calls `tcp_output`, and the window it sets then
admits a segment of data that was already sent, so something is sent and the timer is
on again. The frontier of the peer exists as a least missing position by
well-founded induction (`WFMin` of the library).

`LadderSequence` has the hypothesis `LadderOrFew`: a scenario either is a ladder as
`exp_rto` writes it (one round of any number of full segments and a last one longer than
`mssdflt`, with one rule on the last byte), or has no rule for more than two drops. In
`exp_rto` the buffer is 32 segments of 1024 bytes and `mssdflt` is 512; the scenarios of
runs `recovery` and `recovery_ladder` satisfy the hypothesis too. A last segment of at most
`mssdflt` bytes is outside it: it cannot be split, so no part of it escapes the rule. The
invariant `LadderInv` says that, as long as every ACK was written, the connection is at one
of nine stages: the first pass in full segments (`FirstTry`), the tail lost, resent whole and
lost again (`TailLost`, `TailResent`, `LostTwice`), the tail resent in parts after the second
timeout (`InParts`), its last part lost and resent for the n-th time (`PartLost`,
`PartResent`), everything arrived, or the connection given up. Each stage says how many
drops there were, at which times, and what `t_rxtshift` and the segment size are. `Flow` and
`AckFlow` say that the segments and the ACKs on the wire follow each other without a gap,
so that the peer never sends a duplicate ACK and no recovery but the timer's begins. There is
one lemma for each action (`StageWrite`, `StageDrop`, `StageAccept`, `StageAck`,
`StageTimeout`). The turning points are in `StageTimeout`, where the head segment is longer
than `mssdflt` at the second timeout, which is what the black-hole test asks, and in
`StageAck`, where the ACK of the first part sets `t_rxtshift` back to 0 and the head
segment is too small for the test to succeed again.

`UtunProofs` proves `Faithful` (`OutFaithful`) for every traffic, capacity, timeout and
number of frames: `drain` and `drain_for` hand over each TCP segment taken from the fd
once, in order, with its content, and with stamps that are no earlier than its arrival and
never run backwards. `FdInv` says that the queue is the last part of what arrived, in order, and
`KindTcp` that the tests before `parse` turn away nothing that `parse` would accept. The
hypothesis `ParsesBack` (each frame of the traffic parses to the segment it stands for) is
about frames the kernel built; the traffic of run `utun` satisfies it.

It also proves `WireRoundTrip` (`RoundTrip`): what `Utun::send` writes for a segment is,
to `parse`, that segment, for any MSS, window scale and number of SACK blocks and any
payload. The hypothesis `SegsTyped` says that the fields have their C++ types. The argument
has three parts. `EncodeFacts` shows that `encode` writes what `wire_len` counts,
padded to a multiple of four, and where each option stands in it. `WalkExists` shows that
the loop of `parse_options` is well defined on any bytes: each turn takes at least one
byte and ends inside the field, so a least offset from which it is not cannot exist.
`PadStage`, `SackStage`, `WscaleStage`, `PermittedStage` and `MssStage` follow the loop over the encoded field
from its end to its beginning, and `OptionsReadBack` joins them; `BuildParses` adds the
lengths of the headers: `build` refuses a field of more than 40 bytes and a frame longer
than its buffer, and `FrameAssumption` says that the buffer is no longer than the IPv4 length field can count.

`BurstProofs` proves, for every limit, number of probes at least the limit, length of the
waits that `BurstAssumption` allows, value and modulus of `tcp_now`, and any number of
stalls and failed writes:

* `BurstInvariant`: `Spec => []BurstInv`;
* `FreshBurst` (`FreshBurstExact`), `SameWindow` (`SameWindowSilent`), `NextWindow`
  (`NextWindowExact`), `OwnReplies` (`CountsOwnReplies`).

The properties compare a count that the peer makes with one the kernel's limiter made
earlier, with two queues in between that all bursts share. `FifoInv` is about the queues:
both are first in, first out, so the probes and the replies of the running burst are a
suffix, behind whatever earlier bursts left (`OrderInv`), and a burst that was handled and
read to the end has left nothing (`LeftInv`). `CountInv` concludes that what a burst counts
is its own when the earlier bursts of its peer have settled. `LimiterInv` is about the
kernel: a fresh connection's limiter has no second open (`FreshInv`); the first probe of a
burst opens one, which then holds as long as less than a second passes (`OpenInv`,
`SizedInv`, `SpentInv`, `SilentInv`); and the second that a limiter has open began before
the pause (`PauseInv`), so the third burst opens a new one. The last point fails if
`tcp_now` comes round to the old value during the run. `ClockInv` bounds the length of a
run by its waits and stalls, and `NextWindow` has the hypothesis `ShortRun`, that this is
less than half the period of `tcp_now`: 24 days, in milliseconds. The other theorems do
not need it. `OwnReplies` has the invariant `SumInv`: what the bursts of a connection
counted, together with its replies still on the fd, is no more than the kernel sent.

Only model-checked: all liveness properties (fairness is outside the prover), and two
conclusions that the experiments draw from the kernel's recovery, `CliffIsBudget` and
`ClassifyNamesMechanism`. They need what `LadderInv` is for the ladder, but with a loss
anywhere in the flight and with duplicate ACKs, limited transmit and NewReno in between: an
invariant for every stage of every recovery.

## 5. Findings

1. A signal between `sysctl_set` and the end of the `ScopedSysctl` constructor
   leaves the knob changed (`sysctl.cpp:73`; run `sysctl_signal`).
2. `establish` giving up after its ACK leaves a connection in the listen queue;
   the next scenario accepts it, fails with a message that is not true, and leaves
   its own behind (`peer.cpp:113-127`, `harness.hpp:104`; run `session_stale`).
   `OwnConnection` shows that the port check keeps measurements correct.
3. The ladder of `exp_rto` is not the backoff table (`exp_rto.cpp:186`; run
   `recovery_ladder`). The second timeout is taken for a path-MTU black hole, the tail
   is resent in smaller segments, the first of which does not hold the byte the rule
   names, and its ACK resets `t_rxtshift`: 1, 2, 1, 2, 4, ... This is the "ONE ANOMALY"
   that the experiment prints as unresolved, and `results/exp_rto.txt` shows it.
   `LadderRestartsOnce` is the exact sequence, and `LadderSequence` proves it.
4. `peak_burst_frames` counts frames that were never queued together, so it is not
   the lower bound that `utun.hpp:71` promises (run `utun_peak`).

Observations that no document of the repository contradicts strongly enough to be a
finding of their own:

* two holes in one `receive` share one slot: the second overwrites `t_hole_created`
  and the delay, against the comment in `peer.hpp:61`. No experiment that reads the
  delay has two rules; `HolFromFirstDrop` holds with one;
* a RST in the batch that completes a transfer leaves `completed` false and
  `bytes_delivered` zero (`peer.cpp:193`);
* `exp_dupack` discards an incomplete round and a round with a failed ACK, but not the
  rounds after it, which it may have changed; `CliffIsBudget` needs that no ACK has
  failed and no round was incomplete on the connection;
* `reassembly.hpp:38` says that SACK blocks come most recent first; `sack_blocks` puts
  the highest first, as its own comment explains and `test_reassembly.cpp:158-182`
  checks. The model follows the code;
* `classify` would say `tlp` for an early retransmit with one or two followers on a
  connection without SACK; `exp_hol` has no such arm;
* `exp_challenge_ack` prints the time of the second burst as "same window" without
  checking that it was.

## 6. Not modelled

* `Utun::open`, `Lab::start`: a fixed sequence of system calls. Printing, trace
  rendering, `sleep_ms`. `Trace` is an append-only log.
* The one's-complement checksum: `build` writes it, nothing in the program reads it.
* In `Peer`: poll and read errors inside the drain (they are in `Utun`; for `Peer`
  they end a slice early), a FIN that rides on data.
* In `Session`: the SYN-ACK's acknowledgement number (`peer.cpp:85-89`; right for a
  fresh port), and a Peer established twice (no experiment does).
* In `ScopedSysctl`: a restoring `sysctl_set` that fails (`sysctl.cpp:84`, and `:31` in
  `restore_all`). Neither result is looked at, so the knob would stay changed; the value
  is one the knob had, set with the privileges that changed it.
* In `Segment`: the test of `ip_v` (`segment.cpp:152`); frames of another version are
  turned away by the address family before it.
* In `Burst`: the choice of the trigger by the first part and the early return when
  none hits the limit.
* Of the kernel: SACK, RACK, tail loss probe, ECN, MPTCP, TFO, timestamps, the receive
  side, sockets, routing, IPsec and statistics. They are 23,000 lines of third-party
  code of which the repository keeps copies to cite; what its conclusions without SACK
  rest on is in `XnuSender`, `Burst` and `Session`. The SACK arms cannot be modelled
  from the repository: the scoreboard and RACK live in `tcp_sack.c` and `tcp_rack.c`,
  which `reference/xnu` does not hold. The maps therefore cover most of the program's
  own 3,000 lines, and a small part of the repository.
* `reference/salvage`: programs of an earlier project, not built.

## 7. What could follow

1. A refinement from `Recovery` to the kernel's actions of `Peer`, which today agree
   by `WindowSender` and `KernelToldTruth` only.
2. A proof of `CliffIsBudget` (the early-retransmit budget of a connection against the
   rounds that spent it), which needs an invariant for every stage of a recovery.
