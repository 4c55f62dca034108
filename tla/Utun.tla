-------------------------------- MODULE Utun --------------------------------
(***************************************************************************)
(* tp::Utun (src/src/utun.cpp): send(), and the reactive read loop of      *)
(* drain() and drain_for() every experiment takes its segments, stamps and *)
(* counters from, over the frames of Segment.  The kernel side, a control  *)
(* socket that discards frames silently when it is full, is external.      *)
(***************************************************************************)
EXTENDS Segment

CONSTANTS
    Capacity,     \* frames the kernel control socket holds
    Slices,       \* timeouts drain() and drain_for() are called with
    Traffic,      \* frames the kernel sends, each with the segment it stands for
    Segs,         \* segments send() is called with
    MaxFrames,    \* bound: frames the kernel sends
    MaxTime       \* bound: the last instant

ASSUME CapacityAssumption == Capacity \in Nat \ {0} /\ Slices \subseteq Nat
ASSUME UtunBoundsAssumption == MaxFrames \in Nat /\ MaxTime \in Nat

\* What drain() takes a frame for: shorter than the address-family prefix, of
\* another family, refused by parse(), or a TCP segment.
Kind(f) ==
    IF f.n < 4 THEN "short"
    ELSE IF f.af # "inet" THEN "nonip"
    ELSE IF parse(f) = NoSeg THEN "bad" ELSE "tcp"
NoTime == -1

VARIABLES
    queue,      \* frames on the fd, by arrival number
    pc,         \* "idle", "again" (drain_for), "top" or "poll" (drain)
    deadline,   \* deadline of the running drain()
    until,      \* deadline of the running drain_for(), or NoTime
    got_any,
    tally,      \* frames of the running burst
    peak,       \* peak_burst_frames_
    counts,     \* read_, non_ipv4_, unparseable_
    out,        \* segments handed to the caller, with arrival number and stamp
    wrote,      \* the call of send() just made, what it wrote and added to written_, or <<>>
    now,
    arrived,    \* history: every frame that reached the queue, its segment and its time
    deepest     \* history: the longest the queue has been

callVars == <<deadline, until, got_any, tally>>
vars == <<queue, pc, callVars, peak, counts, out, wrote, now, arrived, deepest>>

Init ==
    /\ queue = <<>> /\ pc = "idle"
    /\ deadline = 0 /\ until = NoTime /\ got_any = FALSE /\ tally = 0 /\ peak = 0
    /\ counts = [read |-> 0, non_ipv4 |-> 0, unparseable |-> 0]
    /\ out = <<>> /\ wrote = <<>> /\ now = 0 /\ arrived = <<>> /\ deepest = 0

NothingSent == wrote' = <<>>

\* The kernel sends a frame; a full socket discards it without a trace.
Arrive(x) ==
    /\ Len(queue) < Capacity
    /\ queue' = Append(queue, Len(arrived) + 1)
    /\ arrived' = Append(arrived, [frame |-> x.frame, seg |-> x.seg, t |-> now])
    /\ deepest' = IF Len(queue') > deepest THEN Len(queue') ELSE deepest
    /\ NothingSent /\ UNCHANGED <<pc, callVars, peak, counts, out, now>>

\* drain() is entered with this much time.
Enter(timeout) ==
    /\ deadline' = now + timeout
    /\ got_any' = FALSE
    /\ tally' = 0
    /\ pc' = "top"

Quiet == UNCHANGED <<queue, peak, counts, out, now, arrived, deepest>>

\* send(): the frame is built and written in one call; a segment that does not
\* fit and a write that fails leave nothing on the fd and are not counted.
\* Bound: segments are sent one at a time, before the kernel's first frame.
SendsFirst == arrived = <<>> /\ now = 0 /\ wrote = <<>>
Send(s, ok) ==
    /\ pc = "idle"
    /\ wrote' = <<[seg |-> s, frame |-> build(s), written |-> IF ok /\ build(s) # <<>> THEN 1 ELSE 0]>>
    /\ UNCHANGED <<pc, callVars>>
    /\ Quiet

Drain(timeout) == pc = "idle" /\ Enter(timeout) /\ NothingSent /\ UNCHANGED until /\ Quiet

DrainFor(duration) ==
    /\ pc = "idle"
    /\ until' = now + duration
    /\ pc' = "again"
    /\ NothingSent
    /\ UNCHANGED <<deadline, got_any, tally>>
    /\ Quiet

\* The loop of drain_for: return at the deadline, or drain what time is left.
Again ==
    /\ pc = "again"
    /\ IF until - now <= 0
       THEN pc' = "idle" /\ until' = NoTime /\ UNCHANGED <<deadline, got_any, tally>>
       ELSE Enter(until - now) /\ UNCHANGED until
    /\ NothingSent /\ Quiet

\* Every way out of drain() passes the destructor of the tally.
Leave ==
    /\ peak' = IF tally > peak THEN tally ELSE peak
    /\ pc' = IF until = NoTime THEN "idle" ELSE "again"
    /\ NothingSent /\ UNCHANGED <<queue, callVars, counts, out, now, arrived, deepest>>

\* Before the first segment, drain() gives up at its deadline.
Expired == ~ got_any /\ deadline - now <= 0

TopExpired == pc = "top" /\ Expired /\ Leave

TopPoll ==
    /\ pc = "top"
    /\ ~ Expired
    /\ pc' = "poll"
    /\ UNCHANGED callVars
    /\ NothingSent /\ Quiet

\* The wait of poll(): none after the first segment, else what is left of the
\* slice, rounded up to a whole millisecond.
\* Mutant: it waits for the first segment without a limit.
WaitOverNever == got_any
WaitOver == got_any \/ now > deadline

\* poll() times out.
PollEmpty ==
    /\ pc = "poll"
    /\ queue = <<>>
    /\ WaitOver
    /\ Leave

\* poll() or read() is interrupted, or fails.
PollInterrupted == pc = "poll" /\ pc' = "top" /\ UNCHANGED callVars /\ NothingSent /\ Quiet
PollError == pc = "poll" /\ Leave

\* The counter a frame of this kind adds to.
Counted(kind) ==
    [counts EXCEPT !.read        = IF kind = "tcp"   THEN @ + 1 ELSE @,
                   !.non_ipv4    = IF kind = "nonip" THEN @ + 1 ELSE @,
                   !.unparseable = IF kind = "bad"   THEN @ + 1 ELSE @]

\* Mutant: a stamp taken before the wait.
StampEarly == deadline - 1
Stamp == now

\* read(): stamp, count, classify.
TakeFrame == pc = "poll" /\ queue # <<>> /\ queue' = Tail(queue)
ReadFrame ==
    /\ TakeFrame
    /\ LET f == arrived[Head(queue)].frame
           kind == Kind(f)
       IN /\ counts' = Counted(kind)
          /\ out' = IF kind = "tcp"
                    THEN Append(out, [frame |-> Head(queue), seg |-> parse(f), t_ms |-> Stamp])
                    ELSE out
          /\ got_any' = (got_any \/ kind = "tcp")
    /\ tally' = tally + 1
    /\ pc' = "top"
    /\ NothingSent /\ UNCHANGED <<deadline, until, peak, now, arrived, deepest>>

Tick ==
    /\ now < MaxTime
    /\ now' = now + 1
    /\ NothingSent /\ UNCHANGED <<queue, pc, callVars, peak, counts, out, arrived, deepest>>

Calls == \E t \in Slices : now + t < MaxTime /\ (Drain(t) \/ DrainFor(t))
Reads == Again \/ TopExpired \/ TopPoll \/ PollEmpty \/ ReadFrame
Disturbances == PollInterrupted \/ PollError

Next ==
    \/ Len(arrived) < MaxFrames /\ \E x \in Traffic : Arrive(x)
    \/ SendsFirst /\ \E s \in Segs, ok \in BOOLEAN : Send(s, ok)
    \/ Calls \/ Reads \/ Disturbances \/ Tick

Spec == Init /\ [][Next]_vars

\* The process runs, time passes, and poll() is not interrupted for ever; no
\* interruption or error is needed for progress.  Only ReadFrame takes a frame.
FairSpec ==
    /\ Spec
    /\ WF_vars(Again \/ TopExpired \/ TopPoll) /\ WF_vars(Tick)
    /\ SF_queue(TakeFrame) /\ SF_vars(PollEmpty)

-----------------------------------------------------------------------------
(* Properties *)

\* Arrival numbers of the whole TCP segments among the frames taken from the fd.
TakenTcp == {f \in 1 .. Len(arrived) - Len(queue) : arrived[f].seg # NoSeg}

\* The caller gets every whole TCP segment taken from the fd and nothing else,
\* once, in arrival order, with the options and the payload the kernel sent,
\* each stamped no earlier than it arrived and no later than the next one: the
\* stamps, which every timing is computed from, never run backwards across
\* calls, waits and interruptions.
OutFaithful ==
    /\ {out[k].frame : k \in 1 .. Len(out)} = TakenTcp
    /\ \A k \in 1 .. Len(out) :
          /\ out[k].seg = arrived[out[k].frame].seg
          /\ arrived[out[k].frame].t <= out[k].t_ms /\ out[k].t_ms <= now
    /\ \A k, l \in 1 .. Len(out) : k < l => out[k].frame < out[l].frame /\ out[k].t_ms <= out[l].t_ms

\* What send() puts on the wire reads back as the segment it was given, option
\* lengths and data offset included; and it refuses a segment only when the
\* options or the payload really do not fit.
WireRoundTrip ==
    \A k \in DOMAIN wrote :
        LET w == wrote[k]
            optlen == Len(encode(w.seg.opt))
        IN  IF w.frame = <<>>
            THEN optlen > OptRoom \/ 4 + IpLen + TcpLen + optlen + w.seg.paylen > FrameCap
            ELSE parse(w.frame[1]) = w.seg

\* What utun.hpp says of peak_burst_frames(): "the most frames [...] ever
\* taken from the fd in one uninterrupted drain -- i.e. the deepest the queue
\* is known to have been", "a measured LOWER BOUND on occupancy".
PeakIsLowerBound == peak <= deepest

\* drain() and drain_for() return once the kernel stops sending, whatever
\* arrived and however often the wait was interrupted.
DrainReturns == pc # "idle" ~> pc = "idle"
=============================================================================
