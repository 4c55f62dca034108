----------------------------- MODULE XnuSender -----------------------------
(***************************************************************************)
(* The loss recovery of the kernel's TCP sender, from the XNU sources in   *)
(* src/reference/xnu, for an established connection on which SACK was not  *)
(* negotiated and the peer offers no timestamps: duplicate ACKs, early and *)
(* fast retransmit, NewReno partial ACKs, the retransmission timer with    *)
(* its backoff and its path-MTU black hole detection.  A handler is an     *)
(* operator from a control block to the set of results it may have: the    *)
(* new control block and the segments handed to the interface.             *)
(*                                                                         *)
(* Positions are counted in units of a small number of bytes and do not    *)
(* wrap.  What cubic computes from clocks and floating point is any value  *)
(* in the range its clamps leave.  The timer is on or off; while it is on  *)
(* it was set for tcp_backoff[t_rxtshift] times the base timeout.          *)
(***************************************************************************)
EXTENDS Integers, Sequences

CONSTANTS
    MSS,             \* negotiated segment size, in units
    mssdflt,         \* tcp_mssdflt, in units
    Window,          \* the peer's advertised window
    InitialCwnd,     \* tcp_initial_cwnd()
    tcprexmtthresh,  \* net.inet.tcp.rexmt_thresh: 2 or 3
    Limit,           \* TCP_EARLY_REXMT_LIMIT; 10 in the code
    MaxShift         \* TCP_MAXRXTSHIFT; 12 in the code

ASSUME SenderAssumption ==
    /\ MSS \in Nat \ {0} /\ mssdflt \in 1 .. MSS
    /\ Window \in Nat /\ Window >= 2 * MSS
    /\ InitialCwnd \in Nat /\ InitialCwnd >= MSS
    /\ tcprexmtthresh \in {2, 3}
    /\ Limit \in Nat
    /\ MaxShift \in 0 .. 12       \* tcp_backoff[] has TCP_MAXRXTSHIFT + 1 entries

Lesser(a, b) == IF a <= b THEN a ELSE b
Greater(a, b) == IF a >= b THEN a ELSE b

\* TCP_MAXWIN << snd_scale: the bound on the growth of the window.
MaxCwnd == Greater(Window, 2 * MSS)

\* struct tcpcb, the part recovery reads.
Tcpcb ==
    [snd_una : Nat, snd_nxt : Nat, snd_max : Nat, snd_recover : Nat \cup {-1},
     snd_cwnd : Nat, snd_ssthresh : Nat,
     t_dupacks : Nat, t_rexmtthresh : Nat,
     t_early_rexmt_count : Nat,
     early_win_old : BOOLEAN,        \* t_early_rexmt_win is 60 s or more ago
     fastrecovery : BOOLEAN,         \* TF_FASTRECOVERY
     t_rxtshift : Nat,
     rexmt : BOOLEAN,                \* t_timer[TCPT_REXMT] # 0
     t_maxseg : {MSS, mssdflt},
     pmtud : BOOLEAN, blackhole : BOOLEAN,    \* TF_PMTUD, TF_BLACKHOLE
     t_pmtud_lastseg_size : Nat,
     closed : BOOLEAN]               \* tcp_drop() was called

\* After the handshake: the SYN took the position before the first byte.
Established ==
    [snd_una |-> 0, snd_nxt |-> 0, snd_max |-> 0, snd_recover |-> -1,
     snd_cwnd |-> InitialCwnd, snd_ssthresh |-> MaxCwnd,
     t_dupacks |-> 0, t_rexmtthresh |-> tcprexmtthresh,
     t_early_rexmt_count |-> 0, early_win_old |-> FALSE,
     fastrecovery |-> FALSE, t_rxtshift |-> 0, rexmt |-> FALSE,
     t_maxseg |-> MSS, pmtud |-> TRUE, blackhole |-> FALSE,
     t_pmtud_lastseg_size |-> 0, closed |-> FALSE]

tcp_backoff == <<1, 2, 4, 8, 16, 32, 64, 64, 64, 64, 64, 64, 64>>

-----------------------------------------------------------------------------
(* tcp_output *)

\* The units the window opens from snd_nxt on, with w the end of the data in
\* the send buffer.
\* Mutant: the congestion window alone.
OpenLenCwnd(t, w) == Lesser(w - t.snd_una, t.snd_cwnd) - (t.snd_nxt - t.snd_una)
OpenLen(t, w) ==
    Lesser(Lesser(w - t.snd_una, Window), t.snd_cwnd) - (t.snd_nxt - t.snd_una)

\* A last segment that is not full goes out when it is a retransmission or
\* ends the buffer (the accepted socket has TCP_NODELAY set).
TxLen(t, w) ==
    LET len == OpenLen(t, w)
        rest == len % t.t_maxseg
    IN  IF len <= 0 THEN 0
        ELSE IF t.snd_nxt + (len - rest) < t.snd_max \/ t.snd_nxt + len = w THEN len
        ELSE len - rest

\* Mutant: the division rounds a whole number of segments up.
SegmentsOneMore(t, n) ==
    [k \in 1 .. n \div t.t_maxseg + 1 |->
        [pos |-> t.snd_nxt + (k - 1) * t.t_maxseg,
         len |-> Lesser(t.t_maxseg, n - (k - 1) * t.t_maxseg)]]
Segments(t, n) ==
    [k \in 1 .. (n + t.t_maxseg - 1) \div t.t_maxseg |->
        [pos |-> t.snd_nxt + (k - 1) * t.t_maxseg,
         len |-> Lesser(t.t_maxseg, n - (k - 1) * t.t_maxseg)]]

\* Mutant: snd_max follows snd_nxt back.
AdvancedMaxBack(t, n) == t.snd_nxt + n
AdvancedMax(t, n) == Greater(t.snd_max, t.snd_nxt + n)
Armed(t, n) == t.rexmt \/ n > 0

\* The size of the segment at the head of the line is remembered once.
HeadSegSize(t, n) ==
    IF n > 0 /\ t.t_pmtud_lastseg_size = 0 /\ t.snd_nxt = t.snd_una
    THEN Lesser(t.t_maxseg, n) ELSE t.t_pmtud_lastseg_size

tcp_output(r, w) ==
    LET t == r.tp
        n == TxLen(t, w)
    IN  [tp |-> [t EXCEPT
            !.snd_nxt = @ + n,
            !.snd_max = AdvancedMax(t, n),
            !.t_pmtud_lastseg_size = HeadSegSize(t, n),
            !.rexmt = Armed(t, n)],
         sent |-> r.sent \o Segments(t, n)]

Quietly(t) == [tp |-> t, sent |-> <<>>]

\* The window and snd_nxt as a handler sets them after its output.
SetBack(r, cwnd, nxt) ==
    [tp |-> [r.tp EXCEPT !.snd_cwnd = cwnd, !.snd_nxt = nxt], sent |-> r.sent]

-----------------------------------------------------------------------------
(* Congestion control: tcp_cubic.c *)

\* pre_fr(): the window is backed off by a factor of the build, to no less
\* than two segments.
pre_fr(t) ==
    LET win == Lesser(t.snd_cwnd, Window)
        Backed == {k * t.t_maxseg : k \in 2 .. Greater(2, win \div t.t_maxseg)}
    IN  {[t EXCEPT !.snd_ssthresh = s] : s \in Backed}

\* post_fr(): the flight is what is outstanding, or taken to be ssthresh.
post_fr(t, ack) ==
    {[t EXCEPT !.snd_cwnd = IF flight < t.snd_ssthresh
                            THEN Greater(flight, t.t_maxseg) + t.t_maxseg
                            ELSE t.snd_ssthresh] :
        flight \in {t.snd_max - ack, t.snd_ssthresh}}

\* ack_rcvd() and congestion_avd(): slow start by what was acknowledged, to the
\* limit of either build (tcp_cubic_minor_fixes); then nothing, one segment, or
\* a jump to the window of the TCP-friendly region.  A window more than twice
\* the initial one that the buffer does not fill may not be validated, and stays.
ack_rcvd(t, ack, w) ==
    LET acked == ack - t.snd_una
        abc_lim == {InitialCwnd, IF t.snd_nxt = t.snd_max THEN 2 * t.t_maxseg ELSE t.t_maxseg}
        Grow == (IF t.snd_cwnd < t.snd_ssthresh
                 THEN {Lesser(acked, l) : l \in abc_lim}
                 ELSE {0, t.t_maxseg} \cup 0 .. MaxCwnd - t.snd_cwnd)
                \cup (IF t.snd_cwnd > 2 * InitialCwnd /\ w - t.snd_una <= t.snd_cwnd
                      THEN {0} ELSE {})
    IN  {[t EXCEPT !.snd_cwnd = Greater(@, Lesser(@ + g, MaxCwnd))] : g \in Grow}

\* EXIT_FASTRECOVERY
ExitFastRecovery(t) ==
    [t EXCEPT !.fastrecovery = FALSE, !.t_dupacks = 0, !.t_rexmtthresh = tcprexmtthresh]

-----------------------------------------------------------------------------
(* tcp_input: an ACK that does not advance snd_una *)

\* Mutant: one early retransmit more.
EarlyBudgetPlusOne(t) == t.t_early_rexmt_count <= Limit
EarlyBudget(t) == t.t_early_rexmt_count < Limit

\* tcp_early_rexmt_check(): with few segments outstanding and nothing more to
\* send, the threshold is lowered, Limit times in 60 s.
tcp_early_rexmt_check(t, w) ==
    LET obytes == t.snd_max - t.snd_una
        unsent == Lesser(w - t.snd_una, Window) - obytes
        osegs == (obytes + t.t_maxseg - 1) \div t.t_maxseg
    IN  IF /\ EarlyBudget(t)
           /\ obytes > 0 /\ t.t_dupacks = 1
           /\ obytes < 4 * t.t_maxseg /\ unsent <= 0 /\ osegs < 4
        THEN [t EXCEPT
                 !.t_rexmtthresh =
                     Greater(Lesser(Greater(osegs - 1, 1), tcprexmtthresh), t.t_dupacks),
                 !.early_win_old = IF t.t_early_rexmt_count = 0 THEN FALSE ELSE @,
                 !.t_early_rexmt_count = @ + 1]
        ELSE t

\* The duplicate is counted, an expired early-retransmit window is closed,
\* and outside recovery the threshold is reconsidered.
CountDupAck(t, w) ==
    LET counted == [t EXCEPT !.t_dupacks = @ + 1,
                             !.t_early_rexmt_count = IF t.early_win_old THEN 0 ELSE @]
    IN  IF t.fastrecovery THEN counted ELSE tcp_early_rexmt_check(counted, w)

\* Below or at snd_recover there is no second fast retransmit.
EnterFastRecovery(t, ack, w) ==
    LET Send(b) ==
            tcp_output(Quietly([b EXCEPT !.snd_recover = t.snd_max,
                                         !.fastrecovery = TRUE, !.rexmt = FALSE,
                                         !.snd_nxt = ack, !.snd_cwnd = t.t_maxseg]), w)
        Inflate(b, r) ==
            SetBack(r, b.snd_ssthresh + t.t_maxseg * t.t_dupacks, Greater(r.tp.snd_nxt, t.snd_nxt))
    IN  {Inflate(b, Send(b)) : b \in pre_fr(t)}

LimitedTransmit(t, w) ==
    LET incr == t.t_maxseg * t.t_dupacks
        r == tcp_output(Quietly([t EXCEPT !.snd_cwnd = @ + incr]), w)
    IN  SetBack(r, r.tp.snd_cwnd - incr, r.tp.snd_nxt)

DupAck(t, ack, w) ==
    LET d == CountDupAck(t, w)
    IN  IF ~ d.rexmt \/ ack # d.snd_una
        THEN {Quietly([d EXCEPT !.t_dupacks = 0, !.t_rexmtthresh = tcprexmtthresh])}
        ELSE IF \/ d.t_dupacks > d.t_rexmtthresh /\ t.t_dupacks >= d.t_rexmtthresh
                \/ d.fastrecovery
        THEN {tcp_output(Quietly([d EXCEPT !.snd_cwnd = @ + d.t_maxseg]), w)}
        ELSE IF d.t_dupacks >= d.t_rexmtthresh
        THEN IF ack <= d.snd_recover THEN {Quietly([d EXCEPT !.t_dupacks = 0])}
                                     ELSE EnterFastRecovery(d, ack, w)
        ELSE IF w > d.snd_max THEN {LimitedTransmit(d, w)} ELSE {Quietly(d)}

-----------------------------------------------------------------------------
(* tcp_input: an ACK that advances snd_una *)

Deflated(t, acked) == Greater(t.snd_cwnd - acked, 0)

\* tcp_newreno_partial_ack(): the next hole is resent and the window deflated,
\* before snd_una moves.
tcp_newreno_partial_ack(t, ack, w) ==
    LET acked == ack - t.snd_una
        r == tcp_output(Quietly([t EXCEPT !.rexmt = FALSE, !.snd_nxt = ack,
                                          !.snd_cwnd = t.t_maxseg + acked]), w)
    IN  SetBack(r, Deflated(t, acked) + t.t_maxseg, Greater(r.tp.snd_nxt, t.snd_nxt))

\* What the ACK means for recovery.
LeaveOrStay(t, ack, w) ==
    IF ~ t.fastrecovery
    THEN {Quietly([t EXCEPT !.t_dupacks = 0, !.t_rexmtthresh = tcprexmtthresh])}
    ELSE IF ack < t.snd_recover
    THEN {tcp_newreno_partial_ack(t, ack, w)}
    ELSE {Quietly(b) : b \in post_fr(ExitFastRecovery(t), ack)}

\* Mutant: an ACK of part of the data stops the timer.
RestartsTimerNever(t, ack) == FALSE
RestartsTimer(t, ack) == ack # t.snd_max
PulledNxt(t, ack) == Greater(t.snd_nxt, ack)

\* process_ACK, header prediction and step 6: an ACK resets the backoff and the
\* head segment size, restarts or stops the timer, opens the window outside
\* recovery, moves snd_una and calls tcp_output.  A timeout fires on a quiet
\* wire only, so tcp_bad_rexmt_check() finds no spurious one to undo.
NewAck(t, ack, w) ==
    LET Open(b) == (IF b.fastrecovery THEN {} ELSE ack_rcvd(b, ack, w))
                   \cup (IF t.fastrecovery THEN {b} ELSE {})
        Move(b) == [b EXCEPT !.t_pmtud_lastseg_size = 0, !.t_rxtshift = 0,
                             !.rexmt = RestartsTimer(b, ack),
                             !.snd_una = ack, !.snd_nxt = PulledNxt(b, ack)]
    IN  UNION {{tcp_output([tp |-> Move(b), sent |-> r.sent], w) : b \in Open(r.tp)} :
                  r \in LeaveOrStay(t, ack, w)}

TcpInput(t, ack, w) ==
    IF ack <= t.snd_una THEN DupAck(t, ack, w) ELSE NewAck(t, ack, w)

-----------------------------------------------------------------------------
(* tcp_timers(TCPT_REXMT) *)

\* The second timeout of a full-sized head segment looks like a path-MTU black
\* hole: smaller segments are tried, and given up after the fourth timeout.  The
\* next size is mssdflt, as for every t_maxopd up to tcp_pmtud_black_hole_mss.
\* Mutant: the third timeout.
LooksBlackHoledLate(t) == t.pmtud /\ t.t_pmtud_lastseg_size > mssdflt /\ t.t_rxtshift = 3
LooksBlackHoled(t) == t.pmtud /\ t.t_pmtud_lastseg_size > mssdflt /\ t.t_rxtshift = 2
BlackHoleCheck(t) ==
    IF LooksBlackHoled(t)
    THEN [t EXCEPT !.pmtud = FALSE, !.blackhole = TRUE, !.t_maxseg = mssdflt, !.snd_cwnd = mssdflt]
    ELSE IF t.blackhole /\ t.t_rxtshift > 4
    THEN [t EXCEPT !.pmtud = TRUE, !.blackhole = FALSE, !.t_maxseg = MSS, !.snd_cwnd = MSS]
    ELSE t

\* What cwnd_init() does to ssthresh when the segment size changes: it goes back
\* to its initial value if no more than the initial window was transmitted,
\* which is not counted here.
cwnd_init(t) == {t, [t EXCEPT !.snd_ssthresh = MaxCwnd]}

\* after_timeout(), on the first timeout only.
after_timeout(t) ==
    {[b EXCEPT !.snd_cwnd = t.t_maxseg] : b \in IF t.fastrecovery THEN {t} ELSE pre_fr(t)}

\* Mutant: output goes on from where it was.
RewindNever(t) == [t EXCEPT !.snd_recover = t.snd_max]
Rewind(t) == [t EXCEPT !.snd_nxt = t.snd_una, !.snd_recover = t.snd_max]

\* The connection is dropped by the count of timeouts alone: the drop and retry
\* times, the FIN option and the sleep test are for options never set here.
RexmtTimeout(t, w) ==
    LET shifted == [t EXCEPT !.t_rxtshift = @ + 1]
        probed == BlackHoleCheck([shifted EXCEPT !.rexmt = TRUE])
        back == Rewind(probed)
        Slow == IF back.t_rxtshift = 1 THEN after_timeout(back)
                ELSE IF back.t_maxseg # t.t_maxseg THEN cwnd_init(back) ELSE {back}
    IN  IF shifted.t_rxtshift > MaxShift
        THEN {Quietly([t EXCEPT !.closed = TRUE, !.rexmt = FALSE])}
        ELSE {tcp_output(Quietly(ExitFastRecovery(b)), w) : b \in Slow}

-----------------------------------------------------------------------------
(* The application's write() *)

\* New data in the buffer.  A write that comes 60 s or more after the last one
\* finds the early-retransmit window over, and may be late enough for cubic to
\* restart from the initial window.
UserWrite(t, w, late) ==
    {tcp_output(Quietly([t EXCEPT !.snd_cwnd = c, !.early_win_old = late \/ @]), w) :
        c \in IF late THEN {t.snd_cwnd, InitialCwnd} ELSE {t.snd_cwnd}}
=============================================================================
