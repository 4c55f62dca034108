--------------------------- MODULE RecoveryProofs ---------------------------
(***************************************************************************)
(* Proofs about Recovery, for every segment size, window, threshold,       *)
(* budget and loss policy: the send pointers stay in order, outstanding    *)
(* data is never without a timer, and nothing outside the window is sent.  *)
(* Every handler of XnuSender is shown to turn a fit control block into a  *)
(* fit one (Fit, Good); tcp_output() is shown to send whenever recovery    *)
(* has switched the timer off (OutputGood); the steps of Recovery then     *)
(* preserve InductiveInv.  The last part follows the ladder of exp_rto     *)
(* from stage to stage (LadderInv).                                        *)
(***************************************************************************)
EXTENDS Recovery, TLAPS, WellFoundedInduction

Seg == [pos : Nat, len : Nat \ {0}]

\* What every handler of XnuSender keeps.
TpOK(t, w) ==
    /\ t \in Tcpcb
    /\ t.snd_una <= t.snd_nxt /\ t.snd_nxt <= t.snd_max /\ t.snd_max <= w
    /\ t.snd_max <= t.snd_una + Window /\ t.snd_recover <= t.snd_max
    /\ t.t_rxtshift <= MaxShift /\ t.t_early_rexmt_count <= Limit

\* The remainder of a division.
LEMMA ModFacts ==
  ASSUME NEW n \in Nat, NEW m \in Nat \ {0}
  PROVE  /\ n % m \in Nat /\ n % m < m /\ n % m <= n
         /\ n < m => n % m = n
BY SMT

\* The segments of a division rounded up start inside it.
LEMMA CeilFacts ==
  ASSUME NEW n \in Nat, NEW m \in Nat \ {0}, NEW k \in 1 .. (n + m - 1) \div m
  PROVE  (k - 1) * m < n /\ (k - 1) * m \in Nat
BY SMT

\* What tcp_output() sends stays in the buffer and in the peer's window, and it
\* sends something when the window is open for data already sent.
LEMMA TxLenFacts ==
  ASSUME NEW w \in Nat, NEW t \in Tcpcb, t.snd_una <= t.snd_nxt, t.snd_nxt <= t.snd_max,
         t.snd_max <= w, t.snd_max <= t.snd_una + Window
  PROVE  /\ TxLen(t, w) \in Nat
         /\ t.snd_nxt + TxLen(t, w) <= w
         /\ t.snd_nxt + TxLen(t, w) <= t.snd_una + Window
         /\ OpenLen(t, w) > 0 /\ t.snd_nxt < t.snd_max => TxLen(t, w) > 0
<1> DEFINE len == OpenLen(t, w)
           rest == len % t.t_maxseg
<1>1. /\ t.snd_una \in Nat /\ t.snd_nxt \in Nat /\ t.snd_max \in Nat /\ t.snd_cwnd \in Nat
      /\ t.t_maxseg \in Nat \ {0} /\ Window \in Nat
  BY SenderAssumption DEF Tcpcb
<1>2. len \in Int /\ t.snd_nxt + len <= w /\ t.snd_nxt + len <= t.snd_una + Window
  BY <1>1 DEF OpenLen, Lesser
<1>3. CASE len <= 0
  <2>1. TxLen(t, w) = 0
    BY <1>3 DEF TxLen
  <2> QED
    BY <2>1, <1>1, <1>2, <1>3
<1>4. CASE len > 0
  <2>1. rest \in Nat /\ rest < t.t_maxseg /\ rest <= len /\ (len < t.t_maxseg => rest = len)
    BY <1>4, <1>1, <1>2, ModFacts
  <2>2. CASE t.snd_nxt + (len - rest) < t.snd_max \/ t.snd_nxt + len = w
    <3>1. TxLen(t, w) = len
      BY <1>4, <2>2, <1>2 DEF TxLen
    <3> QED
      BY <3>1, <1>1, <1>2, <1>4
  <2>3. CASE ~ (t.snd_nxt + (len - rest) < t.snd_max \/ t.snd_nxt + len = w)
    <3>1. TxLen(t, w) = len - rest
      BY <1>4, <2>3, <1>2 DEF TxLen
    <3> HIDE DEF rest
    <3> QED
      BY <3>1, <1>1, <1>2, <1>4, <2>1, <2>3
  <2> QED
    BY <2>2, <2>3
<1> QED
  BY <1>2, <1>3, <1>4

\* The segments of one call cover n units from snd_nxt on.
LEMMA SegmentsFacts ==
  ASSUME NEW t \in Tcpcb, NEW n \in Nat
  PROVE  /\ Segments(t, n) \in Seq(Seg)
         /\ \A k \in 1 .. Len(Segments(t, n)) :
               /\ t.snd_nxt <= Segments(t, n)[k].pos
               /\ Segments(t, n)[k].pos + Segments(t, n)[k].len <= t.snd_nxt + n
<1> DEFINE m == t.t_maxseg
           last == (n + m - 1) \div m
           S == Segments(t, n)
<1>1. t.snd_nxt \in Nat /\ m \in Nat \ {0}
  BY SenderAssumption DEF Tcpcb
<1>2. last \in Nat
  BY <1>1
<1>3. ASSUME NEW k \in 1 .. last
      PROVE  /\ [pos |-> t.snd_nxt + (k - 1) * m, len |-> Lesser(m, n - (k - 1) * m)] \in Seg
             /\ t.snd_nxt <= t.snd_nxt + (k - 1) * m
             /\ t.snd_nxt + (k - 1) * m + Lesser(m, n - (k - 1) * m) <= t.snd_nxt + n
  <2>1. (k - 1) * m < n /\ (k - 1) * m \in Nat
    BY <1>1, CeilFacts
  <2> DEFINE q == (k - 1) * m
  <2>2. q < n /\ q \in Nat
    BY <2>1
  <2> HIDE DEF q
  <2>3. /\ [pos |-> t.snd_nxt + q, len |-> Lesser(m, n - q)] \in Seg
        /\ t.snd_nxt <= t.snd_nxt + q
        /\ t.snd_nxt + q + Lesser(m, n - q) <= t.snd_nxt + n
    BY <2>2, <1>1 DEF Seg, Lesser
  <2> QED
    BY <2>3 DEF q
<1>4. S = [k \in 1 .. last |-> [pos |-> t.snd_nxt + (k - 1) * m, len |-> Lesser(m, n - (k - 1) * m)]]
  BY DEF Segments
<1> HIDE DEF m, last, S
<1>5. S \in Seq(Seg) /\ Len(S) = last
  BY <1>2, <1>3, <1>4
<1>6. \A k \in 1 .. Len(S) : t.snd_nxt <= S[k].pos /\ S[k].pos + S[k].len <= t.snd_nxt + n
  BY <1>5, <1>3, <1>4
<1> QED
  BY <1>5, <1>6 DEF S

\* Segments that lie between the send pointers of t.
SentOK(q, t) ==
    /\ q \in Seq(Seg)
    /\ \A k \in 1 .. Len(q) : t.snd_una <= q[k].pos /\ q[k].pos + q[k].len <= t.snd_max

\* What tcp_output() may do to a control block.
Advances(t, u, w) ==
    /\ u \in Tcpcb
    /\ u.snd_una = t.snd_una /\ u.snd_recover = t.snd_recover /\ u.closed = t.closed
    /\ t.snd_nxt <= u.snd_nxt /\ u.snd_nxt <= u.snd_max
    /\ t.snd_max <= u.snd_max /\ u.snd_max <= w /\ u.snd_max <= u.snd_una + Window
    /\ t.rexmt => u.rexmt
    /\ t.snd_max < u.snd_max => u.rexmt
    /\ OpenLen(t, w) > 0 /\ t.snd_nxt < t.snd_max => u.rexmt
    /\ u.snd_cwnd = t.snd_cwnd /\ u.t_maxseg = t.t_maxseg
    /\ u.t_rxtshift = t.t_rxtshift /\ u.t_early_rexmt_count = t.t_early_rexmt_count

\* tcp_output() only advances, and sets the timer when it sends.
LEMMA OutputFacts ==
  ASSUME NEW w \in Nat, NEW t \in Tcpcb, t.snd_una <= t.snd_nxt, t.snd_nxt <= t.snd_max,
         t.snd_max <= w, t.snd_max <= t.snd_una + Window,
         NEW q, SentOK(q, t)
  PROVE  LET r == tcp_output([tp |-> t, sent |-> q], w)
         IN  Advances(t, r.tp, w) /\ SentOK(r.sent, r.tp)
<1> DEFINE n == TxLen(t, w)
           r == tcp_output([tp |-> t, sent |-> q], w)
           S == Segments(t, n)
<1>1. /\ n \in Nat /\ t.snd_nxt + n <= w /\ t.snd_nxt + n <= t.snd_una + Window
      /\ OpenLen(t, w) > 0 /\ t.snd_nxt < t.snd_max => n > 0
  BY TxLenFacts
<1>2. /\ S \in Seq(Seg)
      /\ \A k \in 1 .. Len(S) : t.snd_nxt <= S[k].pos /\ S[k].pos + S[k].len <= t.snd_nxt + n
  BY <1>1, SegmentsFacts
<1> HIDE DEF n, S
<1>3. /\ r.tp = [t EXCEPT
            !.snd_nxt = t.snd_nxt + n,
            !.snd_max = Greater(t.snd_max, t.snd_nxt + n),
            !.t_pmtud_lastseg_size =
                IF n > 0 /\ t.t_pmtud_lastseg_size = 0 /\ t.snd_nxt = t.snd_una
                THEN Lesser(t.t_maxseg, n) ELSE t.t_pmtud_lastseg_size,
            !.rexmt = (t.rexmt \/ n > 0)]
      /\ r.sent = q \o S
  BY DEF tcp_output, n, S, AdvancedMax, Armed, HeadSegSize
<1>4. /\ t.snd_una \in Nat /\ t.snd_nxt \in Nat /\ t.snd_max \in Nat
      /\ t.t_maxseg \in Nat /\ t.t_pmtud_lastseg_size \in Nat /\ t.rexmt \in BOOLEAN
      /\ t.snd_recover \in Nat \cup {-1}
  BY SenderAssumption DEF Tcpcb
<1> HIDE DEF r
<1>5. /\ r.tp.snd_una = t.snd_una /\ r.tp.snd_recover = t.snd_recover /\ r.tp.closed = t.closed
      /\ r.tp.snd_cwnd = t.snd_cwnd /\ r.tp.t_maxseg = t.t_maxseg
      /\ r.tp.snd_nxt = t.snd_nxt + n /\ r.tp.snd_max = Greater(t.snd_max, t.snd_nxt + n)
      /\ r.tp.rexmt = (t.rexmt \/ n > 0)
      /\ r.tp.t_rxtshift = t.t_rxtshift /\ r.tp.t_early_rexmt_count = t.t_early_rexmt_count
  BY <1>3 DEF Tcpcb
<1>6. r.tp \in Tcpcb
  <2> DEFINE mx == Greater(t.snd_max, t.snd_nxt + n)
             ls == IF n > 0 /\ t.t_pmtud_lastseg_size = 0 /\ t.snd_nxt = t.snd_una
                   THEN Lesser(t.t_maxseg, n) ELSE t.t_pmtud_lastseg_size
             rx == t.rexmt \/ n > 0
  <2>1. mx \in Nat /\ ls \in Nat /\ rx \in BOOLEAN /\ t.snd_nxt + n \in Nat
    BY <1>1, <1>4 DEF Greater, Lesser
  <2>2. r.tp = [t EXCEPT !.snd_nxt = t.snd_nxt + n, !.snd_max = mx,
                         !.t_pmtud_lastseg_size = ls, !.rexmt = rx]
    BY <1>3
  <2> HIDE DEF mx, ls, rx
  <2> QED
    BY <2>1, <2>2 DEF Tcpcb
<1>7. Advances(t, r.tp, w)
  <2>1. /\ t.snd_nxt <= r.tp.snd_nxt /\ r.tp.snd_nxt <= r.tp.snd_max
        /\ t.snd_max <= r.tp.snd_max /\ r.tp.snd_max <= w /\ r.tp.snd_max <= r.tp.snd_una + Window
        /\ t.snd_max < r.tp.snd_max => n > 0
    BY <1>1, <1>4, <1>5 DEF Greater
  <2> QED
    BY <2>1, <1>1, <1>5, <1>6 DEF Advances
<1>8. SentOK(r.sent, r.tp)
  <2>1. r.sent \in Seq(Seg) /\ Len(r.sent) = Len(q) + Len(S)
    BY <1>2, <1>3 DEF SentOK
  <2>2. ASSUME NEW k \in 1 .. Len(r.sent)
        PROVE  r.tp.snd_una <= r.sent[k].pos /\ r.sent[k].pos + r.sent[k].len <= r.tp.snd_max
    <3>1. CASE k <= Len(q)
      <4>1. r.sent[k] = q[k] /\ k \in 1 .. Len(q) /\ q[k] \in Seg
        BY <1>2, <1>3, <2>1, <3>1 DEF SentOK
      <4> QED
        BY <4>1, <1>4, <1>5, <1>1 DEF SentOK, Greater, Seg
    <3>2. CASE k > Len(q)
      <4>1. r.sent[k] = S[k - Len(q)] /\ k - Len(q) \in 1 .. Len(S) /\ S[k - Len(q)] \in Seg
        BY <1>2, <1>3, <2>1, <3>2 DEF SentOK
      <4>2. /\ t.snd_nxt <= S[k - Len(q)].pos
            /\ S[k - Len(q)].pos + S[k - Len(q)].len <= t.snd_nxt + n
        BY <4>1, <1>2
      <4> QED
        <5> DEFINE x == S[k - Len(q)].pos
                   l == S[k - Len(q)].len
        <5>1. x \in Nat /\ l \in Nat /\ t.snd_nxt <= x /\ x + l <= t.snd_nxt + n
          BY <4>1, <4>2 DEF Seg
        <5>2. r.sent[k].pos = x /\ r.sent[k].len = l
          BY <4>1
        <5> HIDE DEF x, l
        <5>3. t.snd_una <= x /\ x + l <= Greater(t.snd_max, t.snd_nxt + n)
          BY <5>1, <1>1, <1>4 DEF Greater
        <5> QED
          BY <5>2, <5>3, <1>5
    <3> QED
      BY <3>1, <3>2, <2>1 DEF SentOK
  <2> QED
    BY <2>1, <2>2 DEF SentOK
<1> QED
  BY <1>7, <1>8 DEF r

-----------------------------------------------------------------------------
(* Handlers *)

\* Outstanding data is covered by the timer.
Covered(t) == t.snd_una < t.snd_max => t.rexmt
Fit(t, w) == TpOK(t, w) /\ Covered(t) /\ ~ t.closed

\* A result with these send pointers that an open connection may have.
Good(r, w, una, max) ==
    /\ r = [tp |-> r.tp, sent |-> r.sent]
    /\ Fit(r.tp, w) /\ SentOK(r.sent, r.tp)
    /\ r.tp.snd_una = una /\ max <= r.tp.snd_max

\* A control block with the same send pointers and the same timer.
Like(t, u) ==
    /\ u \in Tcpcb
    /\ u.snd_una = t.snd_una /\ u.snd_nxt = t.snd_nxt /\ u.snd_max = t.snd_max
    /\ u.snd_recover = t.snd_recover /\ u.rexmt = t.rexmt /\ u.closed = t.closed
    /\ u.t_rxtshift = t.t_rxtshift
    /\ t.t_early_rexmt_count <= Limit => u.t_early_rexmt_count <= Limit

\* Such a block is as fit as t.
LEMMA LikeFit ==
  ASSUME NEW t, NEW u, NEW w, Fit(t, w), Like(t, u)
  PROVE  Fit(u, w)
BY DEF Fit, Like, TpOK, Covered

\* Two such steps are one.
LEMMA LikeTrans ==
  ASSUME NEW t, NEW u, NEW v, Like(t, u), Like(u, v)
  PROVE  Like(t, v)
BY DEF Like

\* The types of the fields, and the segment size.
LEMMA Nats ==
  ASSUME NEW t \in Tcpcb
  PROVE  /\ t.snd_una \in Nat /\ t.snd_nxt \in Nat /\ t.snd_max \in Nat
         /\ t.snd_recover \in Int /\ t.snd_cwnd \in Nat /\ t.snd_ssthresh \in Nat
         /\ t.t_maxseg \in Nat \ {0} /\ t.t_maxseg <= MSS
         /\ t.t_dupacks \in Nat /\ t.t_rexmtthresh \in Nat /\ t.t_early_rexmt_count \in Nat
         /\ t.t_rxtshift \in Nat
         /\ t.rexmt \in BOOLEAN /\ t.closed \in BOOLEAN /\ t.fastrecovery \in BOOLEAN
BY SenderAssumption DEF Tcpcb

\* A handler that sends nothing.
LEMMA QuietlyGood ==
  ASSUME NEW t, NEW w, Fit(t, w)
  PROVE  Good(Quietly(t), w, t.snd_una, t.snd_max)
<1>1. Quietly(t).tp = t /\ Quietly(t).sent = <<>> /\ Quietly(t) = [tp |-> t, sent |-> <<>>]
  BY DEF Quietly
<1>2. SentOK(<<>>, t)
  BY DEF SentOK
<1>3. t.snd_max <= t.snd_max
  BY Nats DEF Fit, TpOK
<1> QED
  BY <1>1, <1>2, <1>3 DEF Good

\* tcp_output() from a block whose timer is on, or whose data it must resend.
LEMMA OutputGood ==
  ASSUME NEW w \in Nat, NEW t, TpOK(t, w), ~ t.closed, NEW q, SentOK(q, t),
         \/ Covered(t)
         \/ OpenLen(t, w) > 0 /\ t.snd_nxt < t.snd_max
  PROVE  Good(tcp_output([tp |-> t, sent |-> q], w), w, t.snd_una, t.snd_max)
<1> DEFINE r == tcp_output([tp |-> t, sent |-> q], w)
<1>1. Advances(t, r.tp, w) /\ SentOK(r.sent, r.tp)
  BY OutputFacts DEF TpOK
<1>2. r = [tp |-> r.tp, sent |-> r.sent]
  BY DEF tcp_output
<1> HIDE DEF r
<1>3. t \in Tcpcb /\ r.tp \in Tcpcb
  BY <1>1 DEF Advances, TpOK
<1>4. TpOK(r.tp, w)
  BY <1>1, <1>3, Nats DEF Advances, TpOK
<1>5. Covered(r.tp)
  <2>1. CASE t.snd_una < t.snd_max
    BY <2>1, <1>1 DEF Covered, Advances
  <2>2. CASE ~ (t.snd_una < t.snd_max)
    <3>1. r.tp.snd_una < r.tp.snd_max => t.snd_max < r.tp.snd_max
      BY <2>2, <1>1, <1>3, Nats DEF Advances, TpOK
    <3> QED
      BY <3>1, <1>1 DEF Covered, Advances
  <2> QED
    BY <2>1, <2>2
<1>6. Good(r, w, t.snd_una, t.snd_max)
  BY <1>1, <1>2, <1>4, <1>5 DEF Good, Fit, Advances
<1> QED
  BY <1>6 DEF r

\* tcp_output() of a fit block.
LEMMA FitOutput ==
  ASSUME NEW w \in Nat, NEW t, Fit(t, w)
  PROVE  Good(tcp_output(Quietly(t), w), w, t.snd_una, t.snd_max)
<1>1. Quietly(t) = [tp |-> t, sent |-> <<>>] /\ SentOK(<<>>, t)
  BY DEF Quietly, SentOK
<1> QED
  BY <1>1, OutputGood DEF Fit

\* Window and snd_nxt set after the output.
LEMMA SetBackGood ==
  ASSUME NEW w, NEW una, NEW max, NEW r, Good(r, w, una, max),
         NEW c \in Nat, NEW x \in Nat, una <= x, x <= r.tp.snd_max
  PROVE  Good(SetBack(r, c, x), w, una, max)
<1> DEFINE u == [r.tp EXCEPT !.snd_cwnd = c, !.snd_nxt = x]
           v == SetBack(r, c, x)
<1>1. v = [tp |-> u, sent |-> r.sent] /\ v.tp = u /\ v.sent = r.sent
  BY DEF SetBack
<1>2. r.tp \in Tcpcb
  BY DEF Good, Fit, TpOK
<1>3. /\ u \in Tcpcb /\ u.snd_una = r.tp.snd_una /\ u.snd_nxt = x /\ u.snd_max = r.tp.snd_max
      /\ u.snd_recover = r.tp.snd_recover /\ u.rexmt = r.tp.rexmt /\ u.closed = r.tp.closed
      /\ u.t_rxtshift = r.tp.t_rxtshift /\ u.t_early_rexmt_count = r.tp.t_early_rexmt_count
  BY <1>2 DEF Tcpcb
<1> HIDE DEF u, v
<1>4. Fit(u, w) /\ SentOK(r.sent, u)
  BY <1>3 DEF Good, Fit, TpOK, Covered, SentOK
<1>5. Good(v, w, una, max)
  BY <1>1, <1>3, <1>4 DEF Good
<1> QED
  BY <1>5 DEF v

(* Steps that leave the send pointers and the timer alone *)

\* pre_fr() sets ssthresh only.
LEMMA PreFrLike ==
  ASSUME NEW t \in Tcpcb, NEW b \in pre_fr(t)
  PROVE  Like(t, b)
<1>1. PICK k \in 2 .. Greater(2, Lesser(t.snd_cwnd, Window) \div t.t_maxseg) :
         b = [t EXCEPT !.snd_ssthresh = k * t.t_maxseg]
  BY DEF pre_fr
<1>2. k * t.t_maxseg \in Nat
  BY Nats, SenderAssumption DEF Greater, Lesser
<1> QED
  BY <1>1, <1>2 DEF Like, Tcpcb

\* post_fr() sets the window only.
LEMMA PostFrLike ==
  ASSUME NEW t \in Tcpcb, NEW ack \in Nat, ack <= t.snd_max, NEW b \in post_fr(t, ack)
  PROVE  Like(t, b)
<1>1. PICK f \in {t.snd_max - ack, t.snd_ssthresh} :
         b = [t EXCEPT !.snd_cwnd = IF f < t.snd_ssthresh
                                    THEN Greater(f, t.t_maxseg) + t.t_maxseg ELSE t.snd_ssthresh]
  BY DEF post_fr
<1> DEFINE c == IF f < t.snd_ssthresh THEN Greater(f, t.t_maxseg) + t.t_maxseg ELSE t.snd_ssthresh
<1>2. c \in Nat
  BY Nats DEF Greater
<1>3. b = [t EXCEPT !.snd_cwnd = c]
  BY <1>1
<1> HIDE DEF c
<1> QED
  BY <1>2, <1>3 DEF Like, Tcpcb

\* What the window may grow by.
Growth(t, ack) ==
    {Lesser(ack - t.snd_una, l) : l \in {InitialCwnd, 2 * t.t_maxseg, t.t_maxseg}}
    \cup {0, t.t_maxseg} \cup 0 .. MaxCwnd - t.snd_cwnd

LEMMA GrowthNat ==
  ASSUME NEW t \in Tcpcb, NEW ack \in Nat, t.snd_una <= ack, NEW g \in Growth(t, ack)
  PROVE  g \in Nat
<1>1. ack - t.snd_una \in Nat /\ t.t_maxseg \in Nat /\ InitialCwnd \in Nat
  BY Nats, SenderAssumption
<1>2. MaxCwnd \in Nat /\ t.snd_cwnd \in Nat
  BY Nats, SenderAssumption DEF MaxCwnd, Greater
<1>3. \A l \in {InitialCwnd, 2 * t.t_maxseg, t.t_maxseg} : Lesser(ack - t.snd_una, l) \in Nat
  BY <1>1 DEF Lesser
<1> QED
  BY <1>1, <1>2, <1>3 DEF Growth

\* ack_rcvd() opens the window only.
LEMMA AckRcvdLike ==
  ASSUME NEW t \in Tcpcb, NEW w \in Nat, NEW ack \in Nat, t.snd_una <= ack,
         NEW b \in ack_rcvd(t, ack, w)
  PROVE  Like(t, b)
<1>1. PICK g : /\ g \in Growth(t, ack)
               /\ b = [t EXCEPT !.snd_cwnd = Greater(t.snd_cwnd, Lesser(t.snd_cwnd + g, MaxCwnd))]
  BY DEF ack_rcvd, Growth
<1> DEFINE c == Greater(t.snd_cwnd, Lesser(t.snd_cwnd + g, MaxCwnd))
<1>2. g \in Nat
  BY <1>1, GrowthNat
<1>3. c \in Nat
  BY <1>2, Nats, SenderAssumption DEF Lesser, Greater, MaxCwnd
<1>4. b = [t EXCEPT !.snd_cwnd = c]
  BY <1>1
<1> HIDE DEF c
<1> QED
  BY <1>3, <1>4 DEF Like, Tcpcb

\* Leaving recovery resets its counters only.
LEMMA ExitLike ==
  ASSUME NEW t \in Tcpcb
  PROVE  Like(t, ExitFastRecovery(t))
<1>1. tcprexmtthresh \in Nat
  BY SenderAssumption
<1> QED
  BY <1>1 DEF Like, ExitFastRecovery, Tcpcb

\* An early retransmit moves the threshold and is charged to the budget.
LEMMA EarlyLike ==
  ASSUME NEW t \in Tcpcb, NEW w \in Nat
  PROVE  Like(t, tcp_early_rexmt_check(t, w))
<1> DEFINE osegs == (t.snd_max - t.snd_una + t.t_maxseg - 1) \div t.t_maxseg
           th == Greater(Lesser(Greater(osegs - 1, 1), tcprexmtthresh), t.t_dupacks)
           old == IF t.t_early_rexmt_count = 0 THEN FALSE ELSE t.early_win_old
           cnt == t.t_early_rexmt_count + 1
           u == [t EXCEPT !.t_rexmtthresh = th, !.early_win_old = old, !.t_early_rexmt_count = cnt]
<1>1. \/ tcp_early_rexmt_check(t, w) = t
      \/ tcp_early_rexmt_check(t, w) = u /\ t.t_early_rexmt_count < Limit
  BY DEF tcp_early_rexmt_check, EarlyBudget
<1>2. osegs \in Int
  BY Nats
<1> HIDE DEF osegs
<1>3. th \in Nat /\ cnt \in Nat
  BY <1>2, Nats, SenderAssumption DEF Greater, Lesser
<1>4. old \in BOOLEAN
  BY DEF Tcpcb
<1>5. t.t_early_rexmt_count < Limit => cnt <= Limit
  BY Nats, SenderAssumption
<1> HIDE DEF th, old, cnt
<1>6. Like(t, t) /\ (t.t_early_rexmt_count < Limit => Like(t, u))
  BY <1>3, <1>4, <1>5 DEF Like, Tcpcb
<1> QED
  BY <1>1, <1>6

\* Counting a duplicate moves no send pointer.
LEMMA CountLike ==
  ASSUME NEW t \in Tcpcb, NEW w \in Nat
  PROVE  Like(t, CountDupAck(t, w))
<1> DEFINE d == t.t_dupacks + 1
           c == IF t.early_win_old THEN 0 ELSE t.t_early_rexmt_count
           u == [t EXCEPT !.t_dupacks = d, !.t_early_rexmt_count = c]
<1>1. d \in Nat /\ c \in Nat /\ (t.t_early_rexmt_count <= Limit => c <= Limit)
  BY Nats, SenderAssumption
<1>2. CountDupAck(t, w) \in {u, tcp_early_rexmt_check(u, w)}
  BY DEF CountDupAck
<1> HIDE DEF d, c
<1>3. Like(t, u) /\ u \in Tcpcb
  BY <1>1 DEF Like, Tcpcb
<1> HIDE DEF u
<1> QED
  BY <1>2, <1>3, EarlyLike, LikeTrans

\* The black hole check changes the segment size and the window only.
LEMMA BlackHoleLike ==
  ASSUME NEW t \in Tcpcb
  PROVE  Like(t, BlackHoleCheck(t))
<1> DEFINE u == [t EXCEPT !.pmtud = FALSE, !.blackhole = TRUE, !.t_maxseg = mssdflt,
                          !.snd_cwnd = mssdflt]
           v == [t EXCEPT !.pmtud = TRUE, !.blackhole = FALSE, !.t_maxseg = MSS, !.snd_cwnd = MSS]
<1>1. BlackHoleCheck(t) \in {t, u, v}
  BY DEF BlackHoleCheck
<1>2. MSS \in Nat /\ mssdflt \in Nat
  BY SenderAssumption
<1>3. Like(t, t) /\ Like(t, u) /\ Like(t, v)
  BY <1>2 DEF Like, Tcpcb
<1> QED
  BY <1>1, <1>3

\* after_timeout() changes the window and ssthresh only.
LEMMA AfterTimeoutLike ==
  ASSUME NEW t \in Tcpcb, NEW b \in after_timeout(t)
  PROVE  Like(t, b)
<1>1. PICK a : a \in {t} \cup pre_fr(t) /\ b = [a EXCEPT !.snd_cwnd = t.t_maxseg]
  BY DEF after_timeout
<1>2. Like(t, a)
  BY <1>1, PreFrLike DEF Like
<1>3. t.t_maxseg \in Nat
  BY Nats
<1>4. Like(a, b)
  BY <1>1, <1>2, <1>3 DEF Like, Tcpcb
<1> QED
  BY <1>2, <1>4, LikeTrans

\* cwnd_init() changes ssthresh only.
LEMMA CwndInitLike ==
  ASSUME NEW t \in Tcpcb, NEW b \in cwnd_init(t)
  PROVE  Like(t, b)
<1>1. MaxCwnd \in Nat
  BY SenderAssumption DEF MaxCwnd, Greater
<1> QED
  BY <1>1 DEF cwnd_init, Like, Tcpcb

-----------------------------------------------------------------------------
(* The application's write() *)

\* tcp_usr_send(): more data, and possibly the initial window.
LEMMA UserWriteGood ==
  ASSUME NEW w0 \in Nat, NEW w \in Nat, w0 <= w, NEW t, Fit(t, w0),
         NEW late \in BOOLEAN, NEW r \in UserWrite(t, w, late)
  PROVE  Good(r, w, t.snd_una, t.snd_max)
<1>1. t \in Tcpcb
  BY DEF Fit, TpOK
<1>2. PICK c \in {t.snd_cwnd, InitialCwnd} :
        r = tcp_output(Quietly([t EXCEPT !.snd_cwnd = c, !.early_win_old = late \/ t.early_win_old]), w)
  BY DEF UserWrite
<1> DEFINE o == late \/ t.early_win_old
           u == [t EXCEPT !.snd_cwnd = c, !.early_win_old = o]
<1>3. c \in Nat
  BY <1>1, <1>2, Nats, SenderAssumption
<1>4. o \in BOOLEAN
  BY <1>1 DEF Tcpcb
<1>5. r = tcp_output(Quietly(u), w)
  BY <1>2
<1> HIDE DEF o
<1>6. Like(t, u)
  BY <1>1, <1>3, <1>4 DEF Like, Tcpcb
<1> HIDE DEF u
<1>7. Fit(t, w)
  BY <1>1, Nats DEF Fit, TpOK
<1>8. Fit(u, w) /\ u.snd_una = t.snd_una /\ u.snd_max = t.snd_max
  BY <1>6, <1>7, LikeFit DEF Like
<1> QED
  BY <1>5, <1>8, FitOutput

(* An ACK that does not advance snd_una *)

\* A product of naturals, for the provers.
LEMMA ProductNat ==
  ASSUME NEW a \in Nat, NEW b \in Nat
  PROVE  a * b \in Nat
BY SMT

\* Fast retransmit: the timer is off, the window one segment, and the first
\* unacknowledged byte is sent.
LEMMA EnterGood ==
  ASSUME NEW w \in Nat, NEW t, Fit(t, w), NEW r \in EnterFastRecovery(t, t.snd_una, w)
  PROVE  Good(r, w, t.snd_una, t.snd_max)
<1>1. t \in Tcpcb
  BY DEF Fit, TpOK
<1>2. PICK b \in pre_fr(t) :
        LET q == tcp_output(Quietly([b EXCEPT !.snd_recover = t.snd_max,
                                              !.fastrecovery = TRUE, !.rexmt = FALSE,
                                              !.snd_nxt = t.snd_una, !.snd_cwnd = t.t_maxseg]), w)
        IN  r = SetBack(q, b.snd_ssthresh + t.t_maxseg * t.t_dupacks,
                        Greater(q.tp.snd_nxt, t.snd_nxt))
  BY DEF EnterFastRecovery
<1> DEFINE u == [b EXCEPT !.snd_recover = t.snd_max, !.fastrecovery = TRUE, !.rexmt = FALSE,
                          !.snd_nxt = t.snd_una, !.snd_cwnd = t.t_maxseg]
           q == tcp_output(Quietly(u), w)
           c == b.snd_ssthresh + t.t_maxseg * t.t_dupacks
           x == Greater(q.tp.snd_nxt, t.snd_nxt)
<1>3. Like(t, b) /\ b \in Tcpcb
  BY <1>1, PreFrLike DEF Like
<1>4. /\ u \in Tcpcb /\ u.snd_una = t.snd_una /\ u.snd_nxt = t.snd_una /\ u.snd_max = t.snd_max
      /\ u.snd_recover = t.snd_max /\ u.snd_cwnd = t.t_maxseg /\ u.closed = t.closed
      /\ u.t_rxtshift = t.t_rxtshift /\ (t.t_early_rexmt_count <= Limit => u.t_early_rexmt_count <= Limit)
  <2>1. /\ t.snd_max \in Nat /\ t.snd_una \in Nat /\ t.t_maxseg \in Nat
    BY <1>1, Nats
  <2> QED
    BY <1>3, <2>1 DEF Like, Tcpcb
<1>5. r = SetBack(q, c, x)
  BY <1>2
<1> HIDE DEF u
<1>6. TpOK(u, w) /\ ~ u.closed
  BY <1>4, <1>1, Nats DEF Fit, TpOK
<1>7. \/ Covered(u)
      \/ OpenLen(u, w) > 0 /\ u.snd_nxt < u.snd_max
  <2>1. CASE u.snd_una < u.snd_max
    BY <2>1, <1>4, <1>1, <1>6, Nats, SenderAssumption DEF OpenLen, Lesser, TpOK
  <2>2. CASE ~ (u.snd_una < u.snd_max)
    BY <2>2 DEF Covered
  <2> QED
    BY <2>1, <2>2
<1>8. Good(q, w, t.snd_una, t.snd_max)
  <2>1. Quietly(u) = [tp |-> u, sent |-> <<>>] /\ SentOK(<<>>, u)
    BY DEF Quietly, SentOK
  <2> QED
    BY <2>1, <1>4, <1>6, <1>7, OutputGood
<1>9. c \in Nat
  <2>1. t.t_maxseg * t.t_dupacks \in Nat
    BY <1>1, Nats, ProductNat
  <2>2. b.snd_ssthresh \in Nat
    BY <1>3, Nats
  <2> HIDE DEF c
  <2> QED
    BY <2>1, <2>2 DEF c
<1> HIDE DEF q, c
<1>10. x \in Nat /\ t.snd_una <= x /\ x <= q.tp.snd_max
  <2>1. /\ q.tp \in Tcpcb /\ q.tp.snd_una = t.snd_una /\ t.snd_max <= q.tp.snd_max
        /\ q.tp.snd_una <= q.tp.snd_nxt /\ q.tp.snd_nxt <= q.tp.snd_max
    BY <1>8 DEF Good, Fit, TpOK
  <2>2. t.snd_nxt <= t.snd_max
    BY DEF Fit, TpOK
  <2> QED
    BY <2>1, <2>2, <1>1, Nats DEF Greater
<1> HIDE DEF x
<1> QED
  BY <1>5, <1>8, <1>9, <1>10, SetBackGood

\* Limited transmit: the window is widened for one call of tcp_output().
LEMMA LimitedGood ==
  ASSUME NEW w \in Nat, NEW t, Fit(t, w)
  PROVE  Good(LimitedTransmit(t, w), w, t.snd_una, t.snd_max)
<1> DEFINE incr == t.t_maxseg * t.t_dupacks
           u == [t EXCEPT !.snd_cwnd = t.snd_cwnd + incr]
           r == tcp_output(Quietly(u), w)
<1>1. t \in Tcpcb
  BY DEF Fit, TpOK
<1>2. incr \in Nat
  BY <1>1, Nats, ProductNat
<1>3. LimitedTransmit(t, w) = SetBack(r, r.tp.snd_cwnd - incr, r.tp.snd_nxt)
  BY DEF LimitedTransmit
<1> HIDE DEF incr
<1>4. Like(t, u) /\ u.snd_cwnd = t.snd_cwnd + incr
  BY <1>1, <1>2, Nats DEF Like, Tcpcb
<1> HIDE DEF u
<1>5. Fit(u, w) /\ u.snd_una = t.snd_una /\ u.snd_max = t.snd_max
  BY <1>4, LikeFit DEF Like
<1>6. Good(r, w, t.snd_una, t.snd_max)
  BY <1>5, FitOutput
<1>7. r.tp.snd_cwnd = u.snd_cwnd
  <2>1. u \in Tcpcb
    BY <1>4 DEF Like
  <2> QED
    BY <2>1 DEF tcp_output, Quietly, Tcpcb
<1> HIDE DEF r
<1>8. r.tp.snd_cwnd - incr \in Nat
  BY <1>4, <1>7, <1>2, <1>1, Nats
<1>9. /\ r.tp \in Tcpcb /\ r.tp.snd_nxt \in Nat
      /\ t.snd_una <= r.tp.snd_nxt /\ r.tp.snd_nxt <= r.tp.snd_max
  BY <1>6, Nats DEF Good, Fit, TpOK
<1> QED
  BY <1>3, <1>6, <1>8, <1>9, SetBackGood

\* A block that differs from t in its counters and window only.
LEMMA CwndLike ==
  ASSUME NEW t \in Tcpcb, NEW c \in Nat
  PROVE  Like(t, [t EXCEPT !.snd_cwnd = c])
BY DEF Like, Tcpcb

\* Every way out of the duplicate ACK handler.
LEMMA DupAckGood ==
  ASSUME NEW w \in Nat, NEW t, Fit(t, w), NEW r \in DupAck(t, t.snd_una, w)
  PROVE  Good(r, w, t.snd_una, t.snd_max)
<1> DEFINE d == CountDupAck(t, w)
           ack == t.snd_una
<1>1. t \in Tcpcb
  BY DEF Fit, TpOK
<1>2. Like(t, d)
  BY <1>1, CountLike
<1>3. Fit(d, w) /\ d \in Tcpcb /\ d.snd_una = ack /\ d.snd_max = t.snd_max
  BY <1>2, LikeFit DEF Like
<1> DEFINE z == [d EXCEPT !.t_dupacks = 0, !.t_rexmtthresh = tcprexmtthresh]
           y == [d EXCEPT !.t_dupacks = 0]
           x == [d EXCEPT !.snd_cwnd = d.snd_cwnd + d.t_maxseg]
<1>4. \/ r = Quietly(z)
      \/ r = tcp_output(Quietly(x), w)
      \/ r = Quietly(y)
      \/ r \in EnterFastRecovery(d, d.snd_una, w)
      \/ r = LimitedTransmit(d, w)
      \/ r = Quietly(d)
  <2> HIDE DEF d
  <2> QED
    BY <1>3, Zenon DEF DupAck, d
<1> HIDE DEF d
<1>5. Like(d, z) /\ Like(d, y)
  <2>1. tcprexmtthresh \in Nat
    BY SenderAssumption
  <2> QED
    BY <1>3, <2>1 DEF Like, Tcpcb
<1>6. Like(d, x)
  <2>1. d.snd_cwnd + d.t_maxseg \in Nat
    BY <1>3, Nats
  <2> QED
    BY <1>3, <2>1, CwndLike
<1> HIDE DEF x, y, z
<1>7. /\ Fit(z, w) /\ z.snd_una = t.snd_una /\ z.snd_max = t.snd_max
      /\ Fit(y, w) /\ y.snd_una = t.snd_una /\ y.snd_max = t.snd_max
      /\ Fit(x, w) /\ x.snd_una = t.snd_una /\ x.snd_max = t.snd_max
  BY <1>3, <1>5, <1>6, LikeFit DEF Like
<1>8. Good(Quietly(z), w, t.snd_una, t.snd_max) /\ Good(Quietly(y), w, t.snd_una, t.snd_max)
  BY <1>7, QuietlyGood
<1>9. Good(tcp_output(Quietly(x), w), w, t.snd_una, t.snd_max)
  BY <1>7, FitOutput
<1>10. /\ Good(Quietly(d), w, t.snd_una, t.snd_max)
       /\ Good(LimitedTransmit(d, w), w, t.snd_una, t.snd_max)
       /\ \A e \in EnterFastRecovery(d, d.snd_una, w) : Good(e, w, t.snd_una, t.snd_max)
  BY <1>3, QuietlyGood, LimitedGood, EnterGood
<1> QED
  BY <1>4, <1>8, <1>9, <1>10

(* An ACK that advances snd_una *)

\* Segments that all start at or after p.
From(q, p) == \A k \in 1 .. Len(q) : p <= q[k].pos

\* A partial ACK: the next hole is below snd_recover, so it is in the peer's
\* window, and what is resent starts at the ACK.
LEMMA PartialGood ==
  ASSUME NEW w \in Nat, NEW t, Fit(t, w), NEW ack \in Nat, t.snd_una < ack, ack < t.snd_recover
  PROVE  LET r == tcp_newreno_partial_ack(t, ack, w)
         IN  Good(r, w, t.snd_una, t.snd_max) /\ From(r.sent, ack)
<1>1. t \in Tcpcb
  BY DEF Fit, TpOK
<1> DEFINE acked == ack - t.snd_una
           u == [t EXCEPT !.rexmt = FALSE, !.snd_nxt = ack, !.snd_cwnd = t.t_maxseg + acked]
           q == tcp_output(Quietly(u), w)
           c == Deflated(t, acked) + t.t_maxseg
           x == Greater(q.tp.snd_nxt, t.snd_nxt)
           r == tcp_newreno_partial_ack(t, ack, w)
<1>2. r = SetBack(q, c, x)
  BY DEF tcp_newreno_partial_ack
<1>3. acked \in Nat /\ c \in Nat
  BY <1>1, Nats DEF Deflated, Greater
<1>4. ack < t.snd_max /\ t.snd_max \in Nat /\ t.snd_una \in Nat
  BY <1>1, Nats DEF Fit, TpOK
<1>5. /\ u \in Tcpcb /\ u.snd_una = t.snd_una /\ u.snd_nxt = ack /\ u.snd_max = t.snd_max
      /\ u.snd_recover = t.snd_recover /\ u.closed = t.closed /\ u.snd_cwnd = t.t_maxseg + acked
      /\ u.t_rxtshift = t.t_rxtshift /\ u.t_early_rexmt_count = t.t_early_rexmt_count
  <2>1. t.t_maxseg + acked \in Nat
    BY <1>1, <1>3, Nats
  <2> HIDE DEF acked
  <2> QED
    BY <1>1, <2>1 DEF Tcpcb
<1> HIDE DEF u
<1>6. TpOK(u, w) /\ ~ u.closed
  BY <1>1, <1>4, <1>5, Nats DEF Fit, TpOK
<1>7. OpenLen(u, w) > 0 /\ u.snd_nxt < u.snd_max
  <2>1. t.snd_max <= w /\ t.snd_max <= t.snd_una + Window /\ Window \in Nat
    BY SenderAssumption DEF Fit, TpOK
  <2> QED
    BY <1>1, <1>4, <1>5, <2>1, Nats DEF OpenLen, Lesser
<1>8. Quietly(u) = [tp |-> u, sent |-> <<>>] /\ SentOK(<<>>, u)
  BY DEF Quietly, SentOK
<1>9. Good(q, w, t.snd_una, t.snd_max)
  BY <1>5, <1>6, <1>7, <1>8, OutputGood
<1>10. From(q.sent, ack)
  <2> DEFINE S == Segments(u, TxLen(u, w))
  <2>1. TxLen(u, w) \in Nat
    BY <1>6, TxLenFacts DEF TpOK
  <2>2. S \in Seq(Seg) /\ \A k \in 1 .. Len(S) : ack <= S[k].pos
    BY <2>1, <1>5, SegmentsFacts
  <2>3. q.sent = <<>> \o S
    BY DEF tcp_output, Quietly
  <2> HIDE DEF S, q
  <2>4. q.sent = S
    BY <2>2, <2>3
  <2> QED
    BY <2>2, <2>4 DEF From
<1> HIDE DEF q, c, r
<1>11. x \in Nat /\ t.snd_una <= x /\ x <= q.tp.snd_max
  <2>1. /\ q.tp \in Tcpcb /\ q.tp.snd_una = t.snd_una /\ t.snd_max <= q.tp.snd_max
        /\ q.tp.snd_una <= q.tp.snd_nxt /\ q.tp.snd_nxt <= q.tp.snd_max
    BY <1>9 DEF Good, Fit, TpOK
  <2>2. t.snd_nxt <= t.snd_max
    BY DEF Fit, TpOK
  <2> QED
    BY <2>1, <2>2, <1>1, Nats DEF Greater
<1> HIDE DEF x
<1>12. Good(r, w, t.snd_una, t.snd_max)
  BY <1>2, <1>3, <1>9, <1>11, SetBackGood
<1>13. From(r.sent, ack)
  BY <1>2, <1>10 DEF SetBack
<1> QED
  BY <1>12, <1>13 DEF r

\* Recovery left or continued, before snd_una moves.
LEMMA LeaveOrStayGood ==
  ASSUME NEW w \in Nat, NEW t, Fit(t, w), NEW ack \in Nat, t.snd_una < ack, ack <= t.snd_max,
         NEW r \in LeaveOrStay(t, ack, w)
  PROVE  Good(r, w, t.snd_una, t.snd_max) /\ From(r.sent, ack)
<1>1. t \in Tcpcb
  BY DEF Fit, TpOK
<1>2. CASE ~ t.fastrecovery
  <2> DEFINE u == [t EXCEPT !.t_dupacks = 0, !.t_rexmtthresh = tcprexmtthresh]
  <2>1. r = Quietly(u)
    BY <1>2 DEF LeaveOrStay
  <2>2. tcprexmtthresh \in Nat
    BY SenderAssumption
  <2>3. Like(t, u)
    BY <1>1, <2>2 DEF Like, Tcpcb
  <2> HIDE DEF u
  <2>4. Fit(u, w) /\ u.snd_una = t.snd_una /\ u.snd_max = t.snd_max
    BY <2>3, LikeFit DEF Like
  <2>5. r.sent = <<>>
    BY <2>1 DEF Quietly
  <2> QED
    BY <2>1, <2>4, <2>5, QuietlyGood DEF From
<1>3. CASE t.fastrecovery /\ ack < t.snd_recover
  BY <1>3, PartialGood DEF LeaveOrStay
<1>4. CASE t.fastrecovery /\ ~ (ack < t.snd_recover)
  <2> DEFINE e == ExitFastRecovery(t)
  <2>1. Like(t, e) /\ e \in Tcpcb /\ e.snd_max = t.snd_max
    BY <1>1, ExitLike DEF Like
  <2>2. PICK b \in post_fr(e, ack) : r = Quietly(b)
    BY <1>4 DEF LeaveOrStay
  <2> HIDE DEF e
  <2>3. Like(e, b)
    BY <2>1, <2>2, PostFrLike
  <2>4. Fit(b, w) /\ b.snd_una = t.snd_una /\ b.snd_max = t.snd_max
    BY <2>1, <2>3, LikeTrans, LikeFit DEF Like
  <2>5. r.sent = <<>>
    BY <2>2 DEF Quietly
  <2> QED
    BY <2>2, <2>4, <2>5, QuietlyGood DEF From
<1> QED
  BY <1>2, <1>3, <1>4

\* An ACK of new data: snd_una moves to it.
LEMMA NewAckGood ==
  ASSUME NEW w \in Nat, NEW t, Fit(t, w), NEW ack \in Nat, t.snd_una < ack, ack <= t.snd_max,
         NEW r \in NewAck(t, ack, w)
  PROVE  Good(r, w, ack, t.snd_max)
<1>1. t \in Tcpcb
  BY DEF Fit, TpOK
<1> DEFINE Open(b) == (IF b.fastrecovery THEN {} ELSE ack_rcvd(b, ack, w))
                      \cup (IF t.fastrecovery THEN {b} ELSE {})
           Move(b) == [b EXCEPT !.t_pmtud_lastseg_size = 0, !.t_rxtshift = 0,
                                !.rexmt = RestartsTimer(b, ack),
                                !.snd_una = ack, !.snd_nxt = PulledNxt(b, ack)]
<1>2. PICK q \in LeaveOrStay(t, ack, w) :
        r \in {tcp_output([tp |-> Move(b), sent |-> q.sent], w) : b \in Open(q.tp)}
  BY DEF NewAck
<1>3. PICK b \in Open(q.tp) : r = tcp_output([tp |-> Move(b), sent |-> q.sent], w)
  BY <1>2
<1>4. Good(q, w, t.snd_una, t.snd_max) /\ From(q.sent, ack)
  BY <1>2, LeaveOrStayGood
<1>5. /\ Fit(q.tp, w) /\ q.tp \in Tcpcb /\ SentOK(q.sent, q.tp)
      /\ q.tp.snd_una = t.snd_una /\ t.snd_max <= q.tp.snd_max
  BY <1>4 DEF Good, Fit, TpOK
<1>6. b \in ack_rcvd(q.tp, ack, w) \/ b = q.tp
  BY <1>3
<1>7. Like(q.tp, b)
  <2>1. Like(q.tp, q.tp)
    BY <1>5 DEF Like
  <2>2. q.tp.snd_una <= ack
    BY <1>1, <1>5, Nats
  <2> QED
    BY <1>5, <1>6, <2>1, <2>2, AckRcvdLike
<1>8. Fit(b, w) /\ b \in Tcpcb /\ b.snd_una = t.snd_una /\ t.snd_max <= b.snd_max
      /\ b.snd_max = q.tp.snd_max
  BY <1>5, <1>7, LikeFit DEF Like
<1> DEFINE nx == PulledNxt(b, ack)
           rx == RestartsTimer(b, ack)
           u == [b EXCEPT !.t_pmtud_lastseg_size = 0, !.t_rxtshift = 0, !.rexmt = rx,
                          !.snd_una = ack, !.snd_nxt = nx]
<1>9. r = tcp_output([tp |-> u, sent |-> q.sent], w)
  BY <1>3
<1>10. /\ nx \in Nat /\ ack <= nx /\ nx <= b.snd_max
       /\ rx \in BOOLEAN /\ (ack < b.snd_max => rx)
  <2>1. b.snd_nxt <= b.snd_max /\ b.snd_nxt \in Nat /\ b.snd_max \in Nat /\ t.snd_max \in Nat
    BY <1>8, <1>1, Nats DEF Fit, TpOK
  <2> QED
    BY <2>1, <1>8 DEF PulledNxt, RestartsTimer, Greater
<1> HIDE DEF nx, rx
<1>11. /\ u \in Tcpcb /\ u.snd_una = ack /\ u.snd_nxt = nx /\ u.snd_max = b.snd_max
       /\ u.rexmt = rx /\ u.snd_recover = b.snd_recover /\ u.closed = b.closed
       /\ u.t_rxtshift = 0 /\ u.t_early_rexmt_count = b.t_early_rexmt_count
  BY <1>8, <1>10 DEF Tcpcb
<1> HIDE DEF u
<1>12. TpOK(u, w) /\ ~ u.closed /\ Covered(u)
  <2>1. /\ b.snd_max <= w /\ b.snd_max <= t.snd_una + Window /\ b.snd_recover <= b.snd_max
        /\ ~ b.closed /\ b.t_early_rexmt_count <= Limit /\ 0 <= MaxShift
    BY <1>8, SenderAssumption DEF Fit, TpOK
  <2>2. Window \in Nat /\ t.snd_una \in Nat /\ b.snd_max \in Nat
    BY <1>1, <1>8, Nats, SenderAssumption
  <2> QED
    BY <2>1, <2>2, <1>10, <1>11 DEF TpOK, Covered
<1>13. SentOK(q.sent, u)
  BY <1>4, <1>5, <1>8, <1>11 DEF SentOK, From
<1>14. Good(r, w, u.snd_una, u.snd_max)
  BY <1>9, <1>12, <1>13, OutputGood
<1>15. t.snd_max <= r.tp.snd_max
  <2>1. u.snd_max <= r.tp.snd_max /\ r.tp \in Tcpcb
    BY <1>14 DEF Good, Fit, TpOK
  <2> QED
    BY <2>1, <1>1, <1>8, <1>11, Nats
<1> QED
  BY <1>11, <1>14, <1>15 DEF Good

(* The retransmission timer *)

\* A timeout gives the connection up or leaves it fit, with the timer on.
LEMMA TimeoutGood ==
  ASSUME NEW w \in Nat, NEW t, Fit(t, w), NEW r \in RexmtTimeout(t, w)
  PROVE  \/ r = Quietly([t EXCEPT !.closed = TRUE, !.rexmt = FALSE])
         \/ Good(r, w, t.snd_una, t.snd_max)
<1>1. t \in Tcpcb
  BY DEF Fit, TpOK
<1> DEFINE up == [t EXCEPT !.t_rxtshift = t.t_rxtshift + 1]
           on == [up EXCEPT !.rexmt = TRUE]
           probed == BlackHoleCheck(on)
           back == Rewind(probed)
<1>2. CASE r = Quietly([t EXCEPT !.closed = TRUE, !.rexmt = FALSE])
  BY <1>2
<1>3. CASE /\ t.t_rxtshift + 1 <= MaxShift
           /\ \E b \in after_timeout(back) \cup cwnd_init(back) : r = tcp_output(Quietly(ExitFastRecovery(b)), w)
  <2>1. PICK b \in after_timeout(back) \cup cwnd_init(back) : r = tcp_output(Quietly(ExitFastRecovery(b)), w)
    BY <1>3
  <2>2. /\ on \in Tcpcb /\ on.rexmt = TRUE /\ on.snd_una = t.snd_una /\ on.snd_nxt = t.snd_nxt
        /\ on.snd_max = t.snd_max /\ on.snd_recover = t.snd_recover /\ on.closed = t.closed
        /\ on.t_rxtshift = t.t_rxtshift + 1 /\ on.t_early_rexmt_count = t.t_early_rexmt_count
    <3>1. t.t_rxtshift + 1 \in Nat
      BY <1>1, Nats
    <3> QED
      BY <1>1, <3>1 DEF Tcpcb
  <2> HIDE DEF up, on
  <2>3. Like(on, probed)
    BY <2>2, BlackHoleLike
  <2> HIDE DEF probed
  <2>4. /\ back \in Tcpcb /\ back.rexmt = TRUE /\ back.snd_una = t.snd_una
        /\ back.snd_nxt = t.snd_una /\ back.snd_max = t.snd_max
        /\ back.snd_recover = t.snd_max /\ back.closed = t.closed
        /\ back.t_rxtshift = t.t_rxtshift + 1
        /\ t.t_early_rexmt_count <= Limit => back.t_early_rexmt_count <= Limit
    BY <2>2, <2>3 DEF Like, Rewind, Tcpcb
  <2> HIDE DEF back
  <2>5. Fit(back, w)
    BY <1>1, <1>3, <2>4, Nats DEF Fit, TpOK, Covered
  <2>6. Like(back, b)
    BY <2>1, <2>4, AfterTimeoutLike, CwndInitLike
  <2> DEFINE e == ExitFastRecovery(b)
  <2>7. Like(back, e)
    BY <2>6, ExitLike, LikeTrans DEF Like
  <2> HIDE DEF e
  <2>8. Fit(e, w) /\ e.snd_una = t.snd_una /\ e.snd_max = t.snd_max
    BY <2>4, <2>5, <2>7, LikeFit DEF Like
  <2>9. r = tcp_output(Quietly(e), w)
    BY <2>1 DEF e
  <2> QED
    BY <2>8, <2>9, FitOutput
<1>4. \/ r = Quietly([t EXCEPT !.closed = TRUE, !.rexmt = FALSE])
      \/ /\ t.t_rxtshift + 1 <= MaxShift
         /\ \E b \in after_timeout(back) \cup cwnd_init(back) : r = tcp_output(Quietly(ExitFastRecovery(b)), w)
  <2>1. up.t_rxtshift = t.t_rxtshift + 1
    BY <1>1 DEF Tcpcb
  <2>2. ~ (t.t_rxtshift + 1 > MaxShift) => t.t_rxtshift + 1 <= MaxShift
    BY <1>1, Nats, SenderAssumption
  <2> HIDE DEF back
  <2> QED
    BY <2>1, <2>2 DEF RexmtTimeout, back, cwnd_init
<1> QED
  BY <1>2, <1>3, <1>4

-----------------------------------------------------------------------------
(* The system *)

\* Every non-empty set of naturals has a least element.
LEMMA Least ==
  ASSUME NEW T, T \subseteq Nat, T # {}
  PROVE  \E x \in T : \A y \in T : x <= y
<1> DEFINE R == OpToRel(<, Nat)
<1>1. IsWellFoundedOn(R, Nat)
  BY NatLessThanWellFounded, Zenon
<1>2. R = {ss \in Nat \X Nat : ss[1] < ss[2]}
  BY Zenon DEF OpToRel
<1> HIDE DEF R
<1>3. PICK x \in T : \A y \in T : ~ (<<y, x>> \in R)
  BY <1>1, WFMin
<1>4. ASSUME NEW y \in T PROVE x <= y
  <2>1. x \in Nat /\ y \in Nat /\ ~ (<<y, x>> \in R)
    BY <1>3
  <2>2. ~ (<<y, x>> \in {ss \in Nat \X Nat : ss[1] < ss[2]})
    BY <1>2, <2>1
  <2>3. ~ (y < x)
    BY <2>1, <2>2
  <2> QED
    BY <2>1, <2>3
<1> QED
  BY <1>3, <1>4

\* The scan for the frontier stops at or below the first byte never sent.
LEMMA FrontierExists ==
  ASSUME NEW f \in Nat, NEW w \in Nat, NEW m \in Nat, f <= m, m <= w,
         NEW G, G \subseteq Nat, \A p \in G : p < m
  PROVE  \E x \in f .. w : x \notin G /\ f .. x - 1 \subseteq G
<1> DEFINE T == {x \in f .. w : x \notin G}
<1>1. m \in T /\ T \subseteq Nat
  BY SMT
<1>2. PICK x \in T : \A y \in T : x <= y
  BY <1>1, Least
<1>3. x \in f .. w /\ x \notin G
  BY <1>2
<1>4. ASSUME NEW y \in f .. x - 1
      PROVE  y \in G
  BY <1>2, <1>3
<1> QED
  BY <1>3, <1>4

\* Charging a rule leaves a sequence of rules.
LEMMA ChargedType ==
  ASSUME NEW q \in Seq(DropRule), NEW x \in Nat, NEW l \in Nat, Drops(q, x, l)
  PROVE  Charged(q, x, l) \in Seq(DropRule)
<1> DEFINE M == Matching(q, x, l)
           first == CHOOSE k \in M : \A j \in M : k <= j
<1>1. M # {} /\ M \subseteq 1 .. Len(q)
  BY DEF Drops, Matching
<1>2. \E k \in M : \A j \in M : k <= j
  <2> HIDE DEF M
  <2>1. M \subseteq Nat
    BY <1>1
  <2> QED
    BY <1>1, <2>1, Least
<1>3. first \in M
  <2> HIDE DEF M
  <2> QED
    BY <1>2, Zenon
<1>4. Charged(q, x, l) = [q EXCEPT ![first].fired = q[first].fired + 1]
  BY DEF Charged
<1> HIDE DEF M, first
<1>5. first \in 1 .. Len(q) /\ q[first] \in DropRule
  BY <1>1, <1>3
<1>6. [q[first] EXCEPT !.fired = q[first].fired + 1] \in DropRule
  <2>1. q[first].fired + 1 \in Nat
    BY <1>5 DEF DropRule
  <2> QED
    BY <1>5, <2>1 DEF DropRule
<1> QED
  BY <1>4, <1>5, <1>6

\* The parts of the invariant a handler of the kernel needs.
LEMMA InvFit ==
  ASSUME InductiveInv, ~ tp.closed
  PROVE  Fit(tp, wrote) /\ wrote \in Nat /\ tp \in Tcpcb
BY DEF InductiveInv, TypeOK, SenderOrder, TimerGuardsData, Bounded, Fit, TpOK, Covered

\* A handler's result adopted.
LEMMA AdoptStep ==
  ASSUME InductiveInv, ~ tp.closed,
         NEW r, NEW una \in Nat, Good(r, wrote', una, tp.snd_max), Adopt(r),
         wrote' \in Nat, tp.snd_una <= una
  PROVE  /\ tp' \in Tcpcb /\ data' \in Seq([pos : Nat, len : Nat \ {0}])
         /\ tp'.snd_una = una /\ tp.snd_max <= tp'.snd_max /\ tp.snd_max \in Nat
         /\ tp'.snd_una <= tp'.snd_nxt /\ tp'.snd_nxt <= tp'.snd_max /\ tp'.snd_max <= wrote'
         /\ TimerGuardsData'
         /\ tp'.snd_max <= tp'.snd_una + Window /\ tp'.snd_recover <= tp'.snd_max
         /\ tp'.t_rxtshift <= MaxShift /\ tp'.t_early_rexmt_count <= Limit
         /\ \A k \in 1 .. Len(data') : data'[k].pos + data'[k].len <= tp'.snd_max
         /\ \A k \in Len(data) + 1 .. Len(data') :
               /\ tp'.snd_una <= data'[k].pos
               /\ data'[k].pos \in Nat /\ data'[k].len \in Nat
               /\ data'[k].pos + data'[k].len <= tp'.snd_max
<1>1. tp' = r.tp /\ data' = data \o r.sent
  BY DEF Adopt
<1>2. Fit(tp', wrote') /\ SentOK(r.sent, tp') /\ tp'.snd_una = una /\ tp.snd_max <= tp'.snd_max
  BY <1>1 DEF Good
<1>3. data \in Seq(Seg) /\ r.sent \in Seq(Seg)
  BY <1>2 DEF InductiveInv, TypeOK, SentOK, Seg
<1>4. data' \in Seq(Seg) /\ Len(data') = Len(data) + Len(r.sent)
  BY <1>1, <1>3
<1>5. tp \in Tcpcb /\ tp' \in Tcpcb
  BY <1>2 DEF InductiveInv, TypeOK, Fit, TpOK
<1>6. tp.snd_max \in Nat /\ tp'.snd_max \in Nat
  BY <1>5, Nats
<1>7. ASSUME NEW k \in 1 .. Len(data')
      PROVE  /\ data'[k].pos \in Nat /\ data'[k].len \in Nat
             /\ data'[k].pos + data'[k].len <= tp'.snd_max
             /\ k > Len(data) => tp'.snd_una <= data'[k].pos
  <2>1. data'[k] \in Seg
    BY <1>4
  <2>2. CASE k <= Len(data)
    <3>1. data'[k] = data[k] /\ data[k].pos + data[k].len <= tp.snd_max
      BY <1>1, <1>3, <1>4, <2>2 DEF InductiveInv, Bounded
    <3>2. data[k].pos \in Nat /\ data[k].len \in Nat
      BY <3>1, <2>1 DEF Seg
    <3>3. data[k].pos + data[k].len <= tp'.snd_max
      BY <3>1, <3>2, <1>2, <1>6
    <3>4. ~ (k > Len(data))
      BY <2>2, <1>3
    <3> QED
      BY <3>1, <3>2, <3>3, <3>4
  <2>3. CASE k > Len(data)
    <3>1. data'[k] = r.sent[k - Len(data)] /\ k - Len(data) \in 1 .. Len(r.sent)
      BY <1>1, <1>3, <1>4, <2>3
    <3> QED
      BY <3>1, <2>1, <1>2 DEF SentOK, Seg
  <2> QED
    BY <2>2, <2>3, <1>3
<1>8. ASSUME NEW k \in Len(data) + 1 .. Len(data')
      PROVE  k \in 1 .. Len(data') /\ k > Len(data)
  BY <1>3
<1>9. TimerGuardsData'
  BY <1>2 DEF TimerGuardsData, Fit, Covered
<1> QED
  BY <1>2, <1>4, <1>5, <1>6, <1>7, <1>8, <1>9 DEF Fit, TpOK, Seg

\* The established connection.
LEMMA InitInv ==
  ASSUME Init
  PROVE  InductiveInv
<1>1. scenario \in Seq(Rounds) /\ scenario \in Scenarios
  BY RecoveryAssumption DEF Init
<1>2. /\ MSS \in Nat /\ mssdflt \in Nat /\ Window \in Nat /\ InitialCwnd \in Nat
      /\ tcprexmtthresh \in Nat /\ Limit \in Nat /\ MaxShift \in Nat /\ MaxCwnd \in Nat
  BY SenderAssumption DEF MaxCwnd, Greater
<1>3. Established \in Tcpcb
  BY <1>2 DEF Established, Tcpcb
<1>4. TypeOK
  <2>1. 0 \in 0 .. Len(scenario)
    BY <1>1
  <2> QED
    BY <1>1, <1>3, <2>1 DEF Init, TypeOK, EmptySum
<1>5. SenderOrder /\ TimerGuardsData /\ Bounded
  BY <1>2 DEF Init, Established, SenderOrder, TimerGuardsData, Bounded
<1> QED
  BY <1>4, <1>5 DEF InductiveInv

\* The parts of the invariant that a step of the kernel must restore.
LEMMA KernelStep ==
  ASSUME InductiveInv, ~ tp.closed,
         NEW r, NEW una \in Nat, Good(r, wrote', una, tp.snd_max), Adopt(r),
         wrote' \in Nat, tp.snd_una <= una, una <= frontier, UNCHANGED <<got, frontier>>,
         \A k \in 1 .. Len(acks') : una <= acks'[k] /\ acks'[k] <= frontier,
         \A j, k \in 1 .. Len(acks') : j <= k => acks'[j] <= acks'[k]
  PROVE  /\ tp' \in Tcpcb /\ data' \in Seq([pos : Nat, len : Nat \ {0}])
         /\ SenderOrder' /\ TimerGuardsData' /\ Bounded' /\ FitsWindow
<1>1. /\ tp' \in Tcpcb /\ data' \in Seq([pos : Nat, len : Nat \ {0}])
      /\ tp'.snd_una = una /\ tp.snd_max <= tp'.snd_max /\ tp.snd_max \in Nat
      /\ tp'.snd_una <= tp'.snd_nxt /\ tp'.snd_nxt <= tp'.snd_max /\ tp'.snd_max <= wrote'
      /\ TimerGuardsData'
      /\ tp'.snd_max <= tp'.snd_una + Window /\ tp'.snd_recover <= tp'.snd_max
      /\ tp'.t_rxtshift <= MaxShift /\ tp'.t_early_rexmt_count <= Limit
      /\ \A k \in 1 .. Len(data') : data'[k].pos + data'[k].len <= tp'.snd_max
      /\ \A k \in Len(data) + 1 .. Len(data') :
            /\ tp'.snd_una <= data'[k].pos
            /\ data'[k].pos \in Nat /\ data'[k].len \in Nat
            /\ data'[k].pos + data'[k].len <= tp'.snd_max
  BY AdoptStep
<1>2. tp'.snd_max \in Nat /\ Window \in Nat /\ frontier \in Nat /\ got \subseteq Nat
  BY <1>1, Nats, SenderAssumption DEF InductiveInv, TypeOK
<1>3. SenderOrder'
  <2>1. frontier <= tp'.snd_max
    BY <1>1, <1>2 DEF InductiveInv, SenderOrder
  <2> QED
    BY <1>1, <2>1 DEF SenderOrder
<1>4. Bounded'
  <2>1. \A p \in got : p < tp'.snd_max
    BY <1>1, <1>2 DEF InductiveInv, Bounded
  <2> QED
    BY <1>1, <2>1 DEF Bounded
<1>5. FitsWindow
  <2>1. SUFFICES ASSUME NEW k \in Len(data) + 1 .. Len(data')
                 PROVE  /\ tp'.snd_una <= data'[k].pos /\ data'[k].pos <= tp'.snd_max
                        /\ data'[k].pos + data'[k].len <= wrote'
                        /\ data'[k].pos + data'[k].len <= tp'.snd_una + Window
    BY DEF FitsWindow
  <2> DEFINE x == data'[k].pos
             l == data'[k].len
  <2>2. tp'.snd_una <= x /\ x \in Nat /\ l \in Nat /\ x + l <= tp'.snd_max
    BY <1>1
  <2>3. tp'.snd_una \in Nat
    BY <1>1
  <2> HIDE DEF x, l
  <2>4. x <= tp'.snd_max /\ x + l <= wrote' /\ x + l <= tp'.snd_una + Window
    BY <1>1, <1>2, <2>2, <2>3
  <2> QED
    BY <2>2, <2>4 DEF x, l
<1> QED
  BY <1>1, <1>3, <1>4, <1>5

\* The next round is written.
LEMMA WriteStep ==
  ASSUME InductiveInv, NEW late \in BOOLEAN, WriteRound(late)
  PROVE  InductiveInv' /\ FitsWindow
<1>1. /\ ~ tp.closed /\ round \in 0 .. Len(scenario) /\ round < Len(scenario)
      /\ round' = round + 1 /\ scenario' = scenario
  BY DEF WriteRound, NextRound, InductiveInv, TypeOK
<1>2. scenario \in Seq(Rounds)
  BY RecoveryAssumption DEF InductiveInv, TypeOK
<1>3. scenario[round + 1] \in Rounds /\ round' \in 0 .. Len(scenario)
  BY <1>1, <1>2
<1>4. Fit(tp, wrote) /\ wrote \in Nat /\ tp \in Tcpcb
  BY <1>1, InvFit
<1>5. wrote' \in Nat /\ wrote <= wrote' /\ rules' \in Seq(DropRule)
  BY <1>3, <1>4 DEF WriteRound, Rounds
<1>6. PICK r \in UserWrite(tp, wrote', late) : Adopt(r)
  BY DEF WriteRound
<1>7. Good(r, wrote', tp.snd_una, tp.snd_max)
  BY <1>4, <1>5, <1>6, UserWriteGood
<1>8. tp.snd_una \in Nat /\ tp.snd_una <= tp.snd_una
  BY <1>4, Nats
<1>9. UNCHANGED <<acks, got, frontier, max_end>>
  BY DEF WriteRound
<1>10. /\ tp' \in Tcpcb /\ data' \in Seq([pos : Nat, len : Nat \ {0}])
       /\ SenderOrder' /\ TimerGuardsData' /\ Bounded' /\ FitsWindow
  BY <1>1, <1>5, <1>6, <1>7, <1>8, <1>9, KernelStep DEF InductiveInv, SenderOrder, Bounded
<1>11. TypeOK'
  <2> DEFINE l == IF late \/ tp.early_win_old THEN Limit ELSE Limit - tp.t_early_rexmt_count
  <2>1. l \in Nat
    BY <1>4, Nats, SenderAssumption DEF InductiveInv, Bounded
  <2>2. sum' = EmptySum(l)
    BY DEF WriteRound
  <2> HIDE DEF l
  <2>3. sum' \in [hole_end : Nat, retransmits : Nat, dup_acks_sent : Nat, ack_send_failures : Nat,
                  timeouts : Nat, left : Nat]
    BY <2>1, <2>2 DEF EmptySum
  <2>4. spent' \in [fail : Nat, late : Nat, expired : Nat]
    <3>1. spent \in [fail : Nat, late : Nat, expired : Nat] /\ spent' \in {spent, [spent EXCEPT !.late = spent.late + 1]}
      BY DEF WriteRound, InductiveInv, TypeOK
    <3>2. spent.late + 1 \in Nat
      BY <3>1
    <3> QED
      BY <3>1, <3>2
  <2>5. clock' = 0 /\ drops' = <<>> /\ recv' = "running"
    BY DEF WriteRound
  <2> QED
    BY <1>1, <1>3, <1>5, <1>9, <1>10, <2>3, <2>4, <2>5 DEF InductiveInv, TypeOK
<1> QED
  BY <1>10, <1>11 DEF InductiveInv

\* The kernel takes in an ACK.
LEMMA AckStep ==
  ASSUME InductiveInv, KernelAck
  PROVE  InductiveInv' /\ FitsWindow
<1> DEFINE ack == Head(acks)
<1>1. /\ acks # <<>> /\ ~ tp.closed /\ acks' = Tail(acks) /\ wrote' = wrote
      /\ UNCHANGED <<scenario, round, recv, peerVars, sum, clock, drops, spent>>
  BY DEF KernelAck, TakeAck
<1>2. PICK r \in TcpInput(tp, ack, wrote) : Adopt(r)
  BY DEF KernelAck
<1>3. acks \in Seq(Nat) /\ frontier \in Nat
  BY DEF InductiveInv, TypeOK
<1>4. /\ ack = acks[1] /\ 1 \in 1 .. Len(acks) /\ ack \in Nat
      /\ Len(acks') = Len(acks) - 1 /\ acks' \in Seq(Nat)
      /\ \A k \in 1 .. Len(acks') : acks'[k] = acks[k + 1] /\ k + 1 \in 1 .. Len(acks)
  BY <1>1, <1>3
<1>5. tp.snd_una <= ack /\ ack <= frontier /\ frontier <= tp.snd_max
  BY <1>4 DEF InductiveInv, SenderOrder
<1>6. Fit(tp, wrote) /\ wrote \in Nat /\ tp \in Tcpcb
  BY <1>1, InvFit
<1>7. ack <= tp.snd_max
  BY <1>3, <1>4, <1>5, <1>6, Nats
<1> HIDE DEF ack
<1>8. Good(r, wrote, ack, tp.snd_max)
  <2>1. CASE ack <= tp.snd_una
    <3>1. ack = tp.snd_una
      BY <2>1, <1>4, <1>5, <1>6, Nats
    <3>2. r \in DupAck(tp, tp.snd_una, wrote)
      BY <2>1, <3>1, <1>2 DEF TcpInput
    <3> QED
      BY <3>1, <3>2, <1>6, DupAckGood
  <2>2. CASE ~ (ack <= tp.snd_una)
    <3>1. tp.snd_una < ack
      BY <2>2, <1>4, <1>6, Nats
    <3>2. r \in NewAck(tp, ack, wrote)
      BY <2>2, <1>2 DEF TcpInput
    <3> QED
      BY <3>1, <3>2, <1>4, <1>6, <1>7, NewAckGood
  <2> QED
    BY <2>1, <2>2
<1>9. \A k \in 1 .. Len(acks') : ack <= acks'[k] /\ acks'[k] <= frontier
  BY <1>4 DEF InductiveInv, SenderOrder, Bounded
<1>10. ASSUME NEW j \in 1 .. Len(acks'), NEW k \in 1 .. Len(acks'), j <= k
       PROVE  acks'[j] <= acks'[k]
  <2>1. j + 1 \in 1 .. Len(acks) /\ k + 1 \in 1 .. Len(acks) /\ j + 1 <= k + 1
    BY <1>4, <1>10
  <2>2. acks'[j] = acks[j + 1] /\ acks'[k] = acks[k + 1]
    BY <1>4
  <2> QED
    BY <2>1, <2>2 DEF InductiveInv, Bounded
<1>11. UNCHANGED <<got, frontier>> /\ wrote' \in Nat
  BY <1>1, <1>6 DEF peerVars
<1>12. /\ tp' \in Tcpcb /\ data' \in Seq([pos : Nat, len : Nat \ {0}])
       /\ SenderOrder' /\ TimerGuardsData' /\ Bounded' /\ FitsWindow
  BY <1>1, <1>2, <1>4, <1>5, <1>8, <1>9, <1>10, <1>11, KernelStep
<1>13. TypeOK'
  BY <1>1, <1>4, <1>12 DEF InductiveInv, TypeOK, peerVars
<1> QED
  BY <1>12, <1>13 DEF InductiveInv

\* The timer fires.
LEMMA TimeoutStep ==
  ASSUME InductiveInv, KernelTimeout
  PROVE  InductiveInv' /\ FitsWindow
<1>1. /\ ~ tp.closed /\ clock' = clock + tcp_backoff[tp.t_rxtshift + 1]
      /\ UNCHANGED <<scenario, round, recv, wrote, acks, peerVars, drops, spent>>
  BY DEF KernelTimeout, Expire
<1>2. PICK r \in RexmtTimeout(tp, wrote) : Adopt(r)
  BY DEF KernelTimeout
<1>3. Fit(tp, wrote) /\ wrote \in Nat /\ tp \in Tcpcb
  BY <1>1, InvFit
<1>4. clock' \in Nat
  <2>1. tp.t_rxtshift + 1 \in 1 .. 13
    BY <1>3, Nats, SenderAssumption DEF Fit, TpOK
  <2>2. \A k \in 1 .. 13 : tcp_backoff[k] \in Nat
    BY DEF tcp_backoff
  <2>3. clock \in Nat /\ tcp_backoff[tp.t_rxtshift + 1] \in Nat
    BY <2>1, <2>2 DEF InductiveInv, TypeOK
  <2> QED
    BY <1>1, <2>3
<1>5. sum' \in [hole_end : Nat, retransmits : Nat, dup_acks_sent : Nat, ack_send_failures : Nat,
                timeouts : Nat, left : Nat]
  <2>1. /\ sum \in [hole_end : Nat, retransmits : Nat, dup_acks_sent : Nat,
                    ack_send_failures : Nat, timeouts : Nat, left : Nat]
        /\ sum' \in {sum, [sum EXCEPT !.timeouts = sum.timeouts + 1]}
    BY DEF KernelTimeout, InductiveInv, TypeOK
  <2>2. sum.timeouts + 1 \in Nat
    BY <2>1
  <2> QED
    BY <2>1, <2>2
<1>6. CASE Good(r, wrote, tp.snd_una, tp.snd_max)
  <2>1. tp.snd_una \in Nat /\ tp.snd_una <= tp.snd_una /\ tp.snd_una <= frontier
    BY <1>3, Nats DEF InductiveInv, SenderOrder
  <2>2. UNCHANGED <<got, frontier>> /\ wrote' \in Nat /\ Good(r, wrote', tp.snd_una, tp.snd_max)
    BY <1>1, <1>3, <1>6 DEF peerVars
  <2>3. /\ tp' \in Tcpcb /\ data' \in Seq([pos : Nat, len : Nat \ {0}])
        /\ SenderOrder' /\ TimerGuardsData' /\ Bounded' /\ FitsWindow
    BY <1>1, <1>2, <2>1, <2>2, KernelStep DEF InductiveInv, SenderOrder, Bounded
  <2>4. TypeOK'
    BY <1>1, <1>4, <1>5, <2>3 DEF InductiveInv, TypeOK, peerVars
  <2> QED
    BY <2>3, <2>4 DEF InductiveInv
<1>7. CASE r = Quietly([tp EXCEPT !.closed = TRUE, !.rexmt = FALSE])
  <2>1. data \in Seq([pos : Nat, len : Nat \ {0}])
    BY DEF InductiveInv, TypeOK
  <2>2. tp' = [tp EXCEPT !.closed = TRUE, !.rexmt = FALSE] /\ data' = data
    BY <1>2, <1>7, <2>1 DEF Adopt, Quietly
  <2>3. /\ tp' \in Tcpcb /\ tp'.closed = TRUE
        /\ tp'.snd_una = tp.snd_una /\ tp'.snd_nxt = tp.snd_nxt /\ tp'.snd_max = tp.snd_max
        /\ tp'.snd_recover = tp.snd_recover
        /\ tp'.t_rxtshift = tp.t_rxtshift /\ tp'.t_early_rexmt_count = tp.t_early_rexmt_count
    BY <1>3, <2>2 DEF Tcpcb
  <2>4. SenderOrder' /\ TimerGuardsData' /\ Bounded'
    BY <1>1, <2>2, <2>3 DEF InductiveInv, SenderOrder, TimerGuardsData, Bounded, peerVars
  <2>5. FitsWindow
    BY <2>1, <2>2 DEF FitsWindow
  <2>6. TypeOK'
    BY <1>1, <1>4, <1>5, <2>2, <2>3 DEF InductiveInv, TypeOK, peerVars
  <2> QED
    BY <2>4, <2>5, <2>6 DEF InductiveInv
<1> QED
  BY <1>2, <1>3, <1>6, <1>7, TimeoutGood

\* The peer takes one segment off the wire: the kernel's part is untouched.
LEMMA ReadFacts ==
  ASSUME InductiveInv, ReadSegment
  PROVE  /\ seg \in Seg /\ seg.pos \in Nat /\ seg.len \in Nat
         /\ seg.pos + seg.len <= tp.snd_max /\ tp.snd_max \in Nat
         /\ data' \in Seq([pos : Nat, len : Nat \ {0}]) /\ FitsWindow
         /\ \A k \in 1 .. Len(data') : data'[k].pos + data'[k].len <= tp.snd_max
<1>1. data \in Seq(Seg) /\ tp \in Tcpcb /\ data # <<>> /\ data' = Tail(data)
  BY DEF InductiveInv, TypeOK, Seg, ReadSegment
<1>2. /\ seg = data[1] /\ 1 \in 1 .. Len(data) /\ seg \in Seg
      /\ data' \in Seq(Seg) /\ Len(data') = Len(data) - 1
      /\ \A k \in 1 .. Len(data') : data'[k] = data[k + 1] /\ k + 1 \in 1 .. Len(data)
  BY <1>1 DEF seg
<1>3. /\ seg.pos + seg.len <= tp.snd_max
      /\ \A k \in 1 .. Len(data') : data'[k].pos + data'[k].len <= tp.snd_max
  BY <1>2 DEF InductiveInv, Bounded
<1>4. FitsWindow
  <2>1. Len(data) + 1 .. Len(data') = {}
    BY <1>1, <1>2
  <2> QED
    BY <2>1 DEF FitsWindow
<1> QED
  BY <1>1, <1>2, <1>3, <1>4, Nats DEF Seg

\* What reading a segment does to the counters.
LEMMA SeeFacts ==
  ASSUME InductiveInv,
         NEW sm \in [hole_end : Nat, retransmits : Nat, dup_acks_sent : Nat,
                     ack_send_failures : Nat, timeouts : Nat, left : Nat],
         SeeData(sm)
  PROVE  /\ max_end' \in Nat
         /\ sum' \in [hole_end : Nat, retransmits : Nat, dup_acks_sent : Nat,
                      ack_send_failures : Nat, timeouts : Nat, left : Nat]
         /\ UNCHANGED <<scenario, round, recv, wrote, tp, clock>>
<1>1. seg.pos \in Nat /\ seg.len \in Nat
  BY ReadFacts DEF SeeData
<1>2. max_end' \in Nat
  <2>1. max_end \in Nat /\ max_end' = Greater(max_end, seg.pos + seg.len)
    BY DEF SeeData, InductiveInv, TypeOK
  <2> QED
    BY <1>1, <2>1 DEF Greater
<1>3. sum' \in {[sm EXCEPT !.retransmits = sm.retransmits + 1],
               [sm EXCEPT !.retransmits = sm.retransmits]}
  BY DEF SeeData
<1>4. sm.retransmits + 1 \in Nat /\ sm.retransmits \in Nat
  OBVIOUS
<1> QED
  BY <1>2, <1>3, <1>4 DEF SeeData

\* The policy takes a segment.
LEMMA DropStep ==
  ASSUME InductiveInv, PeerDrop
  PROVE  InductiveInv' /\ FitsWindow
<1> DEFINE he == IF HoleOpen THEN sum.hole_end ELSE seg.pos + seg.len
           sm == [sum EXCEPT !.hole_end = he]
<1>1. ReadSegment /\ SeeData(sm) /\ UNCHANGED <<acks, got, frontier, spent>>
  BY DEF PeerDrop, SeeData
<1>2. /\ seg.pos \in Nat /\ seg.len \in Nat
      /\ data' \in Seq([pos : Nat, len : Nat \ {0}]) /\ FitsWindow
      /\ \A k \in 1 .. Len(data') : data'[k].pos + data'[k].len <= tp.snd_max
  BY <1>1, ReadFacts
<1>3. he \in Nat
  <2>1. sum.hole_end \in Nat
    BY DEF InductiveInv, TypeOK
  <2> QED
    BY <1>2, <2>1
<1> HIDE DEF he
<1>4. sm \in [hole_end : Nat, retransmits : Nat, dup_acks_sent : Nat, ack_send_failures : Nat,
              timeouts : Nat, left : Nat]
  BY <1>3 DEF InductiveInv, TypeOK
<1> HIDE DEF sm
<1>5. /\ max_end' \in Nat
      /\ sum' \in [hole_end : Nat, retransmits : Nat, dup_acks_sent : Nat,
                   ack_send_failures : Nat, timeouts : Nat, left : Nat]
      /\ UNCHANGED <<scenario, round, recv, wrote, tp, clock>>
  BY <1>1, <1>4, SeeFacts
<1>6. rules' \in Seq(DropRule)
  BY <1>2, ChargedType DEF PeerDrop, InductiveInv, TypeOK
<1>7. drops' \in Seq(Nat)
  BY DEF PeerDrop, InductiveInv, TypeOK
<1>8. TypeOK'
  BY <1>1, <1>2, <1>5, <1>6, <1>7 DEF InductiveInv, TypeOK
<1>9. SenderOrder' /\ TimerGuardsData' /\ Bounded'
  BY <1>1, <1>2, <1>5 DEF InductiveInv, SenderOrder, TimerGuardsData, Bounded
<1> QED
  BY <1>2, <1>8, <1>9 DEF InductiveInv

\* The peer accepts a segment: the frontier advances over what it has, and the
\* new ACK is not below the ones before it.
LEMMA AcceptStep ==
  ASSUME InductiveInv, NEW fails \in BOOLEAN, PeerAccept(fails)
  PROVE  InductiveInv' /\ FitsWindow
<1> DEFINE SumType == [hole_end : Nat, retransmits : Nat, dup_acks_sent : Nat,
                       ack_send_failures : Nat, timeouts : Nat, left : Nat]
<1>1. /\ ReadSegment /\ got' = got \cup Bytes(seg) /\ frontier' = NewFrontier
      /\ UNCHANGED <<rules, drops>>
  BY DEF PeerAccept, SeeData
<1>2. /\ seg.pos \in Nat /\ seg.len \in Nat
      /\ seg.pos + seg.len <= tp.snd_max /\ tp.snd_max \in Nat
      /\ data' \in Seq([pos : Nat, len : Nat \ {0}]) /\ FitsWindow
      /\ \A k \in 1 .. Len(data') : data'[k].pos + data'[k].len <= tp.snd_max
  BY <1>1, ReadFacts
<1>3. got' \subseteq Nat /\ \A p \in got' : p < tp.snd_max
  <2>1. got \subseteq Nat /\ \A p \in got : p < tp.snd_max
    BY DEF InductiveInv, TypeOK, Bounded
  <2>2. ASSUME NEW p \in Bytes(seg)
        PROVE  p \in Nat /\ p < tp.snd_max
    BY <1>2 DEF Bytes
  <2> QED
    BY <1>1, <2>1, <2>2
<1>4. frontier' \in Nat /\ frontier <= frontier' /\ frontier' <= tp.snd_max
  <2>1. frontier \in Nat /\ wrote \in Nat /\ frontier <= tp.snd_max /\ tp.snd_max <= wrote
    BY DEF InductiveInv, TypeOK, SenderOrder
  <2>2. \E x \in frontier .. wrote : x \notin got' /\ frontier .. x - 1 \subseteq got'
    BY <1>2, <1>3, <2>1, FrontierExists
  <2>3. /\ frontier' \in frontier .. wrote
        /\ frontier' \notin got' /\ frontier .. frontier' - 1 \subseteq got'
    BY <1>1, <2>2, Zenon DEF NewFrontier
  <2>4. frontier' \in Nat /\ frontier <= frontier'
    BY <2>1, <2>3
  <2>5. frontier' <= tp.snd_max
    <3>1. SUFFICES ASSUME frontier' > tp.snd_max PROVE FALSE
      BY <1>2, <2>4
    <3>2. tp.snd_max \in frontier .. frontier' - 1
      BY <3>1, <1>2, <2>1, <2>4
    <3>3. tp.snd_max \in got'
      BY <3>2, <2>3
    <3> QED
      BY <3>3, <1>2, <1>3
  <2> QED
    BY <2>4, <2>5
<1>5. /\ \E sm \in SumType : SeeData(sm)
      /\ acks' \in {acks, Append(acks, frontier')}
      /\ spent' \in [fail : Nat, late : Nat, expired : Nat]
  <2> DEFINE f == sum.ack_send_failures + 1
             d == IF frontier' = frontier THEN sum.dup_acks_sent + 1 ELSE sum.dup_acks_sent
             sf == spent.fail + 1
  <2>1. /\ sum \in SumType /\ spent \in [fail : Nat, late : Nat, expired : Nat]
    BY DEF InductiveInv, TypeOK
  <2>2. f \in Nat /\ d \in Nat /\ sf \in Nat
    BY <2>1
  <2>3. \/ /\ spent' = [spent EXCEPT !.fail = sf] /\ acks' = acks
           /\ SeeData([sum EXCEPT !.ack_send_failures = f])
        \/ /\ spent' = spent /\ acks' = Append(acks, frontier')
           /\ SeeData([sum EXCEPT !.dup_acks_sent = d])
    BY DEF PeerAccept
  <2> HIDE DEF f, d, sf
  <2>4. /\ [sum EXCEPT !.ack_send_failures = f] \in SumType
        /\ [sum EXCEPT !.dup_acks_sent = d] \in SumType
        /\ [spent EXCEPT !.fail = sf] \in [fail : Nat, late : Nat, expired : Nat]
    BY <2>1, <2>2
  <2> HIDE DEF SumType
  <2> QED
    BY <2>1, <2>3, <2>4
<1>6. max_end' \in Nat /\ sum' \in SumType /\ UNCHANGED <<scenario, round, recv, wrote, tp, clock>>
  BY <1>5, SeeFacts
<1>7. acks \in Seq(Nat) /\ frontier \in Nat
  BY DEF InductiveInv, TypeOK
<1>8. acks' \in Seq(Nat)
  <2>1. Append(acks, frontier') \in Seq(Nat)
    BY <1>4, <1>7
  <2> QED
    BY <1>5, <1>7, <2>1
<1>9. \A k \in 1 .. Len(acks) : acks[k] \in Nat /\ tp.snd_una <= acks[k] /\ acks[k] <= frontier
  BY <1>7 DEF InductiveInv, SenderOrder
<1>10. tp.snd_una <= frontier /\ tp.snd_una \in Nat
  BY Nats DEF InductiveInv, SenderOrder, TypeOK
<1>11. ASSUME NEW k \in 1 .. Len(acks')
       PROVE  /\ tp.snd_una <= acks'[k] /\ acks'[k] <= frontier' /\ acks'[k] \in Nat
              /\ \/ k \in 1 .. Len(acks) /\ acks'[k] = acks[k]
                 \/ k = Len(acks) + 1 /\ Len(acks') = Len(acks) + 1 /\ acks'[k] = frontier'
  <2>1. CASE acks' = acks
    BY <2>1, <1>4, <1>7, <1>9, <1>10
  <2>2. CASE acks' = Append(acks, frontier')
    <3>1. \/ k \in 1 .. Len(acks) /\ acks'[k] = acks[k]
          \/ k = Len(acks) + 1 /\ Len(acks') = Len(acks) + 1 /\ acks'[k] = frontier'
      BY <2>2, <1>4, <1>7
    <3> QED
      BY <3>1, <1>4, <1>7, <1>9, <1>10
  <2> QED
    BY <1>5, <2>1, <2>2
<1>12. ASSUME NEW j \in 1 .. Len(acks'), NEW k \in 1 .. Len(acks'), j <= k
       PROVE  acks'[j] <= acks'[k]
  <2>1. CASE k \in 1 .. Len(acks)
    <3>1. j \in 1 .. Len(acks) /\ acks'[j] = acks[j] /\ acks'[k] = acks[k]
      BY <1>7, <1>11, <1>12, <2>1
    <3> QED
      BY <3>1, <2>1, <1>12 DEF InductiveInv, Bounded
  <2>2. CASE acks'[k] = frontier'
    BY <2>2, <1>11
  <2> QED
    BY <1>11, <2>1, <2>2
<1>13. SenderOrder'
  BY <1>4, <1>6, <1>7, <1>10, <1>11 DEF InductiveInv, SenderOrder
<1>14. TimerGuardsData' /\ Bounded'
  BY <1>2, <1>3, <1>6, <1>12 DEF InductiveInv, TimerGuardsData, Bounded
<1>15. TypeOK'
  BY <1>1, <1>2, <1>3, <1>4, <1>5, <1>6, <1>8 DEF InductiveInv, TypeOK
<1> QED
  BY <1>2, <1>13, <1>14, <1>15 DEF InductiveInv

\* receive() returns: nothing but its state and the budget changes.
LEMMA ReturnStep ==
  ASSUME InductiveInv, Return \/ ReturnExpired
  PROVE  /\ InductiveInv' /\ FitsWindow
         /\ UNCHANGED <<scenario, round, wrote, tp, data, acks, got, frontier, rules, clock, drops>>
         /\ spent'.fail = spent.fail
<1>1. /\ UNCHANGED <<scenario, round, wrote, tp, data, acks, got, frontier, rules, max_end>>
      /\ UNCHANGED <<sum, clock, drops>>
      /\ recv' \in {"completed", "reset", "expired"}
      /\ spent' \in {spent, [spent EXCEPT !.expired = spent.expired + 1]}
  BY DEF Return, ReturnExpired, peerVars
<1>2. spent \in [fail : Nat, late : Nat, expired : Nat]
  BY DEF InductiveInv, TypeOK
<1>3. spent' \in [fail : Nat, late : Nat, expired : Nat] /\ spent'.fail = spent.fail
  <2>1. spent.expired + 1 \in Nat
    BY <1>2
  <2> QED
    BY <1>1, <1>2, <2>1
<1>4. InductiveInv'
  BY <1>1, <1>3 DEF InductiveInv, TypeOK, SenderOrder, TimerGuardsData, Bounded
<1>5. FitsWindow
  <2>1. data \in Seq([pos : Nat, len : Nat \ {0}])
    BY DEF InductiveInv, TypeOK
  <2> QED
    BY <1>1, <2>1 DEF FitsWindow
<1> QED
  BY <1>1, <1>3, <1>4, <1>5

\* One step of any actor.
LEMMA NextStep ==
  ASSUME InductiveInv, [Next]_vars
  PROVE  InductiveInv' /\ [FitsWindow]_vars
<1>1. CASE UNCHANGED vars
  BY <1>1 DEF vars, peerVars, InductiveInv, TypeOK, SenderOrder, TimerGuardsData, Bounded
<1>2. CASE Next
  BY <1>2, WriteStep, DropStep, AcceptStep, ReturnStep, AckStep, TimeoutStep DEF Next
<1> QED
  BY <1>1, <1>2

\* The handlers of XnuSender, in every interleaving with the peer and for every
\* window, segment size and loss policy, keep the inductive invariant.
THEOREM Invariance == Spec => []InductiveInv
<1>1. Init => InductiveInv
  BY InitInv
<1>2. InductiveInv /\ [Next]_vars => InductiveInv'
  BY NextStep
<1> QED
  BY <1>1, <1>2, PTL DEF Spec

\* The send pointers keep their order, and the kernel never takes for delivered
\* what the peer does not have: an ACK in flight is between snd_una and the
\* frontier, whatever was lost, resent or left unacknowledged.
THEOREM PointersInOrder == Spec => []SenderOrder
<1>1. InductiveInv => SenderOrder
  BY DEF InductiveInv
<1> QED
  BY <1>1, Invariance, PTL

\* Fast retransmit and a partial ACK switch the retransmission timer off and
\* count on tcp_output() to set it again: it always does, because a window
\* wide enough for the first unacknowledged byte is open at that moment.
THEOREM DataIsTimed == Spec => []TimerGuardsData
<1>1. InductiveInv => TimerGuardsData
  BY DEF InductiveInv
<1> QED
  BY <1>1, Invariance, PTL

\* No handler sends what is acknowledged, what was not written or what the
\* peer's window does not take: the sender that Peer assumes.
THEOREM SendsWithinWindow == Spec => WindowSender
<1>1. InductiveInv /\ [Next]_vars => [FitsWindow]_vars
  BY NextStep
<1> QED
  BY <1>1, Invariance, PTL DEF Spec, WindowSender

-----------------------------------------------------------------------------
(* The ladder of exp_rto *)

\* Segments that run from a to b without a gap.
Flow(q, a, b) ==
    /\ q \in Seq(Seg) /\ a <= b
    /\ q = <<>> => a = b
    /\ q # <<>> => q[1].pos = a /\ q[Len(q)].pos + q[Len(q)].len = b
    /\ \A k \in 1 .. Len(q) : q[k].pos + q[k].len <= b
    /\ \A k \in 1 .. Len(q) - 1 : q[k + 1].pos = q[k].pos + q[k].len

\* ACKs that go up from a, which is acknowledged, to b.
AckFlow(q, a, b) ==
    /\ q \in Seq(Nat) /\ a <= b
    /\ q = <<>> => a = b
    /\ q # <<>> => a < q[1] /\ q[Len(q)] = b
    /\ \A k \in 1 .. Len(q) : q[k] <= b
    /\ \A k \in 1 .. Len(q) - 1 : q[k] < q[k + 1]

\* Two flows that meet are one.
LEMMA FlowJoin ==
  ASSUME NEW a \in Nat, NEW b \in Nat, NEW c \in Nat, NEW p, NEW q, Flow(p, a, b), Flow(q, b, c)
  PROVE  Flow(p \o q, a, c)
<1> DEFINE s == p \o q
<1>1. /\ p \in Seq(Seg) /\ q \in Seq(Seg) /\ a <= b /\ b <= c
  BY DEF Flow
<1>2. PICK m \in Nat : m = Len(p)
  BY <1>1
<1>3. PICK n \in Nat : n = Len(q)
  BY <1>1
<1>4. /\ s \in Seq(Seg) /\ Len(s) = m + n
      /\ \A k \in 1 .. m : s[k] = p[k]
      /\ \A k \in 1 .. n : s[m + k] = q[k]
      /\ \A k \in 1 .. m : p[k].pos \in Nat /\ p[k].len \in Nat
      /\ \A k \in 1 .. n : q[k].pos \in Nat /\ q[k].len \in Nat
      /\ p = <<>> <=> m = 0
      /\ q = <<>> <=> n = 0
      /\ s = <<>> <=> m + n = 0
  <2>1. /\ s \in Seq(Seg) /\ Len(s) = m + n
        /\ p = <<>> <=> m = 0
        /\ q = <<>> <=> n = 0
    BY <1>1, <1>2, <1>3
  <2>2. /\ \A k \in 1 .. m : s[k] = p[k]
        /\ \A k \in 1 .. n : s[m + k] = q[k]
    BY <1>1, <1>2, <1>3
  <2>3. /\ \A k \in 1 .. m : p[k] \in Seg
        /\ \A k \in 1 .. n : q[k] \in Seg
    BY <1>1, <1>2, <1>3
  <2>4. s = <<>> <=> m + n = 0
    <3> HIDE DEF s
    <3> QED
      BY <2>1
  <2> HIDE DEF s
  <2> QED
    BY <2>1, <2>2, <2>3, <2>4 DEF Seg
<1>5. /\ m = 0 => a = b
      /\ m # 0 => p[1].pos = a /\ p[m].pos + p[m].len = b
      /\ \A k \in 1 .. m : p[k].pos + p[k].len <= b
      /\ \A k \in 1 .. m - 1 : p[k + 1].pos = p[k].pos + p[k].len
  BY <1>2, <1>4 DEF Flow
<1>6. /\ n = 0 => b = c
      /\ n # 0 => q[1].pos = b /\ q[n].pos + q[n].len = c
      /\ \A k \in 1 .. n : q[k].pos + q[k].len <= c
      /\ \A k \in 1 .. n - 1 : q[k + 1].pos = q[k].pos + q[k].len
  BY <1>3, <1>4 DEF Flow
<1> HIDE DEF s
<1>7. ASSUME NEW k \in 1 .. m + n
      PROVE  s[k].pos + s[k].len <= c
  <2>1. CASE k <= m
    <3>1. k \in 1 .. m
      BY <2>1
    <3>2. s[k] = p[k] /\ p[k].pos + p[k].len <= b /\ p[k].pos \in Nat /\ p[k].len \in Nat
      BY <3>1, <1>4, <1>5
    <3> QED
      BY <3>2, <1>1
  <2>2. CASE k > m
    <3>1. k - m \in 1 .. n /\ k = m + (k - m)
      BY <2>2
    <3> QED
      BY <3>1, <1>4, <1>6
  <2> QED
    BY <2>1, <2>2
<1>8. ASSUME NEW k \in 1 .. m + n - 1
      PROVE  s[k + 1].pos = s[k].pos + s[k].len
  <2>1. CASE k < m
    <3>1. k \in 1 .. m - 1 /\ k \in 1 .. m /\ k + 1 \in 1 .. m
      BY <2>1
    <3> QED
      BY <3>1, <1>4, <1>5
  <2>2. CASE k = m
    <3>1. n # 0 /\ m # 0 /\ 1 \in 1 .. n /\ m \in 1 .. m
      BY <2>2
    <3>2. s[m + 1] = q[1] /\ s[m] = p[m]
      BY <3>1, <1>4
    <3> QED
      BY <2>2, <3>1, <3>2, <1>5, <1>6
  <2>3. CASE k > m
    <3>1. PICK j \in 1 .. n - 1 : k = m + j
      <4>1. k - m \in 1 .. n - 1 /\ k = m + (k - m)
        BY <2>3
      <4> QED
        BY <4>1
    <3>2. s[m + j] = q[j] /\ s[m + (j + 1)] = q[j + 1] /\ k + 1 = m + (j + 1)
      BY <3>1, <1>4
    <3> QED
      BY <3>1, <3>2, <1>6
  <2> QED
    BY <2>1, <2>2, <2>3
<1>9. s # <<>> => s[1].pos = a /\ s[Len(s)].pos + s[Len(s)].len = c
  <2>1. CASE m = 0 /\ n # 0
    <3>1. s[1] = q[1] /\ s[Len(s)] = q[n]
      BY <2>1, <1>4
    <3> QED
      BY <2>1, <3>1, <1>5, <1>6
  <2>2. CASE m # 0 /\ n = 0
    <3>1. s[1] = p[1] /\ s[Len(s)] = p[m]
      BY <2>2, <1>4
    <3> QED
      BY <2>2, <3>1, <1>5, <1>6
  <2>3. CASE m # 0 /\ n # 0
    <3>1. s[1] = p[1] /\ s[Len(s)] = q[n]
      BY <2>3, <1>4
    <3> QED
      BY <2>3, <3>1, <1>5, <1>6
  <2> QED
    BY <2>1, <2>2, <2>3, <1>4
<1>10. s = <<>> => a = c
  BY <1>4, <1>5, <1>6
<1>11. a <= c
  BY <1>1
<1>12. Flow(s, a, c)
  <2>1. s \in Seq(Seg) /\ Len(s) = m + n
    BY <1>4
  <2> QED
    BY <2>1, <1>7, <1>8, <1>9, <1>10, <1>11 DEF Flow
<1> QED
  BY <1>12 DEF s

\* A flow without its first segment.
LEMMA FlowTail ==
  ASSUME NEW a \in Nat, NEW b \in Nat, NEW q, Flow(q, a, b), q # <<>>
  PROVE  /\ Head(q) = q[1] /\ Head(q) \in Seg /\ Head(q).pos = a
         /\ Flow(Tail(q), a + Head(q).len, b) /\ Len(Tail(q)) = Len(q) - 1
         /\ \A k \in 1 .. Len(Tail(q)) : k + 1 \in 1 .. Len(q) /\ Tail(q)[k] = q[k + 1]
<1> DEFINE s == Tail(q)
           l == Head(q).len
<1>1. q \in Seq(Seg)
  BY DEF Flow
<1>2. PICK n \in Nat : n = Len(q)
  BY <1>1
<1>3. /\ n > 0 /\ s \in Seq(Seg) /\ Len(s) = n - 1 /\ Head(q) = q[1] /\ q[1] \in Seg
      /\ \A k \in 1 .. n - 1 : s[k] = q[k + 1]
      /\ s = <<>> <=> n = 1
  <2>1. n > 0 /\ s \in Seq(Seg) /\ Len(s) = n - 1 /\ Head(q) = q[1] /\ q[1] \in Seg
    BY <1>1, <1>2
  <2>2. \A k \in 1 .. n - 1 : s[k] = q[k + 1]
    BY <1>1, <1>2
  <2> HIDE DEF s
  <2> QED
    BY <2>1, <2>2
<1>4. /\ q[1].pos = a /\ q[n].pos + q[n].len = b
      /\ \A k \in 1 .. n : q[k].pos + q[k].len <= b
      /\ \A k \in 1 .. n - 1 : q[k + 1].pos = q[k].pos + q[k].len
  BY <1>2 DEF Flow
<1>5. l = q[1].len /\ l \in Nat /\ a + l <= b
  <2>1. l = q[1].len /\ l \in Nat
    BY <1>3 DEF Seg
  <2>2. 1 \in 1 .. n
    BY <1>3
  <2>3. q[1].pos + q[1].len <= b
    BY <2>2, <1>4
  <2> QED
    BY <2>1, <2>3, <1>4
<1>6. s = <<>> => a + l = b
  BY <1>3, <1>4, <1>5
<1>7. s # <<>> => s[1].pos = a + l /\ s[Len(s)].pos + s[Len(s)].len = b
  <2>1. SUFFICES ASSUME n # 1
                 PROVE  s[1].pos = a + l /\ s[n - 1].pos + s[n - 1].len = b
    BY <1>3
  <2>2. 1 \in 1 .. n - 1 /\ n - 1 \in 1 .. n - 1 /\ n - 1 + 1 = n
    BY <2>1, <1>3
  <2>3. s[1] = q[2] /\ s[n - 1] = q[n] /\ q[2].pos = q[1].pos + q[1].len
    BY <2>2, <1>3, <1>4
  <2> QED
    BY <2>3, <1>4, <1>5
<1>8. \A k \in 1 .. n - 1 : k + 1 \in 1 .. n /\ s[k].pos + s[k].len <= b
  BY <1>3, <1>4
<1>9. \A k \in 1 .. n - 1 - 1 : s[k + 1].pos = s[k].pos + s[k].len
  <2>1. SUFFICES ASSUME NEW k \in 1 .. n - 1 - 1 PROVE s[k + 1].pos = s[k].pos + s[k].len
    OBVIOUS
  <2>2. k \in 1 .. n - 1 /\ k + 1 \in 1 .. n - 1
    OBVIOUS
  <2>3. s[k] = q[k + 1] /\ s[k + 1] = q[k + 1 + 1] /\ q[k + 1 + 1].pos = q[k + 1].pos + q[k + 1].len
    BY <2>2, <1>3, <1>4
  <2> QED
    BY <2>3
<1>10. Flow(s, a + l, b)
  <2> HIDE DEF s, l
  <2> QED
    BY <1>3, <1>5, <1>6, <1>7, <1>8, <1>9 DEF Flow
<1> QED
  BY <1>2, <1>3, <1>4, <1>10

\* The peer's next ACK continues the ones before.
LEMMA AckFlowAppend ==
  ASSUME NEW a \in Nat, NEW b \in Nat, NEW c \in Nat, b < c, NEW q, AckFlow(q, a, b)
  PROVE  AckFlow(Append(q, c), a, c)
<1> DEFINE s == Append(q, c)
<1>1. q \in Seq(Nat) /\ a <= b
  BY DEF AckFlow
<1>2. PICK n \in Nat : n = Len(q)
  BY <1>1
<1>3. /\ s \in Seq(Nat) /\ Len(s) = n + 1 /\ s # <<>> /\ s[n + 1] = c
      /\ \A k \in 1 .. n : s[k] = q[k] /\ q[k] \in Nat
      /\ q = <<>> <=> n = 0
  BY <1>1, <1>2
<1>4. /\ n = 0 => a = b
      /\ n # 0 => a < q[1] /\ q[n] = b
      /\ \A k \in 1 .. n : q[k] <= b
      /\ \A k \in 1 .. n - 1 : q[k] < q[k + 1]
  BY <1>2, <1>3 DEF AckFlow
<1> HIDE DEF s
<1>5. a < s[1] /\ s[Len(s)] = c
  <2>1. CASE n = 0
    BY <2>1, <1>3, <1>4
  <2>2. CASE n # 0
    BY <2>2, <1>3, <1>4
  <2> QED
    BY <2>1, <2>2
<1>6. \A k \in 1 .. n + 1 : s[k] <= c
  <2>1. SUFFICES ASSUME NEW k \in 1 .. n + 1 PROVE s[k] <= c
    OBVIOUS
  <2>2. CASE k \in 1 .. n
    <3>1. s[k] = q[k] /\ q[k] \in Nat /\ q[k] <= b
      BY <2>2, <1>3, <1>4
    <3> QED
      BY <3>1
  <2>3. CASE k = n + 1
    BY <2>3, <1>3
  <2> QED
    BY <2>2, <2>3
<1>7. \A k \in 1 .. n + 1 - 1 : s[k] < s[k + 1]
  <2>1. SUFFICES ASSUME NEW k \in 1 .. n PROVE s[k] < s[k + 1]
    OBVIOUS
  <2>2. CASE k < n
    <3>1. k \in 1 .. n - 1 /\ k + 1 \in 1 .. n
      BY <2>2
    <3> QED
      BY <3>1, <1>3, <1>4
  <2>3. CASE k = n
    BY <2>3, <1>3, <1>4
  <2> QED
    BY <2>2, <2>3
<1> QED
  BY <1>1, <1>3, <1>5, <1>6, <1>7 DEF AckFlow, s

\* The oldest ACK taken in.
LEMMA AckFlowTail ==
  ASSUME NEW a \in Nat, NEW b \in Nat, NEW q, AckFlow(q, a, b), q # <<>>
  PROVE  /\ Head(q) \in Nat /\ a < Head(q) /\ Head(q) <= b
         /\ AckFlow(Tail(q), Head(q), b)
<1> DEFINE s == Tail(q)
           h == Head(q)
<1>1. q \in Seq(Nat)
  BY DEF AckFlow
<1>2. PICK n \in Nat : n = Len(q)
  BY <1>1
<1>3. /\ n > 0 /\ s \in Seq(Nat) /\ Len(s) = n - 1 /\ h = q[1] /\ h \in Nat
      /\ \A k \in 1 .. n - 1 : s[k] = q[k + 1]
      /\ s = <<>> <=> n = 1
  <2>1. n > 0 /\ s \in Seq(Nat) /\ Len(s) = n - 1 /\ h = q[1] /\ h \in Nat
    BY <1>1, <1>2
  <2>2. \A k \in 1 .. n - 1 : s[k] = q[k + 1]
    BY <1>1, <1>2
  <2> HIDE DEF s
  <2> QED
    BY <2>1, <2>2
<1>4. /\ a < q[1] /\ q[n] = b
      /\ \A k \in 1 .. n : q[k] <= b
      /\ \A k \in 1 .. n - 1 : q[k] < q[k + 1]
  BY <1>2 DEF AckFlow
<1> HIDE DEF s, h
<1>5. h <= b /\ (n = 1 => h = b)
  BY <1>3, <1>4
<1>6. s # <<>> => h < s[1] /\ s[Len(s)] = b
  <2>1. SUFFICES ASSUME n # 1 PROVE h < s[1] /\ s[n - 1] = b
    BY <1>3
  <2>2. 1 \in 1 .. n - 1 /\ n - 1 \in 1 .. n - 1 /\ n - 1 + 1 = n
    BY <2>1, <1>3
  <2>3. s[1] = q[2] /\ s[n - 1] = q[n] /\ q[1] < q[2]
    BY <2>2, <1>3, <1>4
  <2> QED
    BY <2>3, <1>3, <1>4
<1>7. \A k \in 1 .. n - 1 : s[k] <= b
  <2>1. SUFFICES ASSUME NEW k \in 1 .. n - 1 PROVE s[k] <= b
    OBVIOUS
  <2>2. k + 1 \in 1 .. n /\ s[k] = q[k + 1]
    BY <1>3
  <2> QED
    BY <2>2, <1>4
<1>8. \A k \in 1 .. n - 1 - 1 : s[k] < s[k + 1]
  <2>1. SUFFICES ASSUME NEW k \in 1 .. n - 1 - 1 PROVE s[k] < s[k + 1]
    OBVIOUS
  <2>2. k \in 1 .. n - 1 /\ k + 1 \in 1 .. n - 1
    OBVIOUS
  <2> QED
    BY <2>2, <1>3, <1>4
<1>9. AckFlow(s, h, b)
  BY <1>3, <1>5, <1>6, <1>7, <1>8 DEF AckFlow
<1> QED
  BY <1>3, <1>4, <1>5, <1>9 DEF s, h
\* u is t after an output of n units.
Sends(t, u, n) ==
    /\ u \in Tcpcb
    /\ u.snd_una = t.snd_una /\ u.snd_nxt = t.snd_nxt + n
    /\ u.snd_max = Greater(t.snd_max, t.snd_nxt + n)
    /\ u.t_pmtud_lastseg_size =
          IF n > 0 /\ t.t_pmtud_lastseg_size = 0 /\ t.snd_nxt = t.snd_una
          THEN Lesser(t.t_maxseg, n) ELSE t.t_pmtud_lastseg_size
    /\ u.rexmt = (t.rexmt \/ n > 0)
    /\ u.snd_cwnd = t.snd_cwnd /\ u.t_maxseg = t.t_maxseg /\ u.t_rxtshift = t.t_rxtshift
    /\ u.pmtud = t.pmtud /\ u.blackhole = t.blackhole
    /\ u.fastrecovery = t.fastrecovery /\ u.closed = t.closed

\* tcp_output() with nothing queued before.
LEMMA OutputIs ==
  ASSUME NEW w \in Nat, NEW t, TpOK(t, w), NEW r, r = tcp_output([tp |-> t, sent |-> <<>>], w)
  PROVE  /\ TxLen(t, w) \in Nat /\ t.snd_nxt + TxLen(t, w) <= w
         /\ Sends(t, r.tp, TxLen(t, w)) /\ r.sent = Segments(t, TxLen(t, w))
<1>1. PICK n : n = TxLen(t, w)
  OBVIOUS
<1>2. n \in Nat /\ t \in Tcpcb /\ t.snd_nxt + n <= w
  BY <1>1, TxLenFacts DEF TpOK
<1>3. /\ r.tp = [t EXCEPT
            !.snd_nxt = t.snd_nxt + n,
            !.snd_max = Greater(t.snd_max, t.snd_nxt + n),
            !.t_pmtud_lastseg_size =
                IF n > 0 /\ t.t_pmtud_lastseg_size = 0 /\ t.snd_nxt = t.snd_una
                THEN Lesser(t.t_maxseg, n) ELSE t.t_pmtud_lastseg_size,
            !.rexmt = (t.rexmt \/ n > 0)]
      /\ r.sent = <<>> \o Segments(t, n)
  BY <1>1 DEF tcp_output, AdvancedMax, Armed, HeadSegSize
<1>4. r.tp \in Tcpcb
  <2>1. SentOK(<<>>, t)
    BY DEF SentOK
  <2>2. Advances(t, r.tp, w)
    BY <2>1, <1>2, OutputFacts DEF TpOK
  <2> QED
    BY <2>2 DEF Advances
<1>5. Sends(t, r.tp, n)
  BY <1>2, <1>3, <1>4 DEF Sends, Tcpcb
<1>6. r.sent = Segments(t, n)
  <2>1. Segments(t, n) \in Seq(Seg)
    BY <1>2, SegmentsFacts
  <2> QED
    BY <2>1, <1>3
<1> QED
  BY <1>1, <1>2, <1>5, <1>6

\* A division rounded up.
LEMMA CeilIs ==
  ASSUME NEW n \in Nat, NEW m \in Nat \ {0}
  PROVE  \E c \in Nat : /\ c = (n + m - 1) \div m
                        /\ n = 0 => c = 0
                        /\ n > 0 => c > 0 /\ (c - 1) * m < n /\ n <= (c - 1) * m + m
                        /\ n > 0 /\ n <= m => c = 1
<1> DEFINE x == n + m - 1
<1>1. x \in Nat
  OBVIOUS
<1>2. PICK c \in Nat : c = x \div m
  BY <1>1
<1>3. c * m <= x /\ x < c * m + m
  BY <1>1, <1>2
<1>4. c * m \in Nat /\ (c - 1) * m = c * m - m
  OBVIOUS
<1>5. n = 0 => c = 0
  <2>1. SUFFICES ASSUME n = 0, c >= 1 PROVE FALSE
    OBVIOUS
  <2>2. c * m >= m
    BY <2>1
  <2> QED
    BY <2>1, <2>2, <1>3
<1>6. n > 0 => c > 0
  <2>1. c = 0 => c * m = 0
    OBVIOUS
  <2> QED
    BY <2>1, <1>3
<1>7. n > 0 /\ n <= m => c <= 1
  <2>1. SUFFICES ASSUME n <= m, c >= 2 PROVE FALSE
    OBVIOUS
  <2>2. c * m >= 2 * m
    BY <2>1
  <2> QED
    BY <2>1, <2>2, <1>3
<1>8. (c - 1) * m < n /\ n <= (c - 1) * m + m
  BY <1>3, <1>4
<1> QED
  BY <1>2, <1>5, <1>6, <1>7, <1>8

\* The segments of one call are a flow; none is longer than the segment size,
\* and they start at multiples of it from snd_nxt.
LEMMA SegmentsFlow ==
  ASSUME NEW t \in Tcpcb, NEW n \in Nat
  PROVE  /\ Flow(Segments(t, n), t.snd_nxt, t.snd_nxt + n)
         /\ \A k \in 1 .. Len(Segments(t, n)) :
               /\ Segments(t, n)[k].len <= t.t_maxseg
               /\ Segments(t, n)[k].pos = t.snd_nxt + (k - 1) * t.t_maxseg
         /\ n = 0 => Segments(t, n) = <<>>
         /\ n > 0 /\ n <= t.t_maxseg => Segments(t, n) = <<[pos |-> t.snd_nxt, len |-> n]>>
<1>1. t.snd_nxt \in Nat /\ t.t_maxseg \in Nat \ {0}
  BY Nats
<1>2. PICK m \in Nat \ {0} : m = t.t_maxseg
  BY <1>1
<1>3. PICK a \in Nat : a = t.snd_nxt
  BY <1>1
<1>4. PICK c \in Nat : /\ c = (n + m - 1) \div m
                       /\ n = 0 => c = 0
                       /\ n > 0 => c > 0 /\ (c - 1) * m < n /\ n <= (c - 1) * m + m
                       /\ n > 0 /\ n <= m => c = 1
  BY CeilIs
<1>5. PICK S : S = Segments(t, n)
  OBVIOUS
<1>6. S = [k \in 1 .. c |-> [pos |-> a + (k - 1) * m, len |-> Lesser(m, n - (k - 1) * m)]]
  BY <1>2, <1>3, <1>4, <1>5 DEF Segments
<1>7. /\ S \in Seq(Seg) /\ \A k \in 1 .. Len(S) : S[k].pos + S[k].len <= a + n
  BY <1>3, <1>5, SegmentsFacts
<1>8. Len(S) = c
  BY <1>6
<1>9. \A k \in 1 .. c : S[k].pos = a + (k - 1) * m /\ S[k].len = Lesser(m, n - (k - 1) * m)
  BY <1>6
<1>10. \A k \in 1 .. c : S[k].len <= m /\ S[k].len \in Nat
  <2>1. SUFFICES ASSUME NEW k \in 1 .. c PROVE S[k].len <= m /\ S[k].len \in Nat
    OBVIOUS
  <2>2. S[k] \in Seg
    BY <1>7, <1>8
  <2>5. S[k].len \in Nat
    BY <2>2 DEF Seg
  <2>3. PICK x \in Int : x = n - (k - 1) * m
    OBVIOUS
  <2>4. S[k].len = Lesser(m, x)
    BY <2>3, <1>9
  <2> QED
    BY <2>4, <2>5 DEF Lesser
<1>11. S = <<>> <=> c = 0
  BY <1>7, <1>8
<1>12. ASSUME NEW k \in 1 .. c - 1
       PROVE  S[k + 1].pos = S[k].pos + S[k].len
  <2>1. k \in 1 .. c /\ k + 1 \in 1 .. c
    OBVIOUS
  <2>2. S[k + 1].pos = a + (k + 1 - 1) * m /\ S[k].pos = a + (k - 1) * m
        /\ S[k].len = Lesser(m, n - (k - 1) * m)
    BY <2>1, <1>9
  <2>3. n > 0 /\ (c - 1) * m < n
    BY <1>4, <2>1
  <2>4. k * m <= (c - 1) * m /\ (k + 1 - 1) * m = k * m /\ (k - 1) * m = k * m - m /\ k * m \in Nat
        /\ (c - 1) * m \in Int
    BY <2>1
  <2>5. m <= n - (k - 1) * m
    BY <2>3, <2>4
  <2> QED
    BY <2>2, <2>4, <2>5 DEF Lesser
<1>13. S # <<>> => S[1].pos = a /\ S[Len(S)].pos + S[Len(S)].len = a + n
  <2>1. SUFFICES ASSUME c > 0 PROVE S[1].pos = a /\ S[c].pos + S[c].len = a + n
    BY <1>8, <1>11
  <2>2. n > 0 /\ n <= (c - 1) * m + m
    BY <2>1, <1>4
  <2>3. S[1].pos = a + (1 - 1) * m /\ S[c].pos = a + (c - 1) * m
        /\ S[c].len = Lesser(m, n - (c - 1) * m)
    BY <2>1, <1>9
  <2>4. PICK x \in Int : x = (c - 1) * m
    OBVIOUS
  <2>5. n - x <= m /\ (1 - 1) * m = 0
    BY <2>2, <2>4
  <2>6. Lesser(m, n - x) = n - x
    BY <2>4, <2>5 DEF Lesser
  <2> QED
    BY <2>3, <2>4, <2>5, <2>6
<1>14. S = <<>> => a = a + n
  BY <1>4, <1>11
<1>15. Flow(S, a, a + n)
  BY <1>7, <1>8, <1>12, <1>13, <1>14 DEF Flow
<1>16. n > 0 /\ n <= m => S = <<[pos |-> a, len |-> n]>>
  <2>1. SUFFICES ASSUME n > 0, n <= m, c = 1 PROVE S = <<[pos |-> a, len |-> n]>>
    BY <1>4
  <2>2. \A k \in 1 .. 1 : [pos |-> a + (k - 1) * m, len |-> Lesser(m, n - (k - 1) * m)]
                          = [pos |-> a, len |-> n]
    <3>1. a + (1 - 1) * m = a /\ n - (1 - 1) * m = n
      OBVIOUS
    <3>2. Lesser(m, n) = n
      BY <2>1 DEF Lesser
    <3> QED
      BY <3>1, <3>2
  <2>3. S = [k \in 1 .. 1 |-> [pos |-> a, len |-> n]]
    BY <2>1, <2>2, <1>6
  <2> QED
    BY <2>3
<1> QED
  BY <1>2, <1>3, <1>4, <1>5, <1>8, <1>9, <1>10, <1>11, <1>15, <1>16

\* Nothing is sent when snd_nxt is at the end of the buffer.
LEMMA TxNothing ==
  ASSUME NEW w \in Nat, NEW t, TpOK(t, w), t.snd_nxt = w
  PROVE  TxLen(t, w) = 0
<1>1. t \in Tcpcb /\ t.snd_una <= t.snd_nxt
  BY DEF TpOK
<1>2. OpenLen(t, w) <= 0
  BY <1>1, Nats, SenderAssumption DEF OpenLen, Lesser
<1> QED
  BY <1>2 DEF TxLen

\* A resend that the window takes whole goes to the end of the buffer.
LEMMA TxWhole ==
  ASSUME NEW w \in Nat, NEW t, TpOK(t, w), t.snd_nxt = t.snd_una, t.snd_una < w,
         w - t.snd_una <= t.snd_cwnd, w - t.snd_una <= Window
  PROVE  TxLen(t, w) = w - t.snd_una
<1>1. t \in Tcpcb
  BY DEF TpOK
<1>2. OpenLen(t, w) = w - t.snd_una
  BY <1>1, Nats, SenderAssumption DEF OpenLen, Lesser
<1>3. t.snd_una \in Nat
  BY <1>1, Nats
<1>4. w - t.snd_una > 0 /\ t.snd_nxt + (w - t.snd_una) = w
  BY <1>3
<1> QED
  BY <1>2, <1>3, <1>4 DEF TxLen

\* A resend through a window of one segment is one segment.
LEMMA TxPiece ==
  ASSUME NEW w \in Nat, NEW t, TpOK(t, w), t.snd_nxt = t.snd_una, t.snd_max = w,
         t.snd_cwnd = t.t_maxseg, t.t_maxseg < w - t.snd_una
  PROVE  TxLen(t, w) = t.t_maxseg
<1>1. t \in Tcpcb
  BY DEF TpOK
<1>2. PICK m \in Nat \ {0} : m = t.t_maxseg /\ m <= Window
  BY <1>1, Nats, SenderAssumption
<1>3. t.snd_una \in Nat /\ m < w - t.snd_una
  BY <1>1, <1>2, Nats
<1>4. OpenLen(t, w) = m
  <2>1. m <= w - t.snd_una /\ Window \in Nat
    BY <1>3, SenderAssumption
  <2>2. m <= Lesser(w - t.snd_una, Window) /\ Lesser(w - t.snd_una, Window) \in Int
    BY <1>2, <1>3, <2>1 DEF Lesser
  <2>3. Lesser(Lesser(w - t.snd_una, Window), t.snd_cwnd) = m
    <3>1. t.snd_cwnd = m
      BY <1>2
    <3> QED
      BY <2>2, <3>1 DEF Lesser
  <2> QED
    BY <1>3, <2>3 DEF OpenLen
<1>5. m % m = 0
  <2>1. PICK q \in Nat : m \div m = q
    BY SMT
  <2>2. PICK x \in Nat : m % m = x /\ x < m
    BY ModFacts
  <2>3. m = q * m + x
    BY <2>1, <2>2
  <2>4. q >= 1
    <3>1. q = 0 => q * m = 0
      OBVIOUS
    <3> QED
      BY <2>2, <2>3, <3>1
  <2>5. q * m >= m
    BY <2>4
  <2> QED
    BY <2>2, <2>3, <2>5
<1>6. t.snd_nxt + (m - 0) < t.snd_max
  BY <1>3
<1> QED
  BY <1>2, <1>4, <1>5, <1>6 DEF TxLen

\* Multiples of the segment size on both sides of the end are the same.
LEMMA SameMultiple ==
  ASSUME NEW m \in Nat \ {0}, NEW i \in Nat, NEW j \in Nat, NEW w \in Nat,
         i * m < w, w <= i * m + m, j * m < w, w <= j * m + m
  PROVE  i = j
<1>1. i * m + m = (i + 1) * m /\ j * m + m = (j + 1) * m
  OBVIOUS
<1>2. ~ (i + 1 <= j)
  <2>1. SUFFICES ASSUME i + 1 <= j PROVE FALSE
    OBVIOUS
  <2>2. (i + 1) * m <= j * m
    BY <2>1
  <2> QED
    BY <2>2, <1>1
<1>3. ~ (j + 1 <= i)
  <2>1. SUFFICES ASSUME j + 1 <= i PROVE FALSE
    OBVIOUS
  <2>2. (j + 1) * m <= i * m
    BY <2>1
  <2> QED
    BY <2>2, <1>1
<1> QED
  BY <1>2, <1>3

\* New data is sent in whole segments or to the end of the buffer.
LEMMA TxGrid ==
  ASSUME NEW w \in Nat, NEW t, TpOK(t, w), t.snd_nxt = t.snd_max,
         NEW k \in Nat, t.snd_nxt = k * t.t_maxseg
  PROVE  \/ t.snd_nxt + TxLen(t, w) = w
         \/ \E j \in Nat : j >= k /\ t.snd_nxt + TxLen(t, w) = j * t.t_maxseg
<1>1. t \in Tcpcb
  BY DEF TpOK
<1>2. PICK m \in Nat \ {0} : m = t.t_maxseg
  BY <1>1, Nats
<1>3. PICK x \in Int : x = OpenLen(t, w)
  <2>1. OpenLen(t, w) \in Int
    BY <1>1, Nats, SenderAssumption DEF OpenLen, Lesser
  <2> QED
    BY <2>1
<1>4. PICK a \in Nat : a = t.snd_nxt
  BY <1>1, Nats
<1>5. CASE x <= 0
  <2>1. TxLen(t, w) = 0
    BY <1>3, <1>5 DEF TxLen
  <2> QED
    BY <2>1, <1>2, <1>4
<1>6. CASE x > 0
  <2>1. PICK y \in Nat : y = x % m /\ y <= x
    <3>1. x \in Nat
      BY <1>6
    <3> QED
      BY <3>1, ModFacts
  <2>2. PICK q \in Nat : x \div m = q
    BY <1>6
  <2>3. x = q * m + y
    BY <2>1, <2>2, <1>6
  <2>4. ~ (a + (x - y) < a)
    BY <2>1
  <2>5. TxLen(t, w) = IF a + x = w THEN x ELSE x - y
    BY <1>2, <1>3, <1>4, <1>6, <2>1, <2>4 DEF TxLen
  <2>6. CASE a + x = w
    BY <2>5, <2>6, <1>4
  <2>7. CASE a + x # w
    <3>1. TxLen(t, w) = q * m
      <4>1. q * m \in Nat
        OBVIOUS
      <4> QED
        BY <2>3, <2>5, <2>7, <4>1
    <3>2. k * m + q * m = (k + q) * m
      OBVIOUS
    <3>3. k + q \in Nat /\ k + q >= k
      OBVIOUS
    <3> QED
      BY <3>1, <3>2, <3>3, <1>2
  <2> QED
    BY <2>6, <2>7
<1> QED
  BY <1>5, <1>6

\* The last segment of the buffer starts at e, and does not fit in mssdflt.
TailAt(e, w) == e + mssdflt < w /\ w <= e + MSS /\ \E m \in Nat : e = m * MSS
OnGrid(x, w) == x = w \/ \E k \in Nat : x = k * MSS

\* The first pass: what ends the buffer starts at its last whole segment.
LEMMA FirstPass ==
  ASSUME NEW w \in Nat, NEW t, TpOK(t, w), t.t_maxseg = MSS, t.snd_nxt = t.snd_max,
         OnGrid(t.snd_nxt, w), NEW e \in Nat, TailAt(e, w),
         NEW n, n = TxLen(t, w), NEW S, S = Segments(t, n)
  PROVE  /\ OnGrid(t.snd_nxt + n, w)
         /\ \A k \in 1 .. Len(S) : S[k].pos + S[k].len = w => S[k].pos = e
         /\ n > 0 => Lesser(MSS, n) > mssdflt
<1>1. t \in Tcpcb /\ t.snd_nxt \in Nat
  BY Nats DEF TpOK
<1>2. n \in Nat /\ t.snd_nxt + n <= w
  BY TxLenFacts DEF TpOK
<1>3. MSS \in Nat \ {0} /\ mssdflt \in Nat
  BY SenderAssumption
<1>4. PICK m \in Nat : e = m * MSS /\ e + mssdflt < w /\ w <= e + MSS
  BY DEF TailAt
<1>5. CASE t.snd_nxt = w
  <2>1. n = 0
    BY <1>5, TxNothing
  <2>2. S = <<>>
    BY <2>1, <1>1, SegmentsFlow
  <2> QED
    BY <2>1, <2>2, <1>1, <1>5 DEF OnGrid
<1>6. ASSUME NEW k \in Nat, t.snd_nxt = k * MSS
      PROVE  /\ OnGrid(t.snd_nxt + n, w)
             /\ \A i \in 1 .. Len(S) : S[i].pos + S[i].len = w => S[i].pos = e
             /\ n > 0 => Lesser(MSS, n) > mssdflt
  <2>1. \/ t.snd_nxt + n = w
        \/ \E j \in Nat : j >= k /\ t.snd_nxt + n = j * MSS
    BY <1>6, TxGrid
  <2>2. OnGrid(t.snd_nxt + n, w)
    BY <2>1 DEF OnGrid
  <2>3. ASSUME NEW i \in 1 .. Len(S), S[i].pos + S[i].len = w
        PROVE  S[i].pos = e
    <3>1. /\ S \in Seq(Seg) /\ S[i].pos = t.snd_nxt + (i - 1) * MSS /\ S[i].len <= MSS
      BY <1>1, <1>2, SegmentsFlow DEF Flow
    <3>2. S[i] \in Seg
      BY <3>1
    <3>3. S[i].pos \in Nat /\ S[i].len \in Nat /\ S[i].len > 0
      BY <3>2 DEF Seg
    <3>4. PICK j \in Nat : j = k + i - 1
      BY <3>1
    <3>5. k * MSS + (i - 1) * MSS = j * MSS
      BY <3>4, <1>3
    <3>6. S[i].pos = j * MSS
      BY <3>1, <3>5, <1>6
    <3>7. j * MSS < w /\ w <= j * MSS + MSS
      BY <2>3, <3>1, <3>3, <3>6, <1>3
    <3>8. m * MSS < w /\ w <= m * MSS + MSS
      BY <1>3, <1>4
    <3>9. j = m
      BY <3>7, <3>8, <1>3, SameMultiple
    <3> QED
      BY <3>6, <3>9, <1>4
  <2>4. ASSUME n > 0 PROVE Lesser(MSS, n) > mssdflt
    <3>1. MSS > mssdflt
      BY <1>3, <1>4
    <3>2. n > mssdflt
      <4>1. CASE t.snd_nxt + n = w
        <5>1. k * MSS < m * MSS + MSS
          BY <4>1, <2>4, <1>2, <1>3, <1>4, <1>6
        <5>2. k <= m
          <6>1. SUFFICES ASSUME m + 1 <= k PROVE FALSE
            OBVIOUS
          <6>2. (m + 1) * MSS <= k * MSS /\ (m + 1) * MSS = m * MSS + MSS
            BY <6>1, <1>3
          <6> QED
            BY <5>1, <6>2, <1>3
        <5>3. k * MSS <= m * MSS
          BY <5>2, <1>3
        <5> QED
          BY <4>1, <5>3, <1>2, <1>3, <1>4, <1>6
      <4>2. ASSUME NEW j \in Nat, j >= k, t.snd_nxt + n = j * MSS
            PROVE  n > mssdflt
        <5>1. j # k
          <6>1. SUFFICES ASSUME j = k PROVE FALSE
            OBVIOUS
          <6>2. t.snd_nxt + n = t.snd_nxt
            BY <6>1, <4>2, <1>6
          <6> QED
            BY <6>2, <2>4, <1>1, <1>2
        <5>2. j >= k + 1
          BY <4>2, <5>1
        <5>3. j * MSS >= (k + 1) * MSS /\ (k + 1) * MSS = k * MSS + MSS
          BY <5>2, <1>3
        <5>4. n >= MSS
          BY <4>2, <5>3, <1>2, <1>3, <1>6
        <5> QED
          BY <5>4, <3>1, <1>2, <1>3
      <4> QED
        BY <2>1, <4>1, <4>2
    <3> QED
      BY <3>1, <3>2 DEF Lesser
  <2> QED
    BY <2>2, <2>3, <2>4
<1> QED
  BY <1>5, <1>6 DEF OnGrid

\* ack_rcvd() does not close the window.
LEMMA AckRcvdIs ==
  ASSUME NEW t \in Tcpcb, NEW w \in Nat, NEW ack \in Nat, t.snd_una <= ack,
         NEW b \in ack_rcvd(t, ack, w)
  PROVE  \E c \in Nat : c >= t.snd_cwnd /\ b = [t EXCEPT !.snd_cwnd = c]
<1>1. PICK g : /\ g \in Growth(t, ack)
               /\ b = [t EXCEPT !.snd_cwnd = Greater(t.snd_cwnd, Lesser(t.snd_cwnd + g, MaxCwnd))]
  BY DEF ack_rcvd, Growth
<1>2. g \in Nat
  BY <1>1, GrowthNat
<1>3. PICK c : c = Greater(t.snd_cwnd, Lesser(t.snd_cwnd + g, MaxCwnd))
  OBVIOUS
<1>4. c \in Nat /\ c >= t.snd_cwnd
  BY <1>2, <1>3, Nats, SenderAssumption DEF Lesser, Greater, MaxCwnd
<1> QED
  BY <1>1, <1>3, <1>4

\* A block that the handler of an ACK hands to tcp_output() outside recovery.
Acked(t, u, ack) ==
    /\ u \in Tcpcb
    /\ u.snd_una = ack /\ u.snd_nxt = t.snd_nxt /\ u.snd_max = t.snd_max
    /\ u.snd_recover = t.snd_recover /\ u.t_early_rexmt_count = t.t_early_rexmt_count
    /\ u.t_rxtshift = 0 /\ u.t_pmtud_lastseg_size = 0
    /\ u.rexmt = (ack # t.snd_max)
    /\ u.snd_cwnd >= t.snd_cwnd /\ u.t_maxseg = t.t_maxseg
    /\ u.pmtud = t.pmtud /\ u.blackhole = t.blackhole
    /\ ~ u.fastrecovery /\ ~ u.closed

\* An ACK of new data outside recovery resets the backoff and sends on.
LEMMA AckIs ==
  ASSUME NEW w \in Nat, NEW t, Fit(t, w), ~ t.fastrecovery,
         NEW ack \in Nat, t.snd_una < ack, ack <= t.snd_nxt, NEW r \in NewAck(t, ack, w)
  PROVE  \E u : Acked(t, u, ack) /\ TpOK(u, w) /\ r = tcp_output([tp |-> u, sent |-> <<>>], w)
<1>1. t \in Tcpcb /\ ~ t.closed
  BY DEF Fit, TpOK
<1> DEFINE Open(b) == (IF b.fastrecovery THEN {} ELSE ack_rcvd(b, ack, w))
                      \cup (IF t.fastrecovery THEN {b} ELSE {})
           Move(b) == [b EXCEPT !.t_pmtud_lastseg_size = 0, !.t_rxtshift = 0,
                                !.rexmt = RestartsTimer(b, ack),
                                !.snd_una = ack, !.snd_nxt = PulledNxt(b, ack)]
<1>2. PICK q \in LeaveOrStay(t, ack, w) :
        r \in {tcp_output([tp |-> Move(b), sent |-> q.sent], w) : b \in Open(q.tp)}
  BY DEF NewAck
<1>3. PICK b \in Open(q.tp) : r = tcp_output([tp |-> Move(b), sent |-> q.sent], w)
  BY <1>2
<1>4. PICK h : h = [t EXCEPT !.t_dupacks = 0, !.t_rexmtthresh = tcprexmtthresh]
  OBVIOUS
<1>5. q.tp = h /\ q.sent = <<>>
  <2>1. q = Quietly([t EXCEPT !.t_dupacks = 0, !.t_rexmtthresh = tcprexmtthresh])
    BY <1>2 DEF LeaveOrStay
  <2>2. q = [tp |-> h, sent |-> <<>>]
    BY <2>1, <1>4 DEF Quietly
  <2> QED
    BY <2>2
<1>6. /\ h \in Tcpcb /\ h.snd_una = t.snd_una /\ h.snd_nxt = t.snd_nxt /\ h.snd_max = t.snd_max
      /\ h.snd_recover = t.snd_recover /\ h.t_early_rexmt_count = t.t_early_rexmt_count
      /\ h.snd_cwnd = t.snd_cwnd /\ h.t_maxseg = t.t_maxseg
      /\ h.pmtud = t.pmtud /\ h.blackhole = t.blackhole
      /\ h.fastrecovery = t.fastrecovery /\ h.closed = t.closed
  <2>1. tcprexmtthresh \in Nat
    BY SenderAssumption
  <2> QED
    BY <1>1, <1>4, <2>1 DEF Tcpcb
<1>7. b \in ack_rcvd(h, ack, w)
  BY <1>3, <1>5
<1>8. PICK c \in Nat : c >= t.snd_cwnd /\ b = [h EXCEPT !.snd_cwnd = c]
  <2>1. h.snd_una <= ack
    BY <1>1, <1>6, Nats
  <2> QED
    BY <2>1, <1>6, <1>7, AckRcvdIs
<1>9. /\ b \in Tcpcb /\ b.snd_una = t.snd_una /\ b.snd_nxt = t.snd_nxt /\ b.snd_max = t.snd_max
      /\ b.snd_recover = t.snd_recover /\ b.t_early_rexmt_count = t.t_early_rexmt_count
      /\ b.snd_cwnd = c /\ b.t_maxseg = t.t_maxseg
      /\ b.pmtud = t.pmtud /\ b.blackhole = t.blackhole
      /\ b.fastrecovery = t.fastrecovery /\ b.closed = t.closed
  BY <1>6, <1>8 DEF Tcpcb
<1>10. PulledNxt(b, ack) = t.snd_nxt
  BY <1>1, <1>9, Nats DEF PulledNxt, Greater
<1>11. PICK rx \in BOOLEAN : rx = (ack # t.snd_max) /\ rx = RestartsTimer(b, ack)
  BY <1>9 DEF RestartsTimer
<1>12. PICK u : u = [b EXCEPT !.t_pmtud_lastseg_size = 0, !.t_rxtshift = 0, !.rexmt = rx,
                              !.snd_una = ack, !.snd_nxt = t.snd_nxt]
  OBVIOUS
<1>13. r = tcp_output([tp |-> u, sent |-> <<>>], w)
  BY <1>3, <1>5, <1>10, <1>11, <1>12
<1>14. t.snd_nxt \in Nat
  BY <1>1, Nats
<1>15. /\ u \in Tcpcb /\ u.snd_una = ack /\ u.snd_nxt = t.snd_nxt /\ u.snd_max = b.snd_max
       /\ u.snd_recover = b.snd_recover /\ u.t_early_rexmt_count = b.t_early_rexmt_count
       /\ u.t_rxtshift = 0 /\ u.t_pmtud_lastseg_size = 0 /\ u.rexmt = rx
       /\ u.snd_cwnd = b.snd_cwnd /\ u.t_maxseg = b.t_maxseg
       /\ u.pmtud = b.pmtud /\ u.blackhole = b.blackhole
       /\ u.fastrecovery = b.fastrecovery /\ u.closed = b.closed
  BY <1>9, <1>12, <1>14 DEF Tcpcb
<1>16. Acked(t, u, ack)
  BY <1>1, <1>8, <1>9, <1>11, <1>15 DEF Acked
<1>17. TpOK(u, w)
  <2>1. /\ t.snd_nxt <= t.snd_max /\ t.snd_max <= w /\ t.snd_max <= t.snd_una + Window
        /\ t.snd_recover <= t.snd_max /\ t.t_early_rexmt_count <= Limit
    BY DEF Fit, TpOK
  <2>2. 0 <= MaxShift /\ t.snd_max <= ack + Window
    BY <2>1, <1>1, Nats, SenderAssumption
  <2> QED
    BY <2>1, <2>2, <1>9, <1>15 DEF TpOK
<1> QED
  BY <1>13, <1>16, <1>17

\* A block that the timer hands to tcp_output().
Fired(t, u) ==
    /\ u \in Tcpcb
    /\ u.snd_una = t.snd_una /\ u.snd_nxt = t.snd_una /\ u.snd_max = t.snd_max
    /\ u.t_rxtshift = t.t_rxtshift + 1 /\ u.t_pmtud_lastseg_size = t.t_pmtud_lastseg_size
    /\ u.rexmt /\ ~ u.fastrecovery /\ ~ u.closed

\* The window and the segment size after the timeout: the first one narrows the
\* window to a segment, the second one of a full-sized head is taken for a black hole.
Narrowed(t, u) ==
    /\ t.t_rxtshift = 0 /\ ~ t.blackhole =>
          /\ u.snd_cwnd = t.t_maxseg /\ u.t_maxseg = t.t_maxseg
          /\ u.pmtud = t.pmtud /\ u.blackhole = t.blackhole
    /\ t.t_rxtshift = 1 /\ t.pmtud /\ t.t_pmtud_lastseg_size > mssdflt =>
          u.snd_cwnd = mssdflt /\ u.t_maxseg = mssdflt
    /\ t.t_pmtud_lastseg_size <= mssdflt /\ t.snd_cwnd >= mssdflt => u.snd_cwnd >= mssdflt

\* What the black hole check does to the window and the segment size.
LEMMA BlackHoleIs ==
  ASSUME NEW t \in Tcpcb, NEW b, b = BlackHoleCheck(t)
  PROVE  /\ b.t_pmtud_lastseg_size = t.t_pmtud_lastseg_size
         /\ t.t_rxtshift = 1 /\ ~ t.blackhole => b = t
         /\ t.t_rxtshift = 2 /\ t.pmtud /\ t.t_pmtud_lastseg_size > mssdflt =>
               b.snd_cwnd = mssdflt /\ b.t_maxseg = mssdflt
         /\ t.t_pmtud_lastseg_size <= mssdflt /\ t.snd_cwnd >= mssdflt => b.snd_cwnd >= mssdflt
<1> DEFINE u == [t EXCEPT !.pmtud = FALSE, !.blackhole = TRUE, !.t_maxseg = mssdflt,
                          !.snd_cwnd = mssdflt]
           v == [t EXCEPT !.pmtud = TRUE, !.blackhole = FALSE, !.t_maxseg = MSS, !.snd_cwnd = MSS]
<1>1. MSS \in Nat /\ mssdflt \in Nat /\ mssdflt <= MSS
  BY SenderAssumption
<1>2. /\ u.t_pmtud_lastseg_size = t.t_pmtud_lastseg_size /\ u.snd_cwnd = mssdflt /\ u.t_maxseg = mssdflt
      /\ v.t_pmtud_lastseg_size = t.t_pmtud_lastseg_size /\ v.snd_cwnd = MSS
  BY DEF Tcpcb
<1>3. b = IF t.pmtud /\ t.t_pmtud_lastseg_size > mssdflt /\ t.t_rxtshift = 2 THEN u
          ELSE IF t.blackhole /\ t.t_rxtshift > 4 THEN v ELSE t
  BY DEF BlackHoleCheck, LooksBlackHoled
<1> HIDE DEF u, v
<1>4. t.t_rxtshift \in Nat
  BY Nats
<1>5. t.t_pmtud_lastseg_size \in Nat
  BY DEF Tcpcb
<1>6. mssdflt >= mssdflt /\ MSS >= mssdflt
  BY <1>1
<1>7. t.t_rxtshift = 1 => ~ (t.t_rxtshift = 2) /\ ~ (t.t_rxtshift > 4)
  BY <1>4
<1>8. CASE b = u
  BY <1>8, <1>2, <1>3, <1>6, <1>7
<1>9. CASE b = v
  BY <1>9, <1>2, <1>3, <1>6, <1>7
<1>10. CASE b = t
  BY <1>10, <1>2, <1>3
<1> QED
  BY <1>3, <1>8, <1>9, <1>10

\* The timer gives the connection up, or rewinds and sends on.
LEMMA TimeoutIs ==
  ASSUME NEW w \in Nat, NEW t, Fit(t, w), NEW r \in RexmtTimeout(t, w)
  PROVE  \/ r = Quietly([t EXCEPT !.closed = TRUE, !.rexmt = FALSE])
         \/ /\ t.t_rxtshift + 1 <= MaxShift
            /\ \E u : /\ Fired(t, u) /\ Narrowed(t, u) /\ TpOK(u, w)
                      /\ r = tcp_output([tp |-> u, sent |-> <<>>], w)
<1>1. t \in Tcpcb /\ ~ t.closed
  BY DEF Fit, TpOK
<1> DEFINE up == [t EXCEPT !.t_rxtshift = t.t_rxtshift + 1]
           on == [up EXCEPT !.rexmt = TRUE]
           probed == BlackHoleCheck(on)
           back == Rewind(probed)
<1>2. CASE /\ t.t_rxtshift + 1 <= MaxShift
           /\ \E b \in IF back.t_rxtshift = 1 THEN after_timeout(back) ELSE cwnd_init(back) :
                 r = tcp_output(Quietly(ExitFastRecovery(b)), w)
  <2>1. PICK b \in IF back.t_rxtshift = 1 THEN after_timeout(back) ELSE cwnd_init(back) :
                 r = tcp_output(Quietly(ExitFastRecovery(b)), w)
    BY <1>2
  <2>2. /\ on \in Tcpcb /\ on.rexmt = TRUE /\ on.snd_una = t.snd_una
        /\ on.snd_max = t.snd_max /\ on.closed = t.closed
        /\ on.t_rxtshift = t.t_rxtshift + 1 /\ on.t_early_rexmt_count = t.t_early_rexmt_count
        /\ on.t_pmtud_lastseg_size = t.t_pmtud_lastseg_size /\ on.pmtud = t.pmtud
        /\ on.blackhole = t.blackhole /\ on.snd_cwnd = t.snd_cwnd /\ on.t_maxseg = t.t_maxseg
    <3>1. t.t_rxtshift + 1 \in Nat
      BY <1>1, Nats
    <3> QED
      BY <1>1, <3>1 DEF Tcpcb
  <2> HIDE DEF up, on
  <2>3. Like(on, probed)
    BY <2>2, BlackHoleLike
  <2>4. /\ probed.t_pmtud_lastseg_size = on.t_pmtud_lastseg_size
        /\ on.t_rxtshift = 1 /\ ~ on.blackhole => probed = on
        /\ on.t_rxtshift = 2 /\ on.pmtud /\ on.t_pmtud_lastseg_size > mssdflt =>
              probed.snd_cwnd = mssdflt /\ probed.t_maxseg = mssdflt
        /\ on.t_pmtud_lastseg_size <= mssdflt /\ on.snd_cwnd >= mssdflt => probed.snd_cwnd >= mssdflt
    BY <2>2, BlackHoleIs
  <2> HIDE DEF probed
  <2>5. /\ back \in Tcpcb /\ back.rexmt = TRUE /\ back.snd_una = t.snd_una
        /\ back.snd_nxt = t.snd_una /\ back.snd_max = t.snd_max
        /\ back.snd_recover = t.snd_max /\ back.closed = t.closed
        /\ back.t_rxtshift = t.t_rxtshift + 1
        /\ t.t_early_rexmt_count <= Limit => back.t_early_rexmt_count <= Limit
        /\ back.t_pmtud_lastseg_size = probed.t_pmtud_lastseg_size /\ back.pmtud = probed.pmtud
        /\ back.blackhole = probed.blackhole /\ back.snd_cwnd = probed.snd_cwnd
        /\ back.t_maxseg = probed.t_maxseg
    <3>1. /\ probed \in Tcpcb /\ probed.rexmt = TRUE /\ probed.snd_una = t.snd_una
          /\ probed.snd_max = t.snd_max /\ probed.closed = t.closed
          /\ probed.t_rxtshift = t.t_rxtshift + 1
          /\ t.t_early_rexmt_count <= Limit => probed.t_early_rexmt_count <= Limit
      BY <2>2, <2>3 DEF Like
    <3>2. t.snd_una \in Nat /\ t.snd_max \in Nat
      BY <1>1, Nats
    <3>3. back = [probed EXCEPT !.snd_nxt = t.snd_una, !.snd_recover = t.snd_max]
      BY <3>1 DEF Rewind
    <3> HIDE DEF back
    <3>4. /\ back \in Tcpcb /\ back.rexmt = probed.rexmt /\ back.snd_una = probed.snd_una
          /\ back.snd_nxt = t.snd_una /\ back.snd_max = probed.snd_max
          /\ back.snd_recover = t.snd_max /\ back.closed = probed.closed
          /\ back.t_rxtshift = probed.t_rxtshift
          /\ back.t_early_rexmt_count = probed.t_early_rexmt_count
          /\ back.t_pmtud_lastseg_size = probed.t_pmtud_lastseg_size /\ back.pmtud = probed.pmtud
          /\ back.blackhole = probed.blackhole /\ back.snd_cwnd = probed.snd_cwnd
          /\ back.t_maxseg = probed.t_maxseg
      BY <3>1, <3>2, <3>3 DEF Tcpcb
    <3> QED
      BY <3>1, <3>4
  <2> HIDE DEF back
  <2>6. PICK c, a :
          /\ c \in Nat /\ b = [a EXCEPT !.snd_cwnd = c]
          /\ a \in cwnd_init(back) \/ a \in pre_fr(back)
          /\ back.t_rxtshift = 1 => c = back.t_maxseg
          /\ back.t_rxtshift # 1 => c = back.snd_cwnd
    <3>1. CASE back.t_rxtshift = 1
      <4>1. PICK a : a \in cwnd_init(back) \cup pre_fr(back) /\ b = [a EXCEPT !.snd_cwnd = back.t_maxseg]
        BY <2>1, <3>1 DEF after_timeout, cwnd_init
      <4>2. back.t_maxseg \in Nat
        BY <2>5, Nats
      <4> QED
        BY <3>1, <4>1, <4>2
    <3>2. CASE back.t_rxtshift # 1
      <4>1. b \in cwnd_init(back)
        BY <2>1, <3>2
      <4>2. back.snd_cwnd \in Nat /\ MaxCwnd \in Nat
        BY <2>5, Nats, SenderAssumption DEF MaxCwnd, Greater
      <4>3. b = [b EXCEPT !.snd_cwnd = back.snd_cwnd]
        BY <2>5, <4>1, <4>2 DEF Tcpcb, cwnd_init
      <4> QED
        BY <3>2, <4>1, <4>2, <4>3
    <3> QED
      BY <3>1, <3>2
  <2>7. PICK s \in Nat : a = [back EXCEPT !.snd_ssthresh = s]
    <3>1. CASE a \in cwnd_init(back)
      <4>1. back.snd_ssthresh \in Nat /\ back = [back EXCEPT !.snd_ssthresh = back.snd_ssthresh]
        BY <2>5 DEF Tcpcb
      <4>2. MaxCwnd \in Nat
        BY SenderAssumption DEF MaxCwnd, Greater
      <4> QED
        BY <3>1, <4>1, <4>2 DEF cwnd_init
    <3>2. CASE a \in pre_fr(back)
      <4>1. PICK k \in 2 .. Greater(2, Lesser(back.snd_cwnd, Window) \div back.t_maxseg) :
              a = [back EXCEPT !.snd_ssthresh = k * back.t_maxseg]
        BY <3>2 DEF pre_fr
      <4>2. k * back.t_maxseg \in Nat
        BY <2>5, Nats, SenderAssumption DEF Greater, Lesser
      <4> QED
        BY <4>1, <4>2
    <3> QED
      BY <2>6, <3>1, <3>2
  <2>8. PICK u : u = ExitFastRecovery(b)
    OBVIOUS
  <2>9. /\ a \in Tcpcb /\ a.rexmt = TRUE /\ a.snd_una = t.snd_una
        /\ a.snd_nxt = t.snd_una /\ a.snd_max = t.snd_max
        /\ a.snd_recover = t.snd_max /\ a.closed = t.closed
        /\ a.t_rxtshift = t.t_rxtshift + 1
        /\ a.t_early_rexmt_count = back.t_early_rexmt_count
        /\ a.t_pmtud_lastseg_size = back.t_pmtud_lastseg_size /\ a.pmtud = back.pmtud
        /\ a.blackhole = back.blackhole /\ a.t_maxseg = back.t_maxseg
    BY <2>5, <2>7 DEF Tcpcb
  <2>10. /\ b \in Tcpcb /\ b.rexmt = TRUE /\ b.snd_una = t.snd_una
        /\ b.snd_nxt = t.snd_una /\ b.snd_max = t.snd_max
        /\ b.snd_recover = t.snd_max /\ b.closed = t.closed
        /\ b.t_rxtshift = t.t_rxtshift + 1
        /\ b.t_early_rexmt_count = back.t_early_rexmt_count
        /\ b.t_pmtud_lastseg_size = back.t_pmtud_lastseg_size /\ b.pmtud = back.pmtud
        /\ b.blackhole = back.blackhole /\ b.t_maxseg = back.t_maxseg /\ b.snd_cwnd = c
    BY <2>6, <2>9 DEF Tcpcb
  <2>11. tcprexmtthresh \in Nat
    BY SenderAssumption
  <2>12. /\ u \in Tcpcb /\ u.rexmt = TRUE /\ u.snd_una = t.snd_una
        /\ u.snd_nxt = t.snd_una /\ u.snd_max = t.snd_max
        /\ u.snd_recover = t.snd_max /\ u.closed = t.closed
        /\ u.t_rxtshift = t.t_rxtshift + 1 /\ u.fastrecovery = FALSE
        /\ u.t_early_rexmt_count = back.t_early_rexmt_count
        /\ u.t_pmtud_lastseg_size = back.t_pmtud_lastseg_size /\ u.pmtud = back.pmtud
        /\ u.blackhole = back.blackhole /\ u.t_maxseg = back.t_maxseg /\ u.snd_cwnd = c
    BY <2>8, <2>10, <2>11 DEF Tcpcb, ExitFastRecovery
  <2>13. Fired(t, u)
    BY <1>1, <2>2, <2>4, <2>5, <2>12 DEF Fired
  <2>14. TpOK(u, w)
    BY <1>1, <1>2, <2>5, <2>12, Nats DEF Fit, TpOK
  <2>15. t.t_rxtshift \in Nat
    BY <1>1, Nats
  <2>16. ASSUME t.t_rxtshift = 0, ~ t.blackhole
         PROVE  /\ u.snd_cwnd = t.t_maxseg /\ u.t_maxseg = t.t_maxseg
                /\ u.pmtud = t.pmtud /\ u.blackhole = t.blackhole
    <3>1. on.t_rxtshift = 1 /\ back.t_rxtshift = 1 /\ ~ on.blackhole
      BY <2>2, <2>5, <2>16
    <3> QED
      BY <3>1, <2>2, <2>4, <2>5, <2>6, <2>12
  <2>17. ASSUME t.t_rxtshift = 1, t.pmtud, t.t_pmtud_lastseg_size > mssdflt
         PROVE  u.snd_cwnd = mssdflt /\ u.t_maxseg = mssdflt
    <3>1. on.t_rxtshift = 2 /\ back.t_rxtshift # 1 /\ on.pmtud /\ on.t_pmtud_lastseg_size > mssdflt
      BY <2>2, <2>5, <2>17
    <3> QED
      BY <3>1, <2>4, <2>5, <2>6, <2>12
  <2>18. ASSUME t.t_pmtud_lastseg_size <= mssdflt, t.snd_cwnd >= mssdflt
         PROVE  u.snd_cwnd >= mssdflt
    <3>1. probed.snd_cwnd >= mssdflt
      BY <2>2, <2>4, <2>18
    <3>2. back.t_maxseg >= mssdflt
      BY <2>5, SenderAssumption DEF Tcpcb
    <3> QED
      BY <3>1, <3>2, <2>5, <2>6, <2>12
  <2>19. Narrowed(t, u)
    BY <2>16, <2>17, <2>18 DEF Narrowed
  <2>20. r = tcp_output([tp |-> u, sent |-> <<>>], w)
    BY <2>1, <2>8 DEF Quietly
  <2> QED
    BY <1>2, <2>13, <2>14, <2>19, <2>20
<1>3. \/ r = Quietly([t EXCEPT !.closed = TRUE, !.rexmt = FALSE])
      \/ /\ t.t_rxtshift + 1 <= MaxShift
         /\ \E b \in IF back.t_rxtshift = 1 THEN after_timeout(back) ELSE cwnd_init(back) :
               r = tcp_output(Quietly(ExitFastRecovery(b)), w)
  <2>1. up.t_rxtshift = t.t_rxtshift + 1
    BY <1>1 DEF Tcpcb
  <2>2. ~ (t.t_rxtshift + 1 > MaxShift) => t.t_rxtshift + 1 <= MaxShift
    BY <1>1, Nats, SenderAssumption
  <2> HIDE DEF back
  <2> QED
    BY <2>1, <2>2 DEF RexmtTimeout, back, cwnd_init
<1> QED
  BY <1>2, <1>3

\* The peer has everything below the frontier and nothing above it, its ACKs go
\* up, the timer runs only with data outstanding, and there is no recovery.
Answered ==
    /\ got = 0 .. frontier - 1 /\ AckFlow(acks, tp.snd_una, frontier)
    /\ tp.rexmt => tp.snd_una < tp.snd_max
    /\ ~ tp.fastrecovery

\* The one rule takes what holds the last byte.
LastByte == Len(rules) = 1 /\ rules[1].lo = wrote - 1 /\ rules[1].hi = wrote

\* The times of the drops so far.
Gaps == <<1, 2>> \o tcp_backoff
InStep == \A k \in 1 .. Len(drops) - 1 : drops[k + 1] - drops[k] = Gaps[k]

\* All is sent and its last part lost; that part is on the wire again.
Lost == data = <<>> /\ tp.snd_nxt = wrote /\ tp.snd_max = wrote /\ frontier < wrote
Resent ==
    /\ acks = <<>> /\ data = <<[pos |-> frontier, len |-> wrote - frontier]>>
    /\ tp.snd_nxt = wrote /\ tp.snd_max = wrote /\ frontier < wrote

\* Types that the steps use.
LEMMA LadderTypes ==
  ASSUME InductiveInv
  PROVE  /\ tp \in Tcpcb /\ wrote \in Nat /\ frontier \in Nat /\ clock \in Nat
         /\ tp.snd_una \in Nat /\ tp.snd_nxt \in Nat /\ tp.snd_max \in Nat
         /\ tp.snd_una <= tp.snd_nxt /\ tp.snd_nxt <= tp.snd_max /\ tp.snd_max <= wrote
         /\ tp.t_rxtshift \in Nat /\ tp.t_rxtshift <= MaxShift /\ MaxShift <= 12
         /\ data \in Seq(Seg) /\ acks \in Seq(Nat) /\ drops \in Seq(Nat) /\ rules \in Seq(DropRule)
         /\ spent \in [fail : Nat, late : Nat, expired : Nat]
BY Nats, SenderAssumption DEF InductiveInv, TypeOK, SenderOrder, Bounded, Seg

\* The peer accepts the segment at its frontier.
LEMMA LadderAccept ==
  ASSUME InductiveInv, Answered, Flow(data, frontier, tp.snd_nxt), PeerAccept(FALSE)
  PROVE  /\ Answered' /\ Flow(data', frontier', tp'.snd_nxt)
         /\ UNCHANGED <<scenario, round, wrote, tp, rules, drops, clock, spent>>
         /\ frontier' = frontier + data[1].len /\ Len(data') = Len(data) - 1
         /\ \A k \in 1 .. Len(data') : data'[k] = data[k + 1] /\ k + 1 \in 1 .. Len(data)
<1>1. /\ tp \in Tcpcb /\ wrote \in Nat /\ frontier \in Nat
      /\ tp.snd_una \in Nat /\ tp.snd_nxt \in Nat /\ tp.snd_nxt <= wrote
  <2>1. /\ tp \in Tcpcb /\ wrote \in Nat /\ frontier \in Nat
        /\ tp.snd_una \in Nat /\ tp.snd_nxt \in Nat /\ tp.snd_max \in Nat
        /\ tp.snd_nxt <= tp.snd_max /\ tp.snd_max <= wrote
    BY LadderTypes
  <2> QED
    BY <2>1
<1>2. /\ data # <<>> /\ data' = Tail(data) /\ got' = got \cup Bytes(Head(data))
      /\ frontier' = NewFrontier /\ acks' = Append(acks, frontier')
      /\ UNCHANGED <<scenario, round, wrote, tp, rules, drops, clock, spent>>
  BY DEF PeerAccept, SeeData, ReadSegment, seg
<1>3. /\ Head(data) = data[1] /\ Head(data) \in Seg /\ Head(data).pos = frontier
      /\ Flow(data', frontier + Head(data).len, tp.snd_nxt) /\ Len(data') = Len(data) - 1
      /\ \A k \in 1 .. Len(data') : k + 1 \in 1 .. Len(data) /\ data'[k] = data[k + 1]
  BY <1>1, <1>2, FlowTail
<1>4. PICK l \in Nat : l = Head(data).len /\ l > 0
  BY <1>3 DEF Seg
<1>5. frontier + l <= wrote
  BY <1>1, <1>3, <1>4 DEF Flow
<1>6. got' = 0 .. frontier + l - 1
  <2>1. Bytes(Head(data)) = frontier .. frontier + l - 1
    BY <1>3, <1>4 DEF Bytes
  <2>2. got = 0 .. frontier - 1
    BY DEF Answered
  <2> QED
    BY <1>1, <1>2, <2>1, <2>2
<1>7. frontier' = frontier + l
  <2> DEFINE P(f) == f \notin got' /\ frontier .. f - 1 \subseteq got'
  <2>1. frontier + l \in frontier .. wrote /\ P(frontier + l)
    BY <1>1, <1>5, <1>6
  <2>2. \A f \in frontier .. wrote : P(f) => f = frontier + l
    <3>1. SUFFICES ASSUME NEW f \in frontier .. wrote, P(f), f # frontier + l PROVE FALSE
      OBVIOUS
    <3>2. CASE f < frontier + l
      <4>1. f \in 0 .. frontier + l - 1
        BY <3>2, <1>1
      <4> QED
        BY <4>1, <3>1, <1>6
    <3>3. CASE f > frontier + l
      <4>1. frontier + l \in frontier .. f - 1
        BY <3>3, <1>1
      <4>2. frontier + l \in got'
        BY <4>1, <3>1
      <4> QED
        BY <4>2, <1>1, <1>6
    <3> QED
      BY <3>1, <3>2, <3>3, <1>1
  <2>3. frontier' = CHOOSE f \in frontier .. wrote : P(f)
    BY <1>2 DEF NewFrontier
  <2> HIDE DEF P
  <2> QED
    BY <2>1, <2>2, <2>3, Zenon
<1>8. AckFlow(acks', tp.snd_una, frontier')
  <2>1. AckFlow(acks, tp.snd_una, frontier) /\ frontier < frontier' /\ frontier' \in Nat
    BY <1>1, <1>4, <1>7 DEF Answered
  <2> QED
    BY <2>1, <1>1, <1>2, AckFlowAppend
<1>9. Answered'
  <2>1. got' = 0 .. frontier' - 1
    <3>1. frontier + l - 1 = frontier' - 1
      BY <1>1, <1>7
    <3> QED
      BY <3>1, <1>6
  <2>2. (tp'.rexmt => tp'.snd_una < tp'.snd_max) /\ ~ tp'.fastrecovery /\ tp'.snd_una = tp.snd_una
    BY <1>2 DEF Answered
  <2> QED
    BY <2>1, <2>2, <1>8 DEF Answered
<1> QED
  BY <1>2, <1>3, <1>4, <1>7, <1>9

\* The rule takes the segment with the last byte, and only that.
LEMMA LadderDrop ==
  ASSUME InductiveInv, Answered, LastByte, Flow(data, frontier, tp.snd_nxt), PeerDrop
  PROVE  /\ Answered' /\ LastByte' /\ Lost' /\ tp.snd_nxt = wrote /\ tp.snd_max = wrote
         /\ 1 \in 1 .. Len(data) /\ data[1] \in Seg
         /\ data[1].pos = frontier /\ data[1].pos + data[1].len = wrote
         /\ drops' = Append(drops, clock)
         /\ UNCHANGED <<scenario, round, wrote, tp, acks, got, frontier, clock, spent>>
<1>1. /\ tp \in Tcpcb /\ wrote \in Nat /\ frontier \in Nat
      /\ tp.snd_una \in Nat /\ tp.snd_nxt \in Nat /\ tp.snd_max \in Nat
      /\ tp.snd_nxt <= tp.snd_max /\ tp.snd_max <= wrote
      /\ rules \in Seq(DropRule) /\ data \in Seq(Seg)
  BY LadderTypes
<1>2. /\ data # <<>> /\ data' = Tail(data) /\ drops' = Append(drops, clock)
      /\ Drops(rules, Head(data).pos, Head(data).len)
      /\ rules' = Charged(rules, Head(data).pos, Head(data).len)
      /\ UNCHANGED <<scenario, round, wrote, tp, acks, got, frontier, clock, spent>>
  BY DEF PeerDrop, SeeData, ReadSegment, seg
<1>3. /\ Head(data) = data[1] /\ Head(data) \in Seg /\ Head(data).pos = frontier
      /\ Flow(data', frontier + Head(data).len, tp.snd_nxt)
  BY <1>1, <1>2, FlowTail
<1>4. PICK l \in Nat : l = Head(data).len /\ l > 0
  BY <1>3 DEF Seg
<1>5. frontier + l <= tp.snd_nxt
  BY <1>3, <1>4 DEF Flow
<1>6. Matching(rules, frontier, l) = {1} /\ wrote - 1 < frontier + l
  <2>1. Matching(rules, frontier, l) # {} /\ Matching(rules, frontier, l) \subseteq 1 .. 1
    BY <1>2, <1>3, <1>4 DEF Drops, Matching, LastByte
  <2>2. 1 \in Matching(rules, frontier, l)
    BY <2>1
  <2>3. Matches(rules[1], frontier, l)
    BY <2>2 DEF Matching
  <2>4. wrote - 1 < frontier + l
    BY <2>3 DEF Matches, LastByte
  <2> QED
    BY <2>1, <2>2, <2>4
<1>7. frontier + l = wrote /\ tp.snd_nxt = wrote /\ tp.snd_max = wrote /\ frontier < wrote
  <2>1. PICK w \in Nat, f \in Nat, nx \in Nat, mx \in Nat :
          w = wrote /\ f = frontier /\ nx = tp.snd_nxt /\ mx = tp.snd_max
    BY <1>1
  <2>2. l \in Nat /\ l > 0 /\ w - 1 < f + l /\ f + l <= nx /\ nx <= mx /\ mx <= w
    BY <2>1, <1>1, <1>4, <1>5, <1>6
  <2>3. f + l = w /\ nx = w /\ mx = w /\ f < w
    BY <2>2
  <2> QED
    BY <2>1, <2>3
<1>8. data' = <<>>
  <2>1. SUFFICES ASSUME data' # <<>> PROVE FALSE
    OBVIOUS
  <2>2. data' \in Seq(Seg) /\ data'[1].pos = wrote /\ 1 \in 1 .. Len(data') /\ data'[1] \in Seg
    BY <2>1, <1>3, <1>4, <1>7 DEF Flow
  <2>3. data'[1].pos + data'[1].len <= wrote
    BY <2>2, <1>3, <1>4, <1>7 DEF Flow
  <2> QED
    BY <2>2, <2>3, <1>1 DEF Seg
<1>9. LastByte'
  <2>1. rules' = [rules EXCEPT ![1].fired = rules[1].fired + 1]
    <3>1. (CHOOSE k \in {1} : \A j \in {1} : k <= j) = 1
      <4>1. \E k \in {1} : \A j \in {1} : k <= j
        OBVIOUS
      <4>2. (CHOOSE k \in {1} : \A j \in {1} : k <= j) \in {1}
        BY <4>1, Zenon
      <4> QED
        BY <4>2
    <3> QED
      BY <3>1, <1>2, <1>3, <1>4, <1>6 DEF Charged
  <2>2. Len(rules') = Len(rules) /\ rules'[1] = [rules[1] EXCEPT !.fired = rules[1].fired + 1]
    BY <2>1, <1>1 DEF LastByte
  <2>3. rules[1] \in DropRule
    <3>1. 1 \in 1 .. Len(rules)
      BY DEF LastByte
    <3> QED
      BY <3>1, <1>1
  <2>4. rules'[1].lo = rules[1].lo /\ rules'[1].hi = rules[1].hi
    BY <2>2, <2>3 DEF DropRule
  <2> QED
    BY <2>2, <2>4, <1>2 DEF LastByte
<1>10. Answered'
  BY <1>2 DEF Answered
<1>11. Lost'
  BY <1>2, <1>7, <1>8 DEF Lost
<1>12. 1 \in 1 .. Len(data)
  BY <1>1, <1>2
<1> QED
  BY <1>2, <1>3, <1>4, <1>7, <1>9, <1>10, <1>11, <1>12

\* The kernel takes in an ACK: it advances snd_una, so no duplicate is counted.
LEMMA LadderAck ==
  ASSUME InductiveInv, Answered, frontier <= tp.snd_nxt, KernelAck
  PROVE  /\ Answered'
         /\ UNCHANGED <<scenario, round, wrote, rules, got, frontier, drops, clock, spent>>
         /\ acks # <<>> /\ Head(acks) \in Nat /\ tp.snd_una < Head(acks) /\ Head(acks) <= frontier
         /\ \E u, n : /\ Acked(tp, u, Head(acks)) /\ TpOK(u, wrote) /\ n \in Nat
                      /\ n = TxLen(u, wrote) /\ u.snd_nxt + n <= wrote
                      /\ Sends(u, tp', n) /\ data' = data \o Segments(u, n)
<1>1. /\ tp \in Tcpcb /\ wrote \in Nat /\ frontier \in Nat
      /\ tp.snd_una \in Nat /\ tp.snd_nxt \in Nat /\ tp.snd_max \in Nat
      /\ tp.snd_nxt <= tp.snd_max
  BY LadderTypes
<1>2. /\ acks # <<>> /\ ~ tp.closed /\ acks' = Tail(acks)
      /\ UNCHANGED <<scenario, round, wrote, rules, got, frontier, drops, clock, spent>>
  BY DEF KernelAck, TakeAck, peerVars
<1>3. PICK r \in TcpInput(tp, Head(acks), wrote) : Adopt(r)
  BY DEF KernelAck
<1>4. PICK ack : ack = Head(acks)
  OBVIOUS
<1>5. /\ ack \in Nat /\ tp.snd_una < ack /\ ack <= frontier /\ AckFlow(acks', ack, frontier)
  BY <1>1, <1>2, <1>4, AckFlowTail DEF Answered
<1>6. Fit(tp, wrote)
  BY <1>2, InvFit
<1>7. r \in NewAck(tp, ack, wrote)
  <2>1. ~ (ack <= tp.snd_una)
    BY <1>1, <1>5
  <2> QED
    BY <2>1, <1>3, <1>4 DEF TcpInput
<1>8. ack <= tp.snd_nxt
  BY <1>1, <1>5
<1>9. PICK u : Acked(tp, u, ack) /\ TpOK(u, wrote) /\ r = tcp_output([tp |-> u, sent |-> <<>>], wrote)
  BY <1>1, <1>5, <1>6, <1>7, <1>8, AckIs DEF Answered
<1>10. PICK n : n = TxLen(u, wrote)
  OBVIOUS
<1>11. /\ n \in Nat /\ u.snd_nxt + n <= wrote /\ Sends(u, r.tp, n) /\ r.sent = Segments(u, n)
  BY <1>1, <1>9, <1>10, OutputIs
<1>12. tp' = r.tp /\ data' = data \o Segments(u, n)
  BY <1>3, <1>11 DEF Adopt
<1>13. Sends(u, tp', n)
  BY <1>11, <1>12
<1>14. tp'.snd_una = ack /\ ~ tp'.fastrecovery
  BY <1>9, <1>13 DEF Sends, Acked
<1>15. tp'.rexmt => tp'.snd_una < tp'.snd_max
  <2>1. /\ tp'.rexmt = (u.rexmt \/ n > 0) /\ tp'.snd_max = Greater(tp.snd_max, tp.snd_nxt + n)
        /\ u.rexmt = (ack # tp.snd_max)
    BY <1>9, <1>13 DEF Sends, Acked
  <2>2. ack <= tp.snd_max
    BY <1>1, <1>5, <1>8
  <2>3. CASE n > 0
    <3>1. ack < tp.snd_nxt + n /\ tp.snd_nxt + n \in Nat
      BY <2>3, <1>1, <1>5, <1>8, <1>11
    <3>2. ack < Greater(tp.snd_max, tp.snd_nxt + n)
      BY <3>1, <1>1, <1>5 DEF Greater
    <3> QED
      BY <3>2, <2>1, <1>14
  <2>4. CASE ~ (n > 0) /\ ack # tp.snd_max
    <3>1. ack < tp.snd_max
      BY <2>2, <2>4, <1>1, <1>5
    <3>2. ack < Greater(tp.snd_max, tp.snd_nxt + n)
      BY <3>1, <1>1, <1>5, <1>11 DEF Greater
    <3> QED
      BY <3>2, <2>1, <1>14
  <2> QED
    BY <2>1, <2>3, <2>4
<1>16. Answered'
  <2>1. got' = 0 .. frontier' - 1 /\ AckFlow(acks', tp'.snd_una, frontier')
    BY <1>2, <1>5, <1>14 DEF Answered
  <2> QED
    BY <2>1, <1>14, <1>15 DEF Answered
<1>17. \E uu, nn : /\ Acked(tp, uu, Head(acks)) /\ TpOK(uu, wrote) /\ nn \in Nat
                   /\ nn = TxLen(uu, wrote) /\ uu.snd_nxt + nn <= wrote
                   /\ Sends(uu, tp', nn) /\ data' = data \o Segments(uu, nn)
  BY <1>4, <1>9, <1>10, <1>11, <1>12, <1>13
<1> QED
  BY <1>2, <1>4, <1>5, <1>16, <1>17

\* The kernel gave the connection up.
GivenUp == tp.closed /\ data = <<>> /\ acks = <<>>

\* The timer fires on a quiet wire: everything accepted is acknowledged.
LEMMA LadderTimeout ==
  ASSUME InductiveInv, Answered, KernelTimeout
  PROVE  /\ Answered' /\ data = <<>> /\ acks = <<>> /\ acks' = <<>>
         /\ tp.snd_una = frontier /\ frontier < tp.snd_max
         /\ clock' = clock + tcp_backoff[tp.t_rxtshift + 1]
         /\ UNCHANGED <<scenario, round, wrote, rules, got, frontier, drops, spent>>
         /\ \/ GivenUp'
            \/ /\ tp.t_rxtshift + 1 <= MaxShift
               /\ \E u, n : /\ Fired(tp, u) /\ Narrowed(tp, u) /\ TpOK(u, wrote) /\ n \in Nat
                            /\ n = TxLen(u, wrote) /\ Sends(u, tp', n) /\ data' = Segments(u, n)
<1>1. /\ tp \in Tcpcb /\ wrote \in Nat /\ frontier \in Nat
      /\ tp.snd_una \in Nat /\ tp.snd_max \in Nat
  BY LadderTypes
<1>2. /\ data = <<>> /\ acks = <<>> /\ tp.rexmt /\ ~ tp.closed
      /\ clock' = clock + tcp_backoff[tp.t_rxtshift + 1]
      /\ UNCHANGED <<scenario, round, wrote, acks, rules, got, frontier, drops, spent>>
  BY DEF KernelTimeout, Expire, peerVars
<1>3. tp.snd_una = frontier /\ frontier < tp.snd_max /\ got = 0 .. frontier - 1
  BY <1>2 DEF Answered, AckFlow
<1>4. PICK r \in RexmtTimeout(tp, wrote) : Adopt(r)
  BY DEF KernelTimeout
<1>5. Fit(tp, wrote)
  BY <1>2, InvFit
<1>6. AckFlow(acks', frontier', frontier') /\ got' = 0 .. frontier' - 1
  BY <1>1, <1>2, <1>3 DEF AckFlow
<1>7. CASE r = Quietly([tp EXCEPT !.closed = TRUE, !.rexmt = FALSE])
  <2>1. tp' = [tp EXCEPT !.closed = TRUE, !.rexmt = FALSE] /\ data' = <<>>
    BY <1>2, <1>4, <1>7 DEF Adopt, Quietly
  <2>2. /\ tp'.closed = TRUE /\ tp'.rexmt = FALSE /\ tp'.snd_una = tp.snd_una
        /\ tp'.fastrecovery = tp.fastrecovery
    BY <1>1, <2>1 DEF Tcpcb
  <2>3. GivenUp'
    BY <1>2, <2>1, <2>2 DEF GivenUp
  <2>4. Answered'
    <3>1. ~ tp'.rexmt /\ ~ tp'.fastrecovery
      BY <2>2 DEF Answered
    <3>2. AckFlow(acks', tp'.snd_una, frontier')
      BY <1>2, <1>3, <1>6, <2>2
    <3> QED
      BY <3>1, <3>2, <1>6 DEF Answered
  <2> QED
    BY <1>2, <1>3, <2>3, <2>4
<1>8. CASE /\ tp.t_rxtshift + 1 <= MaxShift
           /\ \E u : /\ Fired(tp, u) /\ Narrowed(tp, u) /\ TpOK(u, wrote)
                     /\ r = tcp_output([tp |-> u, sent |-> <<>>], wrote)
  <2>1. PICK u : /\ Fired(tp, u) /\ Narrowed(tp, u) /\ TpOK(u, wrote)
                 /\ r = tcp_output([tp |-> u, sent |-> <<>>], wrote)
    BY <1>8
  <2>2. PICK n : n = TxLen(u, wrote)
    OBVIOUS
  <2>3. /\ n \in Nat /\ Sends(u, r.tp, n) /\ r.sent = Segments(u, n) /\ u \in Tcpcb
    BY <1>1, <2>1, <2>2, OutputIs DEF TpOK
  <2>4. tp' = r.tp /\ data' = Segments(u, n)
    <3>1. tp' = r.tp /\ data' = <<>> \o Segments(u, n)
      BY <1>2, <1>4, <2>3 DEF Adopt
    <3>2. Segments(u, n) \in Seq(Seg)
      BY <2>3, SegmentsFacts
    <3> QED
      BY <3>1, <3>2
  <2>5. Sends(u, tp', n)
    BY <2>3, <2>4
  <2>6. /\ tp'.snd_una = tp.snd_una /\ ~ tp'.fastrecovery
        /\ tp'.snd_max = Greater(tp.snd_max, u.snd_nxt + n) /\ u.snd_nxt \in Nat
    BY <2>1, <2>3, <2>5, Nats DEF Sends, Fired
  <2>7. tp'.snd_una < tp'.snd_max
    BY <2>3, <2>6, <1>1, <1>3 DEF Greater
  <2>8. Answered'
    <3>1. AckFlow(acks', tp'.snd_una, frontier')
      BY <1>2, <1>3, <1>6, <2>6
    <3> QED
      BY <3>1, <2>6, <2>7, <1>6 DEF Answered
  <2>9. \E uu, nn : /\ Fired(tp, uu) /\ Narrowed(tp, uu) /\ TpOK(uu, wrote) /\ nn \in Nat
                    /\ nn = TxLen(uu, wrote) /\ Sends(uu, tp', nn) /\ data' = Segments(uu, nn)
    BY <2>1, <2>2, <2>3, <2>4, <2>5
  <2> QED
    BY <1>2, <1>3, <1>8, <2>8, <2>9
<1> QED
  BY <1>1, <1>4, <1>5, <1>7, <1>8, TimeoutIs

-----------------------------------------------------------------------------
(* The stages of the ladder; e is where the last segment starts *)

FullSize == tp.t_maxseg = MSS /\ tp.pmtud /\ ~ tp.blackhole
HeadFullOrNone == tp.t_pmtud_lastseg_size = 0 \/ tp.t_pmtud_lastseg_size > mssdflt

\* The first pass over the buffer, in full segments.
FirstTry(e) ==
    /\ drops = <<>> /\ clock = 0 /\ tp.t_rxtshift = 0 /\ FullSize /\ HeadFullOrNone
    /\ tp.snd_nxt = tp.snd_max /\ OnGrid(tp.snd_nxt, wrote)
    /\ Flow(data, frontier, tp.snd_nxt)
    /\ \A k \in 1 .. Len(data) : data[k].pos + data[k].len = wrote => data[k].pos = e

\* The last segment was lost; it was resent whole after the first timeout; that
\* was lost too.
TailLost(e) ==
    /\ drops = <<0>> /\ clock = 0 /\ tp.t_rxtshift = 0 /\ FullSize /\ HeadFullOrNone
    /\ frontier = e /\ Lost
TailResent(e) ==
    /\ drops = <<0>> /\ clock = 1 /\ tp.t_rxtshift = 1 /\ FullSize
    /\ tp.t_pmtud_lastseg_size > mssdflt /\ frontier = e /\ Resent
LostTwice(e) ==
    /\ Len(drops) = 2 /\ drops[2] = 1 /\ clock = 1 /\ tp.t_rxtshift = 1 /\ FullSize
    /\ tp.t_pmtud_lastseg_size > mssdflt /\ frontier = e /\ Lost /\ acks = <<>>

\* The second timeout was taken for a black hole: the tail goes out in parts, and
\* the ACK of a part other than the last one resets the backoff.
InParts ==
    /\ Len(drops) = 2 /\ drops[2] = 1 /\ clock = 3
    /\ tp.t_maxseg = mssdflt /\ tp.snd_cwnd >= mssdflt
    /\ tp.snd_una < tp.snd_nxt /\ tp.snd_max = wrote
    /\ Flow(data, frontier, tp.snd_nxt)
    /\ \A k \in 1 .. Len(data) : data[k].len <= mssdflt
    /\ \/ tp.t_rxtshift = 0 /\ tp.t_pmtud_lastseg_size <= mssdflt
       \/ tp.t_rxtshift = 2 /\ tp.snd_nxt < wrote

\* What is missing is small, and so is the head segment: no black hole any more.
SmallPart ==
    /\ tp.t_pmtud_lastseg_size <= mssdflt /\ tp.snd_cwnd >= mssdflt
    /\ wrote <= frontier + mssdflt

\* The last part was lost for the t_rxtshift + 1st time, and was resent.
PartLost ==
    /\ Len(drops) = 3 + tp.t_rxtshift /\ clock = drops[Len(drops)] /\ Lost /\ SmallPart
    /\ tp.t_rxtshift > 0 => acks = <<>>
PartResent ==
    /\ tp.t_rxtshift > 0 /\ Len(drops) = 2 + tp.t_rxtshift
    /\ clock = drops[Len(drops)] + tcp_backoff[tp.t_rxtshift] /\ Resent /\ SmallPart

\* Everything arrived.
Arrived == data = <<>> /\ frontier = wrote /\ tp.snd_nxt = wrote

Stage(e) ==
    \/ FirstTry(e) \/ TailLost(e) \/ TailResent(e) \/ LostTwice(e)
    \/ InParts \/ PartLost \/ PartResent \/ Arrived \/ GivenUp
Running(e) ==
    /\ round = 1 /\ Len(scenario) = 1 /\ TailAt(e, wrote)
    /\ InStep /\ LastByte /\ Answered /\ Stage(e)

\* Before the write.
Fresh ==
    /\ round = 0 /\ wrote = 0 /\ tp = Established /\ data = <<>> /\ acks = <<>>
    /\ got = {} /\ frontier = 0 /\ rules = <<>> /\ drops = <<>> /\ clock = 0

\* The experiment writes one round: some full segments and a last one that needs
\* more than mssdflt, with a rule on the last byte.
IsLadder(sc) ==
    \E m \in Nat, t \in mssdflt + 1 .. MSS, n \in Nat :
        sc = <<[bytes |-> m * MSS + t, rules |-> <<NewRule(m * MSS + t - 1, m * MSS + t, n)>>]>>

\* The other experiments lose a segment at most twice.
FewLosses(rs) == \A k \in 1 .. Len(rs) : rs[k].times <= 2
LadderOrFew ==
    \A sc \in Scenarios : IsLadder(sc) \/ \A k \in 1 .. Len(sc) : FewLosses(sc[k].rules)

\* The inductive invariant: the ladder is at one of its stages, as long as every
\* ACK was written; the other experiments have no rule that makes a ladder.
LadderInv ==
    IF IsLadder(scenario) THEN spent.fail = 0 => Fresh \/ \E e \in Nat : Running(e)
    ELSE FewLosses(rules)

\* One more drop keeps the step, when it comes after the right gap.
LEMMA InStepAppend ==
  ASSUME NEW q \in Seq(Nat), NEW c \in Nat,
         \A k \in 1 .. Len(q) - 1 : q[k + 1] - q[k] = Gaps[k],
         q # <<>> => c - q[Len(q)] = Gaps[Len(q)]
  PROVE  \A k \in 1 .. Len(Append(q, c)) - 1 : Append(q, c)[k + 1] - Append(q, c)[k] = Gaps[k]
<1>1. PICK n \in Nat : n = Len(q)
  OBVIOUS
<1>2. PICK s : s = Append(q, c)
  OBVIOUS
<1>3. /\ Len(s) = n + 1 /\ s[n + 1] = c /\ (n > 0 => q # <<>>)
      /\ \A k \in 1 .. n : s[k] = q[k]
  BY <1>1, <1>2
<1>4. ASSUME NEW k \in 1 .. n PROVE s[k + 1] - s[k] = Gaps[k]
  <2>1. CASE k < n
    <3>1. k + 1 \in 1 .. n /\ k \in 1 .. Len(q) - 1
      BY <2>1, <1>1
    <3> QED
      BY <3>1, <1>3
  <2>2. CASE k = n
    BY <2>2, <1>1, <1>3
  <2> QED
    BY <2>1, <2>2
<1> QED
  BY <1>2, <1>3, <1>4

\* The table that the drops follow.
LEMMA GapsAre ==
  /\ Gaps[1] = 1 /\ Gaps[2] = 2
  /\ \A k \in 1 .. 13 : Gaps[2 + k] = tcp_backoff[k] /\ tcp_backoff[k] \in Nat
  /\ tcp_backoff[1] = 1 /\ tcp_backoff[2] = 2
<1>1. PICK b \in Seq(Nat), n \in Nat : b = tcp_backoff /\ n = Len(b) /\ n = 13
  <2>1. tcp_backoff \in Seq(Nat) /\ Len(tcp_backoff) = 13
    BY DEF tcp_backoff
  <2> QED
    BY <2>1
<1>2. PICK a \in Seq(Nat), m \in Nat : a = <<1, 2>> /\ m = Len(a) /\ m = 2
  <2>1. <<1, 2>> \in Seq(Nat) /\ Len(<<1, 2>>) = 2
    OBVIOUS
  <2>2. PICK x : x = <<1, 2>>
    OBVIOUS
  <2>3. x \in Seq(Nat) /\ Len(x) = 2
    BY <2>1, <2>2
  <2> QED
    BY <2>2, <2>3
<1>3. PICK g : g = a \o b
  OBVIOUS
<1>4. Len(a) = m /\ Len(b) = n
  BY <1>1, <1>2
<1>5. \A k \in 1 .. m : g[k] = a[k]
  <2>1. SUFFICES ASSUME NEW k \in 1 .. m PROVE (a \o b)[k] = a[k]
    BY <1>3
  <2>2. k \in 1 .. Len(a) /\ k \in 1 .. Len(a) + Len(b)
    BY <1>4
  <2> QED
    BY <2>2
<1>6. \A k \in 1 .. n : g[m + k] = b[k]
  BY ONLY <1>3, <1>4, a \in Seq(Nat), b \in Seq(Nat), m \in Nat, n \in Nat
<1>7. \A k \in 1 .. n : b[k] \in Nat
  BY ONLY <1>4, b \in Seq(Nat), n \in Nat
<1>8. Gaps = g
  BY <1>1, <1>2, <1>3 DEF Gaps
<1>9. a[1] = 1 /\ a[2] = 2 /\ b[1] = 1 /\ b[2] = 2
  BY <1>1, <1>2 DEF tcp_backoff
<1>10. \A k \in 1 .. 13 : Gaps[2 + k] = tcp_backoff[k] /\ tcp_backoff[k] \in Nat
  BY <1>1, <1>2, <1>6, <1>7, <1>8
<1>11. 1 \in 1 .. m /\ 2 \in 1 .. m
  BY <1>2
<1> QED
  BY <1>1, <1>5, <1>8, <1>9, <1>10, <1>11

\* The end of an extended sequence.
LEMMA AppendIs ==
  ASSUME NEW q \in Seq(Nat), NEW c \in Nat
  PROVE  Len(Append(q, c)) = Len(q) + 1 /\ Append(q, c)[Len(q) + 1] = c
OBVIOUS

\* The resent part is a flow of one segment.
LEMMA ResentFlow ==
  ASSUME frontier \in Nat, wrote \in Nat, Resent
  PROVE  /\ Flow(data, frontier, wrote) /\ data # <<>> /\ Len(data) = 1
         /\ data[1].pos = frontier /\ data[1].len = wrote - frontier
<1>1. PICK s : s = [pos |-> frontier, len |-> wrote - frontier]
  OBVIOUS
<1>2. s \in Seg /\ s.pos = frontier /\ s.len = wrote - frontier /\ frontier < wrote
  BY <1>1 DEF Seg, Resent
<1>3. data = <<s>>
  BY <1>1 DEF Resent
<1>4. data \in Seq(Seg) /\ Len(data) = 1 /\ data[1] = s /\ data # <<>>
  BY <1>2, <1>3
<1>5. s.pos + s.len = wrote /\ frontier <= wrote /\ wrote <= wrote
  BY <1>2
<1>6. \A k \in 1 .. 1 : data[k] = s
  BY <1>4
<1>7. 1 .. 1 - 1 = {}
  OBVIOUS
<1>8. Flow(data, frontier, wrote)
  BY <1>2, <1>4, <1>5, <1>6, <1>7 DEF Flow
<1> QED
  BY <1>2, <1>4, <1>8

\* What no step after the write changes.
LEMMA StageFrame ==
  ASSUME NEW e \in Nat, Running(e), UNCHANGED <<scenario, round, wrote>>
  PROVE  round' = 1 /\ Len(scenario') = 1 /\ TailAt(e, wrote')
BY DEF Running

\* The peer accepts a segment.
LEMMA StageAccept ==
  ASSUME InductiveInv, NEW e \in Nat, Running(e), PeerAccept(FALSE)
  PROVE  Running(e)'
<1>1. /\ tp \in Tcpcb /\ wrote \in Nat /\ frontier \in Nat /\ tp.snd_nxt \in Nat
  BY LadderTypes
<1>2. data # <<>> /\ Answered /\ LastByte /\ InStep
  BY DEF PeerAccept, Running
<1>3. Flow(data, frontier, tp.snd_nxt) /\ (FirstTry(e) \/ InParts \/ TailResent(e) \/ PartResent)
  <2>1. FirstTry(e) \/ InParts \/ TailResent(e) \/ PartResent
    BY <1>2 DEF Running, Stage, TailLost, LostTwice, PartLost, Arrived, GivenUp, Lost
  <2>2. FirstTry(e) \/ InParts => Flow(data, frontier, tp.snd_nxt)
    BY DEF FirstTry, InParts
  <2>3. TailResent(e) \/ PartResent => Flow(data, frontier, tp.snd_nxt)
    <3>1. TailResent(e) \/ PartResent => Resent /\ tp.snd_nxt = wrote
      BY DEF TailResent, PartResent, Resent
    <3> QED
      BY <3>1, <1>1, ResentFlow
  <2> QED
    BY <2>1, <2>2, <2>3
<1>4. /\ Answered' /\ Flow(data', frontier', tp'.snd_nxt)
      /\ UNCHANGED <<scenario, round, wrote, tp, rules, drops, clock, spent>>
      /\ frontier' = frontier + data[1].len /\ Len(data') = Len(data) - 1
      /\ \A k \in 1 .. Len(data') : data'[k] = data[k + 1] /\ k + 1 \in 1 .. Len(data)
  BY <1>2, <1>3, LadderAccept
<1>5. round' = 1 /\ Len(scenario') = 1 /\ TailAt(e, wrote') /\ InStep' /\ LastByte'
  BY <1>2, <1>4, StageFrame DEF InStep, LastByte
<1>6. CASE FirstTry(e)
  <2>1. FirstTry(e)'
    BY <1>4, <1>6 DEF FirstTry, FullSize, HeadFullOrNone
  <2> QED
    BY <2>1, <1>4, <1>5 DEF Running, Stage
<1>7. CASE InParts
  <2>1. InParts'
    BY <1>4, <1>7 DEF InParts
  <2> QED
    BY <2>1, <1>4, <1>5 DEF Running, Stage
<1>8. CASE TailResent(e) \/ PartResent
  <2>1. Resent /\ tp.snd_nxt = wrote
    BY <1>8 DEF TailResent, PartResent, Resent
  <2>2. Len(data) = 1 /\ data[1].len = wrote - frontier
    BY <2>1, <1>1, ResentFlow
  <2>3. frontier' = wrote' /\ Len(data') = 0 /\ tp'.snd_nxt = wrote'
    BY <1>1, <1>4, <2>1, <2>2
  <2>4. data' = <<>>
    BY <2>3, <1>4 DEF Flow
  <2>5. Arrived'
    BY <2>3, <2>4 DEF Arrived
  <2> QED
    BY <2>5, <1>4, <1>5 DEF Running, Stage
<1> QED
  BY <1>3, <1>6, <1>7, <1>8

\* The rule takes a segment.
LEMMA StageDrop ==
  ASSUME InductiveInv, NEW e \in Nat, Running(e), PeerDrop
  PROVE  Running(e)'
<1>1. /\ tp \in Tcpcb /\ wrote \in Nat /\ frontier \in Nat /\ tp.snd_nxt \in Nat
      /\ clock \in Nat /\ drops \in Seq(Nat) /\ tp.t_rxtshift \in Nat
      /\ tp.t_rxtshift <= MaxShift /\ MaxShift <= 12
  BY LadderTypes
<1>2. data # <<>> /\ Answered /\ LastByte /\ InStep
  BY DEF PeerDrop, Running
<1>3. Flow(data, frontier, tp.snd_nxt) /\ (FirstTry(e) \/ InParts \/ TailResent(e) \/ PartResent)
  <2>1. FirstTry(e) \/ InParts \/ TailResent(e) \/ PartResent
    BY <1>2 DEF Running, Stage, TailLost, LostTwice, PartLost, Arrived, GivenUp, Lost
  <2>2. FirstTry(e) \/ InParts => Flow(data, frontier, tp.snd_nxt)
    BY DEF FirstTry, InParts
  <2>3. TailResent(e) \/ PartResent => Flow(data, frontier, tp.snd_nxt)
    <3>1. TailResent(e) \/ PartResent => Resent /\ tp.snd_nxt = wrote
      BY DEF TailResent, PartResent, Resent
    <3> QED
      BY <3>1, <1>1, ResentFlow
  <2> QED
    BY <2>1, <2>2, <2>3
<1>4. /\ Answered' /\ LastByte' /\ Lost' /\ tp.snd_nxt = wrote /\ tp.snd_max = wrote
      /\ 1 \in 1 .. Len(data) /\ data[1] \in Seg
      /\ data[1].pos = frontier /\ data[1].pos + data[1].len = wrote
      /\ drops' = Append(drops, clock)
      /\ UNCHANGED <<scenario, round, wrote, tp, acks, got, frontier, clock, spent>>
  BY <1>2, <1>3, LadderDrop
<1>5. round' = 1 /\ Len(scenario') = 1 /\ TailAt(e, wrote')
  BY <1>4, StageFrame
<1>6. ASSUME drops # <<>> => clock - drops[Len(drops)] = Gaps[Len(drops)]
      PROVE  InStep'
  <2>1. \A k \in 1 .. Len(Append(drops, clock)) - 1 :
           Append(drops, clock)[k + 1] - Append(drops, clock)[k] = Gaps[k]
    BY <1>1, <1>2, <1>6, InStepAppend DEF InStep
  <2> QED
    BY <2>1, <1>4 DEF InStep
<1>7. CASE FirstTry(e)
  <2>1. drops = <<>> /\ clock = 0 /\ frontier = e
    BY <1>4, <1>7 DEF FirstTry
  <2>2. drops' = <<0>> /\ InStep'
    BY <2>1, <1>4, <1>6
  <2>3. TailLost(e)'
    BY <2>1, <2>2, <1>4, <1>7 DEF FirstTry, TailLost, FullSize, HeadFullOrNone
  <2> QED
    BY <2>2, <2>3, <1>4, <1>5 DEF Running, Stage
<1>8. CASE TailResent(e)
  <2>1. drops = <<0>> /\ clock = 1 /\ acks = <<>>
    BY <1>8 DEF TailResent, Resent
  <2>2. Len(drops) = 1 /\ drops[Len(drops)] = 0
    BY <2>1
  <2>3. Len(drops') = 2 /\ drops'[2] = 1 /\ InStep'
    <3>1. clock - drops[Len(drops)] = Gaps[Len(drops)]
      BY <2>1, <2>2, GapsAre
    <3>2. Len(drops') = 1 + 1 /\ drops'[1 + 1] = 1
      BY <2>1, <2>2, <1>1, <1>4, AppendIs
    <3> QED
      BY <3>1, <3>2, <1>6
  <2>4. LostTwice(e)'
    BY <2>1, <2>3, <1>4, <1>8 DEF TailResent, LostTwice, FullSize
  <2> QED
    BY <2>3, <2>4, <1>4, <1>5 DEF Running, Stage
<1>9. CASE InParts
  <2>1. Len(drops) = 2 /\ drops[2] = 1 /\ clock = 3
    BY <1>9 DEF InParts
  <2>2. drops[Len(drops)] = 1
    BY <2>1
  <2>3. InStep'
    <3>1. clock - drops[Len(drops)] = Gaps[Len(drops)]
      BY <2>1, <2>2, GapsAre
    <3> QED
      BY <3>1, <1>6
  <2>4. Len(drops') = 3 /\ drops'[3] = 3
    <3>1. Len(drops') = 2 + 1 /\ drops'[2 + 1] = 3
      BY <2>1, <1>1, <1>4, AppendIs
    <3> QED
      BY <3>1
  <2>5. tp.t_rxtshift = 0 /\ tp.t_pmtud_lastseg_size <= mssdflt /\ tp.snd_cwnd >= mssdflt
        /\ data[1].len <= mssdflt
    BY <1>1, <1>4, <1>9 DEF InParts
  <2>6. wrote <= frontier + mssdflt
    <3>1. data[1].len \in Nat /\ mssdflt \in Nat
      BY <1>4, SenderAssumption DEF Seg
    <3> QED
      BY <3>1, <2>5, <1>1, <1>4
  <2>7. PartLost'
    <3>1. SmallPart'
      BY <2>5, <2>6, <1>4 DEF SmallPart
    <3>2. tp'.t_rxtshift = 0 /\ Len(drops') = 3 + tp'.t_rxtshift /\ clock' = drops'[Len(drops')]
      BY <2>1, <2>4, <2>5, <1>4
    <3>3. ~ (tp'.t_rxtshift > 0)
      BY <3>2
    <3> QED
      BY <3>1, <3>2, <3>3, <1>4 DEF PartLost
  <2> QED
    BY <2>3, <2>7, <1>4, <1>5 DEF Running, Stage
<1>10. CASE PartResent
  <2>1. PICK s \in Nat : s = tp.t_rxtshift /\ s > 0 /\ s <= 12 /\ s \in 1 .. 13
    <3>1. tp.t_rxtshift > 0 /\ MaxShift \in Nat
      BY <1>10, SenderAssumption DEF PartResent
    <3> QED
      BY <3>1, <1>1
  <2>2. /\ Len(drops) = 2 + s /\ clock = drops[Len(drops)] + tcp_backoff[s]
        /\ acks = <<>> /\ SmallPart
    BY <2>1, <1>10 DEF PartResent, Resent
  <2>3. /\ Gaps[2 + s] = tcp_backoff[s] /\ tcp_backoff[s] \in Nat /\ drops[Len(drops)] \in Nat
    <3>1. Len(drops) \in 1 .. Len(drops)
      BY <2>1, <2>2
    <3>2. drops[Len(drops)] \in Nat
      BY <3>1, <1>1
    <3> QED
      BY <3>2, <2>1, GapsAre
  <2>4. InStep'
    <3>1. clock - drops[Len(drops)] = Gaps[Len(drops)]
      BY <2>2, <2>3
    <3> QED
      BY <3>1, <1>6
  <2>5. Len(drops') = 3 + s /\ drops'[Len(drops')] = clock
    <3>1. PICK n \in Nat : n = Len(drops) /\ n = 2 + s
      BY <2>1, <2>2
    <3>2. Len(drops') = n + 1 /\ drops'[n + 1] = clock
      BY <1>1, <1>4, <3>1, AppendIs
    <3> QED
      BY <3>1, <3>2, <2>1
  <2>6. PartLost'
    <3>1. SmallPart'
      BY <2>2, <1>4 DEF SmallPart
    <3> QED
      BY <3>1, <2>1, <2>2, <2>5, <1>4 DEF PartLost
  <2> QED
    BY <2>4, <2>6, <1>4, <1>5 DEF Running, Stage
<1> QED
  BY <1>3, <1>7, <1>8, <1>9, <1>10

\* A segment of two sequences together is one of either.
LEMMA ConcatAll ==
  ASSUME NEW p \in Seq(Seg), NEW q \in Seq(Seg), NEW k \in 1 .. Len(p \o q)
  PROVE  \/ \E i \in 1 .. Len(p) : (p \o q)[k] = p[i]
         \/ \E i \in 1 .. Len(q) : (p \o q)[k] = q[i]
<1>1. Len(p \o q) = Len(p) + Len(q) /\ Len(p) \in Nat /\ Len(q) \in Nat
  OBVIOUS
<1>2. CASE k <= Len(p)
  <2>1. k \in 1 .. Len(p) /\ (p \o q)[k] = p[k]
    BY <1>1, <1>2
  <2> QED
    BY <2>1
<1>3. CASE k > Len(p)
  <2>1. k - Len(p) \in 1 .. Len(q) /\ (p \o q)[k] = q[k - Len(p)]
    BY <1>1, <1>3
  <2> QED
    BY <2>1
<1>4. k <= Len(p) \/ k > Len(p)
  BY <1>1
<1> QED
  BY <1>2, <1>3, <1>4, Zenon

\* A flow from a position to itself.
LEMMA FlowEmpty ==
  ASSUME NEW a \in Nat, NEW q, Flow(q, a, a)
  PROVE  q = <<>>
<1>1. SUFFICES ASSUME q # <<>> PROVE FALSE
  OBVIOUS
<1>2. q \in Seq(Seg)
  BY DEF Flow
<1>3. 1 \in 1 .. Len(q) /\ q[1] \in Seg
  BY <1>1, <1>2
<1>4. q[1].pos = a /\ q[1].pos + q[1].len <= a
  BY <1>1, <1>3 DEF Flow
<1> QED
  BY <1>3, <1>4 DEF Seg

\* An ACK with the whole buffer sent.
LEMMA QuietAck ==
  ASSUME InductiveInv, Answered, KernelAck, frontier <= wrote, tp.snd_nxt = wrote, data = <<>>
  PROVE  /\ Answered' /\ data' = <<>>
         /\ UNCHANGED <<scenario, round, wrote, rules, got, frontier, drops, clock, spent>>
         /\ tp'.snd_nxt = wrote /\ tp'.snd_max = wrote
         /\ tp'.t_rxtshift = 0 /\ tp'.t_pmtud_lastseg_size = 0
         /\ tp'.snd_cwnd >= tp.snd_cwnd /\ tp'.t_maxseg = tp.t_maxseg
         /\ tp'.pmtud = tp.pmtud /\ tp'.blackhole = tp.blackhole
<1>1. /\ tp \in Tcpcb /\ wrote \in Nat /\ tp.snd_nxt \in Nat /\ tp.snd_max \in Nat
      /\ tp.snd_nxt <= tp.snd_max /\ tp.snd_max <= wrote
  BY LadderTypes
<1>2. /\ Answered'
      /\ UNCHANGED <<scenario, round, wrote, rules, got, frontier, drops, clock, spent>>
      /\ \E u, n : /\ Acked(tp, u, Head(acks)) /\ TpOK(u, wrote) /\ n \in Nat
                   /\ n = TxLen(u, wrote) /\ u.snd_nxt + n <= wrote
                   /\ Sends(u, tp', n) /\ data' = data \o Segments(u, n)
  BY <1>1, LadderAck
<1>3. PICK u, n : /\ Acked(tp, u, Head(acks)) /\ TpOK(u, wrote) /\ n \in Nat
                  /\ n = TxLen(u, wrote)
                  /\ Sends(u, tp', n) /\ data' = data \o Segments(u, n)
  BY <1>2
<1>4. u \in Tcpcb /\ u.snd_nxt = wrote /\ tp.snd_max = wrote
  BY <1>1, <1>3 DEF Acked
<1>5. n = 0
  BY <1>1, <1>3, <1>4, TxNothing
<1>6. data' = <<>>
  <2>1. Segments(u, n) = <<>>
    BY <1>4, <1>5, SegmentsFlow
  <2> QED
    BY <2>1, <1>3
<1>7. ~ (n > 0) /\ wrote + n = wrote /\ Greater(wrote, wrote) = wrote
  BY <1>1, <1>5 DEF Greater
<1>8. /\ tp'.snd_nxt = wrote /\ tp'.snd_max = wrote
      /\ tp'.t_rxtshift = 0 /\ tp'.t_pmtud_lastseg_size = 0
      /\ tp'.snd_cwnd >= tp.snd_cwnd /\ tp'.t_maxseg = tp.t_maxseg
      /\ tp'.pmtud = tp.pmtud /\ tp'.blackhole = tp.blackhole
  BY <1>3, <1>4, <1>7 DEF Sends, Acked
<1> QED
  BY <1>2, <1>6, <1>8

\* The kernel takes in an ACK.
LEMMA StageAck ==
  ASSUME InductiveInv, NEW e \in Nat, Running(e), KernelAck
  PROVE  Running(e)'
<1>1. /\ tp \in Tcpcb /\ wrote \in Nat /\ frontier \in Nat
      /\ tp.snd_una \in Nat /\ tp.snd_nxt \in Nat /\ tp.snd_max \in Nat /\ data \in Seq(Seg)
      /\ tp.snd_nxt <= tp.snd_max /\ tp.snd_max <= wrote
  BY LadderTypes
<1>2. Answered /\ LastByte /\ InStep /\ acks # <<>> /\ TailAt(e, wrote)
  BY DEF Running, KernelAck, TakeAck
<1>3. ASSUME UNCHANGED <<scenario, round, wrote, rules, drops>>
      PROVE  round' = 1 /\ Len(scenario') = 1 /\ TailAt(e, wrote') /\ InStep' /\ LastByte'
  BY <1>2, <1>3, StageFrame DEF InStep, LastByte
<1>4. FirstTry(e) \/ InParts \/ TailLost(e) \/ PartLost \/ Arrived
  BY <1>2 DEF Running, Stage, TailResent, LostTwice, PartResent, GivenUp, Resent
<1>5. MSS \in Nat \ {0} /\ mssdflt \in Nat \ {0} /\ Window \in Nat \ {0}
  BY SenderAssumption
<1>6. CASE TailLost(e)
  <2>1. data = <<>> /\ tp.snd_nxt = wrote /\ tp.snd_max = wrote /\ frontier < wrote
    BY <1>6 DEF TailLost, Lost
  <2>2. /\ Answered' /\ data' = <<>>
        /\ UNCHANGED <<scenario, round, wrote, rules, got, frontier, drops, clock, spent>>
        /\ tp'.snd_nxt = wrote /\ tp'.snd_max = wrote
        /\ tp'.t_rxtshift = 0 /\ tp'.t_pmtud_lastseg_size = 0
        /\ tp'.snd_cwnd >= tp.snd_cwnd /\ tp'.t_maxseg = tp.t_maxseg
        /\ tp'.pmtud = tp.pmtud /\ tp'.blackhole = tp.blackhole
    BY <2>1, <1>1, <1>2, QuietAck
  <2>3. TailLost(e)'
    BY <2>1, <2>2, <1>6 DEF TailLost, Lost, FullSize, HeadFullOrNone
  <2> QED
    BY <2>2, <2>3, <1>3 DEF Running, Stage
<1>7. CASE PartLost
  <2>1. /\ data = <<>> /\ tp.snd_nxt = wrote /\ tp.snd_max = wrote /\ frontier < wrote
        /\ tp.snd_cwnd >= mssdflt /\ ~ (tp.t_rxtshift > 0) /\ tp.t_rxtshift \in Nat
    BY <1>1, <1>2, <1>7, Nats DEF PartLost, Lost, SmallPart
  <2>2. /\ Answered' /\ data' = <<>>
        /\ UNCHANGED <<scenario, round, wrote, rules, got, frontier, drops, clock, spent>>
        /\ tp'.snd_nxt = wrote /\ tp'.snd_max = wrote
        /\ tp'.t_rxtshift = 0 /\ tp'.t_pmtud_lastseg_size = 0
        /\ tp'.snd_cwnd >= tp.snd_cwnd
    BY <2>1, <1>1, <1>2, QuietAck
  <2>3. tp.t_rxtshift = 0 /\ ~ (0 > 0) /\ 0 <= mssdflt
    BY <2>1, <1>5
  <2>4. tp'.snd_cwnd >= mssdflt
    <3>1. tp' \in Tcpcb
      BY AckStep DEF InductiveInv, TypeOK
    <3> QED
      BY <3>1, <2>1, <2>2, <1>1, <1>5, Nats
  <2>5. Lost'
    BY <2>1, <2>2 DEF Lost
  <2>6. SmallPart'
    BY <2>2, <2>3, <2>4, <1>7 DEF SmallPart, PartLost
  <2>7. Len(drops') = 3 + tp'.t_rxtshift /\ clock' = drops'[Len(drops')]
    BY <2>2, <2>3, <1>7 DEF PartLost
  <2>8. PartLost'
    BY <2>2, <2>3, <2>5, <2>6, <2>7 DEF PartLost
  <2> QED
    BY <2>2, <2>8, <1>3 DEF Running, Stage
<1>8. ASSUME data = <<>>, frontier = wrote, tp.snd_nxt = wrote
      PROVE  Running(e)'
  <2>1. /\ Answered' /\ data' = <<>>
        /\ UNCHANGED <<scenario, round, wrote, rules, got, frontier, drops, clock, spent>>
        /\ tp'.snd_nxt = wrote
    BY <1>8, <1>1, <1>2, QuietAck
  <2>2. Arrived'
    BY <2>1, <1>8 DEF Arrived
  <2> QED
    BY <2>1, <2>2, <1>3 DEF Running, Stage
<1>9. CASE FirstTry(e)
  <2>1. Flow(data, frontier, tp.snd_nxt) /\ frontier <= tp.snd_nxt
    BY <1>9 DEF FirstTry, Flow
  <2>2. /\ Answered'
        /\ UNCHANGED <<scenario, round, wrote, rules, got, frontier, drops, clock, spent>>
        /\ \E u, n : /\ Acked(tp, u, Head(acks)) /\ TpOK(u, wrote) /\ n \in Nat
                     /\ n = TxLen(u, wrote) /\ u.snd_nxt + n <= wrote
                     /\ Sends(u, tp', n) /\ data' = data \o Segments(u, n)
    BY <2>1, <1>2, LadderAck
  <2>3. PICK u, n : /\ Acked(tp, u, Head(acks)) /\ TpOK(u, wrote) /\ n \in Nat
                    /\ n = TxLen(u, wrote)
                    /\ Sends(u, tp', n) /\ data' = data \o Segments(u, n)
    BY <2>2
  <2>4. PICK S : S = Segments(u, n)
    OBVIOUS
  <2>5. /\ u \in Tcpcb /\ u.snd_nxt = tp.snd_nxt /\ u.snd_max = tp.snd_max
        /\ u.t_maxseg = MSS /\ tp.snd_nxt = tp.snd_max /\ OnGrid(tp.snd_nxt, wrote)
        /\ u.t_pmtud_lastseg_size = 0
    BY <2>3, <1>9 DEF Acked, FirstTry, FullSize
  <2>6. /\ OnGrid(tp.snd_nxt + n, wrote)
        /\ \A k \in 1 .. Len(S) : S[k].pos + S[k].len = wrote => S[k].pos = e
        /\ n > 0 => Lesser(MSS, n) > mssdflt
    BY <2>3, <2>4, <2>5, <1>1, <1>2, FirstPass
  <2>7. Flow(S, tp.snd_nxt, tp.snd_nxt + n) /\ S \in Seq(Seg)
    BY <2>3, <2>4, <2>5, SegmentsFlow DEF Flow
  <2>8. tp.snd_nxt + n \in Nat
    BY <2>3, <1>1
  <2>9. Flow(data', frontier, tp.snd_nxt + n)
    BY <2>1, <2>3, <2>4, <2>7, <2>8, <1>1, FlowJoin
  <2>10. ASSUME NEW k \in 1 .. Len(data'), data'[k].pos + data'[k].len = wrote
         PROVE  data'[k].pos = e
    <3>1. \/ \E i \in 1 .. Len(data) : data'[k] = data[i]
          \/ \E i \in 1 .. Len(S) : data'[k] = S[i]
      BY <2>3, <2>4, <2>7, <1>1, ConcatAll
    <3> QED
      BY <3>1, <2>6, <2>10, <1>9 DEF FirstTry
  <2>11. /\ tp'.snd_nxt = tp.snd_nxt + n /\ tp'.snd_max = Greater(tp.snd_max, tp.snd_nxt + n)
         /\ tp'.t_rxtshift = 0 /\ tp'.t_maxseg = MSS
         /\ tp'.pmtud = tp.pmtud /\ tp'.blackhole = tp.blackhole
         /\ tp'.t_pmtud_lastseg_size \in {0, IF n > 0 THEN Lesser(MSS, n) ELSE 0}
    BY <2>3, <2>5 DEF Sends, Acked
  <2>12. tp'.snd_max = tp'.snd_nxt
    BY <2>3, <2>5, <2>11, <1>1 DEF Greater
  <2>13. tp'.t_pmtud_lastseg_size = 0 \/ tp'.t_pmtud_lastseg_size > mssdflt
    BY <2>6, <2>11
  <2>14. FirstTry(e)'
    <3>1. FullSize' /\ HeadFullOrNone'
      BY <2>11, <2>13, <1>9 DEF FirstTry, FullSize, HeadFullOrNone
    <3>2. drops' = <<>> /\ clock' = 0 /\ tp'.t_rxtshift = 0
      BY <2>2, <2>11, <1>9 DEF FirstTry
    <3>3. OnGrid(tp'.snd_nxt, wrote') /\ Flow(data', frontier', tp'.snd_nxt)
      BY <2>2, <2>6, <2>9, <2>11
    <3>4. \A k \in 1 .. Len(data') : data'[k].pos + data'[k].len = wrote' => data'[k].pos = e
      BY <2>2, <2>10
    <3> QED
      BY <3>1, <3>2, <3>3, <3>4, <2>12 DEF FirstTry
  <2> QED
    BY <2>2, <2>14, <1>3 DEF Running, Stage
<1>10. CASE InParts
  <2>1. Flow(data, frontier, tp.snd_nxt) /\ frontier <= tp.snd_nxt
    BY <1>10 DEF InParts, Flow
  <2>2. /\ Answered'
        /\ UNCHANGED <<scenario, round, wrote, rules, got, frontier, drops, clock, spent>>
        /\ Head(acks) \in Nat /\ tp.snd_una < Head(acks) /\ Head(acks) <= frontier
        /\ \E u, n : /\ Acked(tp, u, Head(acks)) /\ TpOK(u, wrote) /\ n \in Nat
                     /\ n = TxLen(u, wrote) /\ u.snd_nxt + n <= wrote
                     /\ Sends(u, tp', n) /\ data' = data \o Segments(u, n)
    BY <2>1, <1>2, LadderAck
  <2>3. PICK ack \in Nat : ack = Head(acks) /\ ack <= frontier
    BY <2>2
  <2>4. CASE ack = wrote
    <3>1. frontier = wrote /\ tp.snd_nxt = wrote
      BY <2>1, <2>3, <2>4, <1>1
    <3>2. data = <<>>
      BY <2>1, <3>1, <1>1, FlowEmpty
    <3> QED
      BY <3>1, <3>2, <1>8
  <2>5. CASE ack # wrote
    <3>1. PICK u, n : /\ Acked(tp, u, ack) /\ TpOK(u, wrote) /\ n \in Nat
                      /\ n = TxLen(u, wrote) /\ u.snd_nxt + n <= wrote
                      /\ Sends(u, tp', n) /\ data' = data \o Segments(u, n)
      BY <2>2, <2>3
    <3>2. PICK S : S = Segments(u, n)
      OBVIOUS
    <3>3. /\ tp.t_maxseg = mssdflt /\ tp.snd_cwnd >= mssdflt /\ tp.snd_max = wrote
      BY <1>10 DEF InParts
    <3>4. /\ u \in Tcpcb /\ u.snd_una = ack /\ u.snd_nxt = tp.snd_nxt /\ u.snd_max = wrote
          /\ u.t_maxseg = mssdflt /\ u.t_pmtud_lastseg_size = 0 /\ u.t_rxtshift = 0
          /\ u.snd_cwnd >= tp.snd_cwnd
      BY <3>1, <3>3 DEF Acked
    <3>5. u.snd_cwnd >= mssdflt /\ u.snd_cwnd \in Nat
      <4>1. u.snd_cwnd \in Nat /\ tp.snd_cwnd \in Nat
        BY <3>4, <1>1, Nats
      <4> QED
        BY <4>1, <3>3, <3>4, <1>5
    <3>6. ack < tp.snd_nxt + n
      <4>1. CASE ack < tp.snd_nxt
        BY <4>1, <3>1, <1>1
      <4>2. CASE ack >= tp.snd_nxt
        <5>1. ack = tp.snd_nxt /\ ack < wrote
          BY <4>2, <2>1, <2>3, <2>5, <1>1
        <5>2. OpenLen(u, wrote) > 0
          <6>1. wrote - ack > 0 /\ u.snd_nxt - u.snd_una = 0
            BY <5>1, <3>4, <1>1
          <6>2. u.snd_cwnd > 0
            BY <3>5, <1>5
          <6> QED
            BY <6>1, <6>2, <3>4, <3>5, <1>1, <1>5 DEF OpenLen, Lesser
        <5>3. n > 0
          BY <5>1, <5>2, <3>1, <3>4, <1>1, TxLenFacts DEF TpOK
        <5> QED
          BY <5>1, <5>3, <3>1
      <4> QED
        BY <4>1, <4>2, <1>1
    <3>7. /\ Flow(S, tp.snd_nxt, tp.snd_nxt + n) /\ S \in Seq(Seg)
          /\ \A k \in 1 .. Len(S) : S[k].len <= mssdflt
      BY <3>1, <3>2, <3>4, SegmentsFlow DEF Flow
    <3>8. tp.snd_nxt + n \in Nat
      BY <3>1, <1>1
    <3>9. Flow(data', frontier, tp.snd_nxt + n)
      BY <2>1, <3>1, <3>2, <3>7, <3>8, <1>1, FlowJoin
    <3>10. ASSUME NEW k \in 1 .. Len(data')
           PROVE  data'[k].len <= mssdflt
      <4>1. \/ \E i \in 1 .. Len(data) : data'[k] = data[i]
            \/ \E i \in 1 .. Len(S) : data'[k] = S[i]
        BY <3>1, <3>2, <3>7, <1>1, ConcatAll
      <4> QED
        BY <4>1, <3>7, <1>10 DEF InParts
    <3>11. /\ tp'.snd_nxt = tp.snd_nxt + n /\ tp'.snd_max = Greater(wrote, tp.snd_nxt + n)
           /\ tp'.t_rxtshift = 0 /\ tp'.t_maxseg = mssdflt /\ tp'.snd_una = ack
           /\ tp'.snd_cwnd = u.snd_cwnd
           /\ tp'.t_pmtud_lastseg_size \in {0, IF n > 0 THEN Lesser(mssdflt, n) ELSE 0}
      BY <3>1, <3>4 DEF Sends
    <3>12. tp'.snd_max = wrote
      BY <3>1, <3>4, <3>8, <3>11, <1>1 DEF Greater
    <3>13. tp'.t_pmtud_lastseg_size <= mssdflt
      <4>1. 0 <= mssdflt /\ Lesser(mssdflt, n) <= mssdflt
        BY <3>1, <1>5 DEF Lesser
      <4> QED
        BY <4>1, <3>11
    <3>14. InParts'
      <4>1. Len(drops') = 2 /\ drops'[2] = 1 /\ clock' = 3
        BY <2>2, <1>10 DEF InParts
      <4>2. Flow(data', frontier', tp'.snd_nxt)
        BY <2>2, <3>9, <3>11
      <4>3. tp'.snd_una < tp'.snd_nxt /\ tp'.snd_cwnd >= mssdflt /\ tp'.snd_max = wrote'
        BY <2>2, <3>5, <3>6, <3>11, <3>12
      <4> QED
        BY <4>1, <4>2, <4>3, <3>10, <3>11, <3>13 DEF InParts
    <3> QED
      BY <2>2, <3>14, <1>3 DEF Running, Stage
  <2> QED
    BY <2>4, <2>5
<1> QED
  BY <1>4, <1>6, <1>7, <1>8, <1>9, <1>10 DEF Arrived

\* The timer fires.
LEMMA StageTimeout ==
  ASSUME InductiveInv, NEW e \in Nat, Running(e), KernelTimeout
  PROVE  Running(e)'
<1>1. /\ tp \in Tcpcb /\ wrote \in Nat /\ frontier \in Nat
      /\ tp.snd_una \in Nat /\ tp.snd_nxt \in Nat /\ tp.snd_max \in Nat
      /\ tp.snd_nxt <= tp.snd_max /\ tp.snd_max <= wrote /\ tp.t_rxtshift \in Nat
  BY LadderTypes
<1>2. Answered /\ LastByte /\ InStep /\ TailAt(e, wrote) /\ Stage(e) /\ ~ tp.closed
  BY DEF Running, KernelTimeout, Expire
<1>3. /\ Answered' /\ data = <<>> /\ acks = <<>> /\ acks' = <<>>
      /\ tp.snd_una = frontier /\ frontier < tp.snd_max
      /\ clock' = clock + tcp_backoff[tp.t_rxtshift + 1]
      /\ UNCHANGED <<scenario, round, wrote, rules, got, frontier, drops, spent>>
      /\ \/ GivenUp'
         \/ /\ tp.t_rxtshift + 1 <= MaxShift
            /\ \E u, n : /\ Fired(tp, u) /\ Narrowed(tp, u) /\ TpOK(u, wrote) /\ n \in Nat
                         /\ n = TxLen(u, wrote) /\ Sends(u, tp', n) /\ data' = Segments(u, n)
  BY <1>2, LadderTimeout
<1>4. round' = 1 /\ Len(scenario') = 1 /\ TailAt(e, wrote') /\ InStep' /\ LastByte'
  BY <1>2, <1>3, StageFrame DEF InStep, LastByte
<1>5. MSS \in Nat \ {0} /\ mssdflt \in Nat \ {0} /\ Window \in Nat /\ Window >= MSS /\ mssdflt <= MSS
  BY SenderAssumption
<1>6. CASE GivenUp'
  BY <1>3, <1>4, <1>6 DEF Running, Stage
<1>7. CASE /\ tp.t_rxtshift + 1 <= MaxShift
           /\ \E u, n : /\ Fired(tp, u) /\ Narrowed(tp, u) /\ TpOK(u, wrote) /\ n \in Nat
                        /\ n = TxLen(u, wrote) /\ Sends(u, tp', n) /\ data' = Segments(u, n)
  <2>1. PICK u, n : /\ Fired(tp, u) /\ Narrowed(tp, u) /\ TpOK(u, wrote) /\ n \in Nat
                    /\ n = TxLen(u, wrote) /\ Sends(u, tp', n) /\ data' = Segments(u, n)
    BY <1>7
  <2>2. /\ u \in Tcpcb /\ u.snd_una = frontier /\ u.snd_nxt = frontier /\ u.snd_max = tp.snd_max
        /\ u.t_rxtshift = tp.t_rxtshift + 1 /\ u.t_pmtud_lastseg_size = tp.t_pmtud_lastseg_size
    BY <2>1, <1>3 DEF Fired
  <2>3. /\ tp'.snd_una = frontier /\ tp'.snd_nxt = frontier + n
        /\ tp'.snd_max = Greater(tp.snd_max, frontier + n)
        /\ tp'.t_pmtud_lastseg_size =
              IF n > 0 /\ tp.t_pmtud_lastseg_size = 0
              THEN Lesser(u.t_maxseg, n) ELSE tp.t_pmtud_lastseg_size
        /\ tp'.snd_cwnd = u.snd_cwnd /\ tp'.t_maxseg = u.t_maxseg
        /\ tp'.t_rxtshift = tp.t_rxtshift + 1 /\ tp'.pmtud = u.pmtud /\ tp'.blackhole = u.blackhole
    BY <2>1, <2>2 DEF Sends
  <2>4. TailLost(e) \/ LostTwice(e) \/ PartLost
    <3>1. ~ FirstTry(e)
      BY <1>1, <1>3 DEF FirstTry, Flow
    <3>2. ~ InParts
      BY <1>1, <1>3 DEF InParts, Flow
    <3>3. ~ Arrived
      BY <1>1, <1>3 DEF Arrived
    <3>4. ~ TailResent(e) /\ ~ PartResent
      <4>1. ~ Resent
        BY <1>1, <1>3, ResentFlow
      <4> QED
        BY <4>1 DEF TailResent, PartResent
    <3>5. ~ GivenUp
      BY <1>2 DEF GivenUp
    <3> QED
      BY <1>2, <3>1, <3>2, <3>3, <3>4, <3>5 DEF Stage
  <2>5. Lost /\ tp.snd_max = wrote /\ frontier < wrote
    BY <2>4 DEF TailLost, LostTwice, PartLost, Lost
  <2>6. ASSUME n = wrote - frontier, n <= u.t_maxseg
        PROVE  Resent'
    <3>1. n > 0 /\ frontier + n = wrote
      BY <2>6, <2>5, <1>1
    <3>2. data' = <<[pos |-> frontier, len |-> wrote - frontier]>>
      BY <2>1, <2>2, <2>6, <3>1, SegmentsFlow
    <3>3. tp'.snd_nxt = wrote /\ tp'.snd_max = wrote
      BY <2>3, <2>5, <3>1, <1>1 DEF Greater
    <3> QED
      BY <3>2, <3>3, <2>5, <1>3 DEF Resent
  <2>7. ASSUME wrote - frontier <= u.snd_cwnd, wrote - frontier <= MSS
        PROVE  n = wrote - frontier
    <3>1. wrote - frontier <= Window
      BY <2>7, <1>1, <1>5
    <3> QED
      BY <3>1, <2>1, <2>2, <2>5, <2>7, <1>1, TxWhole
  <2>8. CASE TailLost(e)
    <3>1. /\ frontier = e /\ tp.t_rxtshift = 0 /\ FullSize /\ HeadFullOrNone
          /\ drops = <<0>> /\ clock = 0
      BY <2>8 DEF TailLost
    <3>2. /\ u.snd_cwnd = MSS /\ u.t_maxseg = MSS /\ u.pmtud /\ ~ u.blackhole
      BY <3>1, <2>1 DEF Narrowed, FullSize
    <3>3. wrote - frontier <= MSS /\ wrote - frontier > mssdflt
      BY <3>1, <1>1, <1>2, <1>5 DEF TailAt
    <3>4. n = wrote - frontier /\ n <= u.t_maxseg
      BY <3>2, <3>3, <2>7
    <3>5. Resent'
      BY <3>4, <2>6
    <3>6. tp'.t_pmtud_lastseg_size > mssdflt
      <4>1. Lesser(u.t_maxseg, n) > mssdflt /\ n > 0
        BY <3>2, <3>3, <3>4, <2>1, <1>5 DEF Lesser
      <4> QED
        BY <4>1, <3>1, <2>3 DEF HeadFullOrNone
    <3>7. clock' = 1 /\ tp'.t_rxtshift = 1
      BY <3>1, <2>3, <1>3, GapsAre
    <3>8. TailResent(e)'
      BY <3>1, <3>2, <3>5, <3>6, <3>7, <2>3, <1>3 DEF TailResent, FullSize
    <3> QED
      BY <3>8, <1>3, <1>4 DEF Running, Stage
  <2>9. CASE LostTwice(e)
    <3>1. /\ frontier = e /\ tp.t_rxtshift = 1 /\ FullSize /\ tp.t_pmtud_lastseg_size > mssdflt
          /\ Len(drops) = 2 /\ drops[2] = 1 /\ clock = 1
      BY <2>9 DEF LostTwice
    <3>2. u.snd_cwnd = mssdflt /\ u.t_maxseg = mssdflt
      BY <3>1, <2>1 DEF Narrowed, FullSize
    <3>3. mssdflt < wrote - frontier
      BY <3>1, <1>1, <1>2, <1>5 DEF TailAt
    <3>4. n = mssdflt
      BY <3>2, <3>3, <2>1, <2>2, <2>5, <1>1, TxPiece
    <3>5. /\ Flow(data', frontier, frontier + n)
          /\ \A k \in 1 .. Len(data') : data'[k].len <= mssdflt
      BY <3>2, <2>1, <2>2, SegmentsFlow
    <3>6. /\ tp'.snd_una < tp'.snd_nxt /\ tp'.snd_nxt < wrote /\ tp'.snd_max = wrote
          /\ tp'.snd_cwnd >= mssdflt
      BY <3>2, <3>3, <3>4, <2>3, <2>5, <1>1, <1>5 DEF Greater
    <3>7. clock' = 3 /\ tp'.t_rxtshift = 2
      BY <3>1, <2>3, <1>3, GapsAre
    <3>8. InParts'
      BY <3>1, <3>2, <3>5, <3>6, <3>7, <2>3, <1>3 DEF InParts
    <3> QED
      BY <3>8, <1>3, <1>4 DEF Running, Stage
  <2>10. CASE PartLost
    <3>1. /\ tp.t_pmtud_lastseg_size <= mssdflt /\ tp.snd_cwnd >= mssdflt
          /\ wrote <= frontier + mssdflt /\ Len(drops) = 3 + tp.t_rxtshift
          /\ clock = drops[Len(drops)]
      BY <2>10 DEF PartLost, SmallPart
    <3>2. u.snd_cwnd >= mssdflt /\ u.snd_cwnd \in Nat /\ u.t_maxseg >= mssdflt /\ u.t_maxseg \in Nat
      <4>1. u.snd_cwnd >= mssdflt
        BY <3>1, <2>1 DEF Narrowed
      <4>2. u.t_maxseg \in {MSS, mssdflt} /\ u.snd_cwnd \in Nat
        BY <2>2 DEF Tcpcb
      <4> QED
        BY <4>1, <4>2, <1>5
    <3>3. wrote - frontier <= mssdflt
      BY <3>1, <1>1, <1>5
    <3>4. n = wrote - frontier /\ n <= u.t_maxseg /\ n <= mssdflt
      <4>1. wrote - frontier <= u.snd_cwnd /\ wrote - frontier <= MSS /\ wrote - frontier <= u.t_maxseg
        BY <3>2, <3>3, <1>1, <1>5
      <4> QED
        BY <4>1, <3>3, <2>7
    <3>5. Resent'
      BY <3>4, <2>6
    <3>6. SmallPart'
      <4>1. Lesser(u.t_maxseg, n) <= mssdflt
        BY <3>2, <3>4, <2>1, <1>5 DEF Lesser
      <4>2. tp'.t_pmtud_lastseg_size <= mssdflt
        BY <4>1, <3>1, <2>3
      <4> QED
        BY <4>2, <3>1, <3>2, <2>3, <1>3 DEF SmallPart
    <3>7. tp'.t_rxtshift > 0 /\ Len(drops') = 2 + tp'.t_rxtshift
      BY <3>1, <2>3, <1>1, <1>3
    <3>8. clock' = drops'[Len(drops')] + tcp_backoff[tp'.t_rxtshift]
      BY <3>1, <2>3, <1>3
    <3>9. PartResent'
      BY <3>5, <3>6, <3>7, <3>8 DEF PartResent
    <3> QED
      BY <3>9, <1>3, <1>4 DEF Running, Stage
  <2> QED
    BY <2>4, <2>8, <2>9, <2>10
<1> QED
  BY <1>3, <1>6, <1>7

\* The scenario has one round, and its shape.
LEMMA LadderScenario ==
  ASSUME IsLadder(scenario)
  PROVE  /\ Len(scenario) = 1
         /\ \E m, t, n \in Nat :
               /\ t > mssdflt /\ t <= MSS
               /\ scenario[1] = [bytes |-> m * MSS + t, rules |-> <<NewRule(m * MSS + t - 1, m * MSS + t, n)>>]
<1>1. PICK m \in Nat, t \in mssdflt + 1 .. MSS, n \in Nat :
        scenario = <<[bytes |-> m * MSS + t, rules |-> <<NewRule(m * MSS + t - 1, m * MSS + t, n)>>]>>
  BY DEF IsLadder
<1>2. PICK s : s = [bytes |-> m * MSS + t, rules |-> <<NewRule(m * MSS + t - 1, m * MSS + t, n)>>]
  OBVIOUS
<1>3. scenario = <<s>>
  BY <1>1, <1>2
<1>4. Len(scenario) = 1 /\ scenario[1] = s
  BY <1>3
<1>5. t \in Nat /\ t > mssdflt /\ t <= MSS
  BY SenderAssumption
<1> QED
  BY <1>2, <1>4, <1>5

\* The write: the first pass begins.
LEMMA StageWrite ==
  ASSUME IsLadder(scenario), InductiveInv, Fresh, NEW late \in BOOLEAN, WriteRound(late)
  PROVE  \E e \in Nat : Running(e)'
<1>1. Len(scenario) = 1
  BY LadderScenario
<1>2. PICK m \in Nat, t \in Nat, n \in Nat :
        /\ t > mssdflt /\ t <= MSS
        /\ scenario[1] = [bytes |-> m * MSS + t, rules |-> <<NewRule(m * MSS + t - 1, m * MSS + t, n)>>]
  BY LadderScenario
<1>3. MSS \in Nat \ {0} /\ mssdflt \in Nat \ {0} /\ Window \in Nat /\ InitialCwnd \in Nat
      /\ tcprexmtthresh \in Nat /\ Limit \in Nat /\ MaxShift \in Nat /\ MaxCwnd \in Nat
  BY SenderAssumption DEF MaxCwnd, Greater
<1>4. PICK e \in Nat : e = m * MSS
  BY <1>3
<1>5. PICK w \in Nat : w = e + t
  BY <1>4
<1>6. TailAt(e, w)
  <2>1. e + mssdflt < w /\ w <= e + MSS
    BY <1>2, <1>3, <1>5
  <2> QED
    BY <2>1, <1>4 DEF TailAt
<1>7. /\ round = 0 /\ wrote = 0 /\ tp = Established /\ data = <<>> /\ acks = <<>>
      /\ got = {} /\ frontier = 0
  BY DEF Fresh
<1>8. /\ round' = 1 /\ wrote' = wrote + scenario[1].bytes /\ rules' = scenario[1].rules
      /\ scenario' = scenario /\ acks' = acks /\ got' = got /\ frontier' = frontier
      /\ clock' = 0 /\ drops' = <<>>
  BY <1>7 DEF WriteRound, NextRound
<1>9. wrote' = w
  <2>1. scenario[1].bytes = m * MSS + t
    BY <1>2
  <2> QED
    BY <2>1, <1>4, <1>5, <1>7, <1>8
<1>10. LastByte'
  <2>1. rules' = <<NewRule(m * MSS + t - 1, m * MSS + t, n)>>
    BY <1>2, <1>8
  <2>2. m * MSS + t = w /\ m * MSS + t - 1 = w - 1
    BY <1>2, <1>3, <1>4, <1>5
  <2>3. Len(rules') = 1 /\ rules'[1] = NewRule(w - 1, w, n)
    BY <2>1, <2>2
  <2>4. rules'[1].lo = w - 1 /\ rules'[1].hi = w
    BY <2>3 DEF NewRule
  <2> QED
    BY <2>3, <2>4, <1>9 DEF LastByte
<1>11. PICK r \in UserWrite(tp, w, late) : Adopt(r)
  BY <1>9 DEF WriteRound
<1>12. PICK c \in Nat, o \in BOOLEAN :
         r = tcp_output(Quietly([Established EXCEPT !.snd_cwnd = c, !.early_win_old = o]), w)
  <2>1. PICK cc \in {Established.snd_cwnd, InitialCwnd} :
          r = tcp_output(Quietly([Established EXCEPT !.snd_cwnd = cc,
                                     !.early_win_old = late \/ Established.early_win_old]), w)
    BY <1>7, <1>11 DEF UserWrite
  <2>2. Established.snd_cwnd = InitialCwnd /\ Established.early_win_old = FALSE
    BY DEF Established
  <2> QED
    BY <2>1, <2>2, <1>3
<1>13. PICK u : u = [Established EXCEPT !.snd_cwnd = c, !.early_win_old = o]
  OBVIOUS
<1>14. Established \in Tcpcb
  BY <1>7, LadderTypes
<1>15. /\ u \in Tcpcb /\ u.snd_una = 0 /\ u.snd_nxt = 0 /\ u.snd_max = 0 /\ u.snd_recover = -1
       /\ u.t_rxtshift = 0 /\ u.t_early_rexmt_count = 0 /\ u.t_maxseg = MSS
       /\ u.pmtud = TRUE /\ u.blackhole = FALSE /\ u.fastrecovery = FALSE
       /\ u.rexmt = FALSE /\ u.t_pmtud_lastseg_size = 0
  <2>1. u \in Tcpcb
    BY <1>13, <1>14 DEF Tcpcb
  <2> QED
    BY <2>1, <1>13 DEF Established
<1>16. TpOK(u, w)
  BY <1>3, <1>15 DEF TpOK
<1>17. PICK x : x = TxLen(u, w)
  OBVIOUS
<1>18. /\ x \in Nat /\ Sends(u, r.tp, x) /\ r.sent = Segments(u, x)
  BY <1>12, <1>13, <1>16, <1>17, OutputIs DEF Quietly
<1>19. PICK S : S = Segments(u, x)
  OBVIOUS
<1>20. /\ Flow(S, 0, 0 + x) /\ S \in Seq(Seg)
  <2>1. Flow(S, u.snd_nxt, u.snd_nxt + x)
    BY <1>15, <1>18, <1>19, SegmentsFlow
  <2>2. Flow(S, 0, 0 + x)
    BY <2>1, <1>15
  <2>3. S \in Seq(Seg)
    BY <2>2 DEF Flow
  <2> QED
    BY <2>2, <2>3
<1>21. tp' = r.tp /\ data' = S
  <2>1. tp' = r.tp /\ data' = <<>> \o S
    BY <1>7, <1>11, <1>18, <1>19 DEF Adopt
  <2> QED
    BY <2>1, <1>20
<1>22. /\ OnGrid(0 + x, w)
       /\ \A k \in 1 .. Len(S) : S[k].pos + S[k].len = w => S[k].pos = e
       /\ x > 0 => Lesser(MSS, x) > mssdflt
  <2>1. OnGrid(u.snd_nxt, w)
    <3>1. 0 = 0 * MSS
      BY <1>3
    <3> QED
      BY <3>1, <1>15 DEF OnGrid
  <2> QED
    BY <2>1, <1>6, <1>15, <1>16, <1>17, <1>19, FirstPass
<1>23. /\ tp'.snd_una = 0 /\ tp'.snd_nxt = 0 + x /\ tp'.snd_max = Greater(0, 0 + x)
       /\ tp'.t_pmtud_lastseg_size = (IF x > 0 THEN Lesser(MSS, x) ELSE 0)
       /\ tp'.rexmt = (x > 0) /\ tp'.t_maxseg = MSS /\ tp'.t_rxtshift = 0
       /\ tp'.pmtud = TRUE /\ tp'.blackhole = FALSE /\ tp'.fastrecovery = FALSE
  BY <1>15, <1>18, <1>21 DEF Sends
<1>24. tp'.snd_max = x /\ tp'.snd_nxt = x /\ 0 + x = x
  BY <1>18, <1>23 DEF Greater
<1>25. Answered'
  <2>1. got' = 0 .. frontier' - 1
    BY <1>7, <1>8
  <2>2. AckFlow(acks', tp'.snd_una, frontier')
    BY <1>7, <1>8, <1>23 DEF AckFlow
  <2>3. tp'.rexmt => tp'.snd_una < tp'.snd_max
    BY <1>18, <1>23, <1>24
  <2> QED
    BY <2>1, <2>2, <2>3, <1>23 DEF Answered
<1>26. FirstTry(e)'
  <2>1. FullSize' /\ HeadFullOrNone'
    BY <1>22, <1>23 DEF FullSize, HeadFullOrNone
  <2>2. OnGrid(tp'.snd_nxt, wrote') /\ Flow(data', frontier', tp'.snd_nxt)
    BY <1>7, <1>8, <1>9, <1>20, <1>21, <1>22, <1>24
  <2>3. \A k \in 1 .. Len(data') : data'[k].pos + data'[k].len = wrote' => data'[k].pos = e
    BY <1>9, <1>21, <1>22
  <2> QED
    BY <2>1, <2>2, <2>3, <1>8, <1>23, <1>24 DEF FirstTry
<1>27. InStep'
  BY <1>8 DEF InStep
<1>28. Running(e)'
  BY <1>1, <1>6, <1>8, <1>9, <1>10, <1>25, <1>26, <1>27 DEF Running, Stage
<1> QED
  BY <1>28

\* A step that leaves connection and trace alone leaves the ladder where it is.
LEMMA StageStutter ==
  ASSUME UNCHANGED <<scenario, round, wrote, tp, data, acks, got, frontier, rules, clock, drops>>,
         NEW e \in Nat, Running(e)
  PROVE  Running(e)'
<1>1. UNCHANGED <<scenario, round, wrote, tp, data, acks, got, frontier, rules, clock, drops>>
  OBVIOUS
<1>2. Stage(e)'
  BY <1>1 DEF Running, Stage, FirstTry, TailLost, TailResent, LostTwice, InParts, SmallPart,
       PartLost, PartResent, Arrived, GivenUp, Lost, Resent, FullSize, HeadFullOrNone
<1>3. Answered' /\ LastByte' /\ InStep'
  BY <1>1 DEF Running, Answered, LastByte, InStep
<1> QED
  BY <1>1, <1>2, <1>3 DEF Running

\* Every step keeps the ladder at one of its stages.
LEMMA StageNext ==
  ASSUME IsLadder(scenario), InductiveInv, LadderInv, [Next]_vars, spent'.fail = 0
  PROVE  Fresh' \/ \E e \in Nat : Running(e)'
<1>1. spent'.fail = 0
  OBVIOUS
<1>2. spent \in [fail : Nat, late : Nat, expired : Nat]
  BY LadderTypes
<1>3. ~ PeerAccept(TRUE)
  <2>1. ASSUME PeerAccept(TRUE) PROVE FALSE
    <3>1. spent' = [spent EXCEPT !.fail = @ + 1]
      BY <2>1 DEF PeerAccept
    <3>2. spent'.fail = spent.fail + 1 /\ spent.fail \in Nat
      BY <3>1, <1>2
    <3> QED
      BY <3>2, <1>1
  <2> QED
    BY <2>1
<1>4. CASE UNCHANGED vars \/ Return \/ ReturnExpired
  <2>1. /\ UNCHANGED <<scenario, round, wrote, tp, data, acks, got, frontier, rules, clock, drops>>
        /\ spent'.fail = spent.fail
    <3>1. CASE UNCHANGED vars
      BY <3>1 DEF vars, peerVars
    <3>2. CASE Return \/ ReturnExpired
      BY <3>2, ReturnStep
    <3> QED
      BY <1>4, <3>1, <3>2
  <2>2. CASE Fresh
    BY <2>1, <2>2 DEF Fresh
  <2>3. ASSUME NEW e \in Nat, Running(e) PROVE Running(e)'
    BY <2>1, <2>3, StageStutter
  <2> QED
    BY <2>1, <2>2, <2>3, <1>1 DEF LadderInv
<1>5. ASSUME NEW late \in BOOLEAN, WriteRound(late) PROVE \E e \in Nat : Running(e)'
  <2>1. round < Len(scenario)
    BY <1>5 DEF WriteRound, NextRound
  <2>2. ASSUME NEW e \in Nat, Running(e) PROVE FALSE
    <3>1. round = 1 /\ Len(scenario) = 1
      BY <2>2 DEF Running
    <3> QED
      BY <2>1, <3>1
  <2>3. spent.fail = 0
    <3>1. CASE late
      <4>1. spent' = [spent EXCEPT !.late = @ + 1]
        BY <1>5, <3>1 DEF WriteRound
      <4> QED
        BY <4>1, <1>1, <1>2
    <3>2. CASE ~ late
      BY <1>1, <1>5, <3>2 DEF WriteRound
    <3> QED
      BY <3>1, <3>2
  <2>4. Fresh
    BY <2>2, <2>3 DEF LadderInv
  <2> QED
    BY <1>5, <2>4, StageWrite
<1>6. CASE PeerDrop \/ PeerAccept(FALSE) \/ KernelAck \/ KernelTimeout
  <2>1. UNCHANGED spent
    BY <1>6 DEF PeerDrop, PeerAccept, KernelAck, KernelTimeout
  <2>2. ~ Fresh
    <3>1. data # <<>> \/ acks # <<>> \/ tp.rexmt
      BY <1>6 DEF PeerDrop, PeerAccept, KernelAck, TakeAck, KernelTimeout, Expire
    <3>2. ~ Established.rexmt
      BY DEF Established
    <3> QED
      BY <3>1, <3>2 DEF Fresh
  <2>3. PICK e \in Nat : Running(e)
    BY <2>1, <2>2, <1>1 DEF LadderInv
  <2>4. Running(e)'
    BY <1>6, <2>3, StageDrop, StageAccept, StageAck, StageTimeout
  <2> QED
    BY <2>4
<1>7. \/ \E late \in BOOLEAN : WriteRound(late)
      \/ PeerDrop \/ PeerAccept(TRUE) \/ PeerAccept(FALSE) \/ KernelAck \/ KernelTimeout
      \/ UNCHANGED vars \/ Return \/ ReturnExpired
  BY DEF Next
<1> QED
  BY <1>3, <1>4, <1>5, <1>6, <1>7

\* Charging a rule does not change how often it may fire.
LEMMA ChargedFew ==
  ASSUME NEW q \in Seq(DropRule), NEW x, NEW l, FewLosses(q)
  PROVE  FewLosses(Charged(q, x, l))
<1>1. PICK f : Charged(q, x, l) = [q EXCEPT ![f].fired = q[f].fired + 1]
  BY DEF Charged
<1>2. PICK c : c = Charged(q, x, l)
  OBVIOUS
<1>3. c = [q EXCEPT ![f] = [q[f] EXCEPT !.fired = q[f].fired + 1]]
  BY <1>1, <1>2
<1>4. DOMAIN q = 1 .. Len(q) /\ DOMAIN c = DOMAIN q /\ Len(q) \in Nat
  BY <1>3
<1>5. Len(c) = Len(q)
  BY <1>4
<1>6. ASSUME NEW k \in 1 .. Len(q) PROVE c[k].times <= 2
  <2>1. q[k] \in DropRule /\ q[k].times <= 2
    BY DEF FewLosses
  <2>2. CASE k = f
    <3>1. c[k] = [q[k] EXCEPT !.fired = q[k].fired + 1]
      BY <1>3, <1>4, <2>2
    <3>2. c[k].times = q[k].times
      BY <3>1, <2>1 DEF DropRule
    <3> QED
      BY <3>2, <2>1
  <2>3. CASE k # f
    <3>1. c[k] = q[k]
      BY <1>3, <1>4, <2>3
    <3> QED
      BY <3>1, <2>1
  <2> QED
    BY <2>2, <2>3
<1> QED
  BY <1>2, <1>5, <1>6 DEF FewLosses

\* Every step keeps the invariant: a ladder is at one of its stages, and the
\* rules of another experiment are its scenario's.
LEMMA LadderNext ==
  ASSUME LadderOrFew, InductiveInv, LadderInv, [Next]_vars
  PROVE  LadderInv'
<1>1. UNCHANGED scenario
  BY DEF Next, vars, WriteRound, PeerDrop, PeerAccept, SeeData, Return, ReturnExpired, KernelAck,
         KernelTimeout
<1>2. CASE IsLadder(scenario)
  BY <1>1, <1>2, StageNext DEF LadderInv
<1>3. CASE ~ IsLadder(scenario)
  <2>1. FewLosses(rules) /\ rules \in Seq(DropRule)
    BY <1>3, LadderTypes DEF LadderInv
  <2>2. ASSUME UNCHANGED rules PROVE FewLosses(rules')
    BY <2>1, <2>2
  <2>3. ASSUME NEW late \in BOOLEAN, WriteRound(late) PROVE FewLosses(rules')
    <3>1. scenario \in Scenarios /\ round \in 0 .. Len(scenario) /\ round < Len(scenario)
      BY <2>3 DEF InductiveInv, TypeOK, WriteRound, NextRound
    <3>2. scenario \in Seq(Rounds)
      BY <3>1, RecoveryAssumption
    <3>3. round + 1 \in 1 .. Len(scenario)
      BY <3>1, <3>2
    <3>4. FewLosses(scenario[round + 1].rules)
      BY <3>1, <3>3, <1>3 DEF LadderOrFew
    <3> QED
      BY <3>4, <2>3 DEF WriteRound
  <2>4. ASSUME PeerDrop PROVE FewLosses(rules')
    <3>1. rules' = Charged(rules, seg.pos, seg.len)
      BY <2>4 DEF PeerDrop
    <3> QED
      BY <3>1, <2>1, ChargedFew
  <2>5. ASSUME NEW fails \in BOOLEAN, PeerAccept(fails) PROVE FewLosses(rules')
    BY <2>2, <2>5 DEF PeerAccept
  <2>6. ASSUME KernelAck \/ KernelTimeout \/ Return \/ ReturnExpired \/ UNCHANGED vars
        PROVE  FewLosses(rules')
    BY <2>2, <2>6 DEF KernelAck, KernelTimeout, Return, ReturnExpired, vars, peerVars
  <2>7. FewLosses(rules')
    BY <2>3, <2>4, <2>5, <2>6 DEF Next
  <2> QED
    BY <2>7, <1>1, <1>3 DEF LadderInv
<1> QED
  BY <1>2, <1>3

\* The stages say when each drop happened.
LEMMA LadderShows ==
  ASSUME InductiveInv, LadderInv
  PROVE  LadderRestartsOnce
<1>1. SUFFICES ASSUME LadderRound, spent.fail = 0, NEW k \in DOMAIN Intervals
               PROVE  Intervals[k] = Gaps[k]
  BY DEF LadderRestartsOnce, Gaps
<1>2. IsLadder(scenario)
  <2>1. PICK j \in 1 .. Len(rules) : rules[j].times > 2
    BY <1>1 DEF LadderRound
  <2>2. rules[j] \in DropRule
    BY LadderTypes
  <2>3. rules[j].times \in Nat
    BY <2>2 DEF DropRule
  <2>4. ~ FewLosses(rules)
    BY <2>1, <2>3 DEF FewLosses
  <2> QED
    BY <2>4 DEF LadderInv
<1>3. drops \in Seq(Nat)
  BY LadderTypes
<1>4. k \in 1 .. Len(drops) - 1 /\ Intervals[k] = drops[k + 1] - drops[k]
  BY DEF Intervals
<1>5. ~ Fresh
  <2>1. Len(<<>>) = 0
    OBVIOUS
  <2> QED
    BY <2>1, <1>4 DEF Fresh
<1>6. InStep
  BY <1>1, <1>5, <1>2 DEF LadderInv, Running
<1> QED
  BY <1>4, <1>6 DEF InStep

\* exp_rto, part 3, for any buffer, segment size, window and number of drops:
\* when the rule takes the last byte, and the segment that holds it is longer than
\* mssdflt, it is lost again after 1 and 2 base timeouts and then after those of
\* tcp_backoff[] from its start.  The second timeout is taken for a path-MTU black
\* hole, the segment is resent in parts, and the ACK of a part that escapes the
\* rule resets t_rxtshift.
THEOREM LadderSequence ==
  ASSUME LadderOrFew
  PROVE  Spec => []LadderRestartsOnce
<1>1. Init => LadderInv
  BY DEF Init, LadderInv, Fresh, FewLosses
<1>2. InductiveInv /\ LadderInv /\ [Next]_vars => LadderInv'
  BY LadderNext
<1>3. InductiveInv /\ LadderInv => LadderRestartsOnce
  BY LadderShows
<1> QED
  BY <1>1, <1>2, <1>3, Invariance, PTL DEF Spec

=============================================================================
