------------------------------- MODULE MCUtun -------------------------------
(* Model-checking instances of Utun: the kernel's traffic, and segments of  *)
(* every shape send() can be given.                                        *)
EXTENDS Utun

Seg(opt, paylen) == [opt |-> opt, paylen |-> paylen]
Sent(frame, seg) == [frame |-> frame, seg |-> seg]

\* A SYN-ACK with the kernel's option order: MSS, window scale, a timestamp the
\* parser skips, SACK-permitted.
SynAckOpts ==
    <<OptMss, 4, 4, 0, OptNop, OptWscale, 3, 6, OptNop, OptNop, OptTimestamp, 10>>
    \o put32(65537) \o put32(0) \o <<OptSackPermitted, 2, OptEol, OptEol>>
SynAck ==
    Sent(Frame("inet", "tcp", SynAckOpts, 0),
         Seg([EmptyOptions EXCEPT !.mss = 1024, !.wscale = 6, !.sack_permitted = TRUE], 0))
Data == Frame("inet", "tcp", <<>>, 2)
\* Beside it data, a truncated segment, another protocol and another family.
MCTraffic ==
    {SynAck, Sent(Data, Seg(EmptyOptions, 2)), Sent([Data EXCEPT !.n = @ - 1], NoSeg),
     Sent(Frame("inet", "icmp", <<>>, 0), NoSeg), Sent(Frame("inet6", "icmp", <<>>, 0), NoSeg)}
OneSegment == {Sent(Data, Seg(EmptyOptions, 2))}
OneSegmentSent == {Seg(EmptyOptions, 0)}

\* Every combination of options, up to a SACK block too many.
Block(k) == [start |-> 70000 * k, end |-> 70000 * k + 1]
MCSegs ==
    {Seg([mss |-> m, sack_permitted |-> p, wscale |-> w, sack_blocks |-> [k \in 1 .. b |-> Block(k)]], l) :
        m \in {None, 1024}, p \in BOOLEAN, w \in {None, 7}, b \in 0 .. 5, l \in {0, 1, 1424, 1460}}
=============================================================================
