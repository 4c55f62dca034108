------------------------------ MODULE Segment ------------------------------
(***************************************************************************)
(* tp::Options and the frame around it (src/src/segment.cpp): the option   *)
(* field byte by byte, with the lengths and offsets build() writes and     *)
(* parse() trusts.  Ports, sequence numbers, flags and addresses are       *)
(* copied verbatim and left out, as is the checksum, which parse() does    *)
(* not look at; a payload is its length.                                   *)
(***************************************************************************)
EXTENDS Integers, Sequences, SequencesExt

CONSTANTS
    NoSeg,       \* what parse() returns for a frame that is no TCP segment
    FrameCap     \* bytes of the buffer send() builds in; 4 + 1500

\* The length of a frame that fits is a 16-bit number.
ASSUME FrameAssumption == FrameCap \in 0 .. 4 + 65535

None == -1       \* an empty std::optional

\* Option kinds.
OptEol == 0
OptNop == 1
OptMss == 2
OptWscale == 3
OptSackPermitted == 4
OptSack == 5
OptTimestamp == 8

\* An IPv4 header without options, a TCP header without options, and the room
\* the 4-bit data offset leaves for them.
IpLen == 20
TcpLen == 20
OptRoom == 40

EmptyOptions == [mss |-> None, sack_permitted |-> FALSE, sack_blocks |-> <<>>, wscale |-> None]

put16(v) == <<v \div 256, v % 256>>
put32(v) == put16(v \div 65536) \o put16(v % 65536)
get16(b) == b[1] * 256 + b[2]
get32(b) == get16(SubSeq(b, 1, 2)) * 65536 + get16(SubSeq(b, 3, 4))

-----------------------------------------------------------------------------
(* Building *)

RoundUp4(n) == 4 * ((n + 3) \div 4)

\* Bytes of the SACK option, its two NOPs included.
\* Mutant: without the NOPs.
SackLenBare(k) == IF k = 0 THEN 0 ELSE 2 + 8 * k
SackLen(k) == IF k = 0 THEN 0 ELSE 4 + 8 * k

wire_len(o) ==
    RoundUp4((IF o.mss = None THEN 0 ELSE 4) + (IF o.wscale = None THEN 0 ELSE 3)
             + (IF o.sack_permitted THEN 2 ELSE 0) + SackLen(Len(o.sack_blocks)))

BlockBytes(b) == put32(b.start) \o put32(b.end)

\* The options in the order encode() writes them.
MssBytes(o) == IF o.mss = None THEN <<>> ELSE <<OptMss, 4>> \o put16(o.mss)
PermittedBytes(o) == IF o.sack_permitted THEN <<OptSackPermitted, 2>> ELSE <<>>
WscaleBytes(o) == IF o.wscale = None THEN <<>> ELSE <<OptWscale, 3, o.wscale>>
SackBytes(o) ==
    IF o.sack_blocks = <<>> THEN <<>>
    ELSE <<OptNop, OptNop, OptSack, (2 + 8 * Len(o.sack_blocks)) % 256>>
         \o FlattenSeq([k \in 1 .. Len(o.sack_blocks) |-> BlockBytes(o.sack_blocks[k])])
encode(o) ==
    LET bytes == MssBytes(o) \o PermittedBytes(o) \o WscaleBytes(o) \o SackBytes(o)
    IN  bytes \o [k \in 1 .. RoundUp4(Len(bytes)) - Len(bytes) |-> OptEol]

\* The frame build() makes of a segment, or <<>> when it returns 0: the option
\* field is the first wire_len() bytes of what encode() left in a cleared buffer.
Frame(af, proto, optbytes, paylen) ==
    LET tcplen == TcpLen + Len(optbytes)
        total == IpLen + tcplen + paylen
    IN  [af |-> af, ip_hl |-> IpLen \div 4, ip_p |-> proto, ip_len |-> total,
         th_off |-> tcplen \div 4, opts |-> optbytes, paylen |-> paylen, n |-> 4 + total]
build(s) ==
    LET optlen == wire_len(s.opt)
        bytes == encode(s.opt)
        optbuf == [k \in 1 .. optlen |-> IF k <= Len(bytes) THEN bytes[k] ELSE 0]
    IN  IF optlen > OptRoom \/ 4 + IpLen + TcpLen + optlen + s.paylen > FrameCap
        THEN <<>>
        ELSE <<Frame("inet", "tcp", optbuf, s.paylen)>>

-----------------------------------------------------------------------------
(* Parsing *)

\* The option at byte i has a length byte, of at least 2, and ends in the field.
OptionFits(o, i) == i < Len(o) /\ o[i + 1] >= 2 /\ i + o[i + 1] - 1 <= Len(o)

SackBlocks(val) ==
    [k \in 1 .. Len(val) \div 8 |->
        [start |-> get32(SubSeq(val, 8 * k - 7, 8 * k - 4)), end |-> get32(SubSeq(val, 8 * k - 3, 8 * k))]]

\* The options after one of this kind and value, and that one: of several of a
\* kind and the right length the last one counts; SACK blocks add up.
Before(kind, val, later) ==
    [mss            |-> IF later.mss = None /\ kind = OptMss /\ Len(val) = 2 THEN get16(val) ELSE later.mss,
     sack_permitted |-> later.sack_permitted \/ (kind = OptSackPermitted /\ val = <<>>),
     sack_blocks    |-> (IF kind = OptSack THEN SackBlocks(val) ELSE <<>>) \o later.sack_blocks,
     wscale         |-> IF later.wscale = None /\ kind = OptWscale /\ Len(val) = 1 THEN val[1] ELSE later.wscale]

\* The options of the field, up to the end mark or the first malformed one.
ParseOptions(o) ==
    LET From[i \in 1 .. Len(o) + 1] ==
            IF i > Len(o) \/ o[i] = OptEol THEN EmptyOptions
            ELSE IF o[i] = OptNop THEN From[i + 1]
            ELSE IF ~ OptionFits(o, i) THEN EmptyOptions
            ELSE Before(o[i], SubSeq(o, i + 2, i + o[i + 1] - 1), From[i + o[i + 1]])
    IN  From[1]

\* The shorter of the two lengths is trusted.
LengthsAgree(f) == f.ip_len <= f.n - 4

\* The test of ip_v has no conjunct of its own: in these frames the address
\* family in front of the header and the version in it agree.
parse(f) ==
    LET ihl == 4 * f.ip_hl
        doff == 4 * f.th_off
    IN  IF /\ f.n >= 4 + IpLen /\ f.af = "inet"
           /\ ihl >= IpLen /\ f.ip_p = "tcp"
           /\ LengthsAgree(f)
           /\ ihl + TcpLen <= f.ip_len /\ doff >= TcpLen /\ ihl + doff <= f.ip_len
        THEN [opt |-> ParseOptions(SubSeq(f.opts, 1, doff - TcpLen)), paylen |-> f.ip_len - ihl - doff]
        ELSE NoSeg
=============================================================================
