-------------------------------- MODULE Csum --------------------------------
(***************************************************************************)
(* csum.cpp and its callers in gso.cpp: the checksum of an IPv4 header, of *)
(* a segment that gsoSplit cuts, and of a packet in which the kernel has   *)
(* parked the sum of the pseudo-header (gsoNoneChecksum).  A step is a     *)
(* load, a return, a fold or a store.                                      *)
(*                                                                         *)
(* The machine is little-endian.  Its byte has Byte values, so that words  *)
(* of two, four and eight bytes are small enough for TLC; nothing below    *)
(* depends on Byte = 256.                                                  *)
(***************************************************************************)
EXTENDS Integers, Sequences

CONSTANTS
    Byte,   \* the number of values of a byte
    Jobs    \* checksums to compute: [pseudo, packet, field, parked]

Bytes == 0 .. Byte - 1
M16 == Byte * Byte
M32 == M16 * M16
M64 == M32 * M32

\* pseudo is the sequence of buffers summed before the packet (source address,
\* destination address, protocol and length; none for an IPv4 header), field
\* the place of the checksum in packet, parked says that packet has the sum of the
\* pseudo-header there already.  A length is a size_t.
ASSUME ByteAssumption == Byte \in Nat /\ Byte >= 2
ASSUME JobsAssumption ==
    \A j \in Jobs :
        /\ j.pseudo \in Seq(Seq(Bytes)) /\ j.packet \in Seq(Bytes)
        /\ j.field \in 1 .. Len(j.packet) - 1 /\ j.parked \in BOOLEAN
        /\ Len(j.packet) < M64 /\ \A x \in 1 .. Len(j.pseudo) : Len(j.pseudo[x]) < M64

VARIABLES
    job,    \* the checksum to compute
    packet, \* the packet from csumStart on, or the IPv4 header
    bufs,   \* buffers still to be summed; the first is being summed
    pos,    \* the next byte of it
    ac,     \* the 128-bit accumulator
    sum,    \* the 64-bit sum between calls, and while it is folded
    folds,  \* folds done
    step,   \* the next step
    total   \* history: what has been summed, as numbers without a width

csumVars == <<job, packet, bufs, pos, ac, sum, folds, step, total>>

-----------------------------------------------------------------------------
(* Memory and arithmetic.                                                  *)

\* Little-endian loads of the bytes of b from i on.
LoadU16(b, i) == b[i] + Byte * b[i + 1]
LoadU32(b, i) == LoadU16(b, i) + M16 * LoadU16(b, i + 2)
LoadU64(b, i) == LoadU32(b, i) + M32 * LoadU32(b, i + 4)

\* getBE16 and putBE16.
GetBE16(b, i) == Byte * b[i] + b[i + 1]
PutBE16(b, i, v) == [b EXCEPT ![i] = v \div Byte, ![i + 1] = v % Byte]

BSwap16(v) == Byte * (v % Byte) + (v \div Byte)
BSwap32(v) == M16 * BSwap16(v % M16) + BSwap16(v \div M16)
\* __builtin_bswap64
BSwap64(v) == M32 * BSwap32(v % M32) + BSwap32(v \div M32)

\* Fault: the carry out of the 64-bit addition is lost.
EndAroundNoCarry(a) == ((a % M64) + (a \div M64)) % M64

\* lo + hi in 64 bits, and one more when that wraps (sum < lo).
EndAround(a) ==
    LET s == (a % M64) + (a \div M64)
    IN  IF s >= M64 THEN s - M64 + 1 ELSE s

Fold(v) == (v \div M16) + (v % M16)

\* Fault: three folds.
ThreeFolds == 3

Folds == 4

\* Fault: an odd last byte is the low byte of its word.
OddTailLow(b, i) == Byte * b[i]

\* Odd tail: pad to LE u16 [b,0] = b.
OddTail(b, i) == b[i]

\* Fault: the field keeps what was there.
FieldKept == packet

\* The checksum field counts as zero.
FieldZeroed == PutBE16(packet, job.field, 0)

-----------------------------------------------------------------------------

CsumInit ==
    /\ job \in Jobs
    /\ packet = job.packet
    /\ bufs = <<>>
    /\ pos = 1 /\ ac = 0 /\ sum = 0 /\ folds = 0 /\ total = 0
    /\ step = "enter"

\* gsoNoneChecksum: the parked sum is the initial value.
EnterParked ==
    /\ step = "enter" /\ job.parked
    /\ sum' = GetBE16(packet, job.field)
    /\ total' = GetBE16(packet, job.field)
    /\ packet' = FieldZeroed
    /\ bufs' = <<packet'>>
    /\ step' = "call"
    /\ UNCHANGED <<job, pos, ac, folds>>

\* gsoSplit: pseudoHeaderChecksumNoFold, then the segment; or the IPv4 header.
EnterSplit ==
    /\ step = "enter" /\ ~job.parked
    /\ packet' = FieldZeroed
    /\ bufs' = Append(job.pseudo, packet')
    /\ step' = "call"
    /\ UNCHANGED <<job, pos, ac, sum, folds, total>>

\* checksumNoFold takes the sum so far as its initial value.
Call ==
    /\ step = "call"
    /\ ac' = BSwap64(sum)
    /\ pos' = 1
    /\ step' = "sum"
    /\ UNCHANGED <<job, packet, bufs, sum, folds, total>>

Buf == Head(bufs)
Left == Len(Buf) - pos + 1

Loaded(n, word, words) ==
    /\ ac' = ac + word
    /\ pos' = pos + n
    /\ total' = total + words
    /\ UNCHANGED <<job, packet, bufs, sum, folds, step>>

Add8 ==
    /\ step = "sum" /\ Left >= 8
    /\ Loaded(8, LoadU64(Buf, pos),
              GetBE16(Buf, pos) + GetBE16(Buf, pos + 2)
                + GetBE16(Buf, pos + 4) + GetBE16(Buf, pos + 6))

Add4 ==
    /\ step = "sum" /\ Left \in 4 .. 7
    /\ Loaded(4, LoadU32(Buf, pos), GetBE16(Buf, pos) + GetBE16(Buf, pos + 2))

Add2 ==
    /\ step = "sum" /\ Left \in 2 .. 3
    /\ Loaded(2, LoadU16(Buf, pos), GetBE16(Buf, pos))

Add1 ==
    /\ step = "sum" /\ Left = 1
    /\ Loaded(1, OddTail(Buf, pos), Byte * Buf[pos])

Return ==
    /\ step = "sum" /\ Left = 0
    /\ sum' = BSwap64(EndAround(ac))
    /\ bufs' = Tail(bufs)
    /\ step' = IF bufs' = <<>> THEN "fold" ELSE "call"
    /\ UNCHANGED <<job, packet, pos, ac, folds, total>>

FoldOnce ==
    /\ step = "fold" /\ folds < Folds
    /\ sum' = Fold(sum)
    /\ folds' = folds + 1
    /\ UNCHANGED <<job, packet, bufs, pos, ac, step, total>>

\* (u16)~checksum(...), big-endian, into the packet.
Store ==
    /\ step = "fold" /\ folds = Folds
    /\ packet' = PutBE16(packet, job.field, M16 - 1 - (sum % M16))
    /\ step' = "done"
    /\ UNCHANGED <<job, bufs, pos, ac, sum, folds, total>>

CsumNext ==
    \/ EnterParked \/ EnterSplit \/ Call
    \/ Add8 \/ Add4 \/ Add2 \/ Add1 \/ Return
    \/ FoldOnce \/ Store

CsumSpec == CsumInit /\ [][CsumNext]_csumVars

-----------------------------------------------------------------------------
(* Properties.                                                             *)

\* RFC 1071: the words of a buffer, padded with a zero byte, added one after
\* the other with the carry brought back at once.
OnesAdd(x, y) == IF x + y >= M16 THEN x + y - M16 + 1 ELSE x + y

ByteAt(b, i) == IF i <= Len(b) THEN b[i] ELSE 0
Words(b) == (Len(b) + 1) \div 2
Word(b, n) == Byte * ByteAt(b, 2 * n - 1) + ByteAt(b, 2 * n)

\* The sums after 0, 1, .. words of b.
WordSums(initial, b) ==
    LET s[n \in 0 .. Words(b)] ==
            IF n = 0 THEN initial ELSE OnesAdd(s[n - 1], Word(b, n))
    IN  s

OnesSum(initial, b) == WordSums(initial, b)[Words(b)]

\* The sums after 0, 1, .. buffers of bs.
BufferSums(bs) ==
    LET s[n \in 0 .. Len(bs)] == IF n = 0 THEN 0 ELSE OnesSum(s[n - 1], bs[n])
    IN  s

OnesSumAll(bs) == BufferSums(bs)[Len(bs)]

\* The checksum stands at an even offset: 10 of an IPv4 header (gso.cpp:73, 115), and
\* csumOffset, which is 16 for TCP and 6 for UDP.  What the kernel parks there is the
\* sum of the pseudo-header (gso.cpp:49).
ASSUME FieldAssumption == \A j \in Jobs : j.field % 2 = 1
ASSUME ParkedAssumption ==
    \A j \in Jobs : j.parked => GetBE16(j.packet, j.field) = OnesSumAll(j.pseudo)

(* Types: sums stay within their widths.                                   *)
CsumTypeOK ==
    /\ packet \in Seq(Bytes) /\ Len(packet) = Len(job.packet)
    /\ bufs \in Seq(Seq(Bytes))
    /\ step \in {"enter", "call", "sum", "fold", "done"}
    /\ step \in {"call", "sum"} => bufs # <<>>
    /\ pos \in Nat \ {0} /\ (step = "sum" => pos <= Len(Buf) + 1)
    /\ ac \in Nat /\ sum \in 0 .. M64 - 1 /\ total \in Nat /\ folds \in 0 .. Folds

\* A receiver of the packet that adds up the pseudo-header and the packet as
\* RFC 1071 says gets all ones, and every other byte is as it was: whether the
\* sum was parked by the kernel or taken over the pseudo-header here, for odd
\* lengths and with carries out of every width (csum.cpp:25-83, gso.cpp:46).
ReceiverAccepts ==
    step = "done" =>
        /\ OnesSumAll(Append(job.pseudo, packet)) = M16 - 1
        /\ \A i \in DOMAIN packet : i \notin job.field .. job.field + 1 => packet[i] = job.packet[i]

\* x and y are the same number in one's complement.
Same(x, y) == \E q \in Int : x - y = q * (M16 - 1)

\* The four folds of checksum (csum.cpp:66) leave no carry for the cast to u16
\* to cut off.
NothingCut == step = "fold" /\ folds = Folds => sum < M16

\* The accumulator, which is summed byte-swapped, and the sum between calls are
\* always the sum of the words so far: a swap, a carry brought back or a fold
\* never changes it, nor does the cast at the end (csum.cpp:27, 60-71).
SumHonest ==
    /\ step = "sum" => (Byte * ac - total) % (M16 - 1) = 0
    /\ step \in {"call", "fold"} => (sum - total) % (M16 - 1) = 0
    /\ NothingCut

=============================================================================
