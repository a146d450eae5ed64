--------------------------- MODULE DataPath_proofs ---------------------------
(***************************************************************************)
(* For any packets, any sizes of buffers, parts and batches, any paths and *)
(* whatever the network loses, reorders and glues together: the buffers of *)
(* a packet are enough, and every frame of a packet that was read is in    *)
(* the path, has been written or was lost for a reason.                    *)
(***************************************************************************)
EXTENDS DataPath, FiniteSetTheorems, TLAPS

-----------------------------------------------------------------------------
(* Frames.                                                                 *)

Frames == UNION {Ideal(p) : p \in Packets}

Datagrams == Frames \cup {ProbeMsg}

\* Segment k (from 0) of a super-packet.
SegAt(p, k) ==
    Segment(p, k, p.gsoSize * k,
            IF p.gsoSize * k + p.gsoSize > p.len THEN p.len ELSE p.gsoSize * k + p.gsoSize)

\* The quotient of a multiple.
LEMMA Multiple ==
    ASSUME NEW g \in Nat, g >= 1, NEW k \in Nat
    PROVE  (g * k) \div g = k /\ (g * k) % g = 0
<1> DEFINE v == g * k
<1>1. v \in Nat
  OBVIOUS
<1> HIDE DEF v
<1>2. v \div g \in Nat /\ v % g \in 0 .. g - 1 /\ v = g * (v \div g) + (v % g)
  BY <1>1
<1>3. PICK q \in Nat, r \in Nat : q = v \div g /\ r = v % g /\ r < g /\ v = g * q + r
  BY <1>2
<1>4. CASE q > k
  <2>1. PICK e \in Nat : e >= 1 /\ q = k + e
    <3>1. q - k \in Nat /\ q - k >= 1 /\ q = k + (q - k)
      BY <1>4
    <3> QED BY <3>1
  <2>2. g * q = g * k + g * e /\ g * e >= g /\ g * e \in Nat /\ g * k \in Nat
    BY <2>1
  <2> QED BY <1>3, <2>2 DEF v
<1>5. CASE q < k
  <2>1. PICK e \in Nat : e >= 1 /\ k = q + e
    <3>1. k - q \in Nat /\ k - q >= 1 /\ k = q + (k - q)
      BY <1>5
    <3> QED BY <3>1
  <2>2. g * k = g * q + g * e /\ g * e >= g /\ g * e \in Nat /\ g * q \in Nat
    BY <2>1
  <2> QED BY <1>3, <2>2 DEF v
<1>6. CASE q = k
  <2>1. g * q \in Nat /\ v = g * q
    BY <1>6 DEF v
  <2>2. r = 0
    BY <1>3, <2>1
  <2> QED BY <1>3, <1>6, <2>2 DEF v
<1> QED BY <1>4, <1>5, <1>6

\* The segments of a super-packet are what it stands for.
LEMMA SegmentIdeal ==
    ASSUME NEW p \in Packets, p.gsoType = "TCPV4", NEW k \in Nat, p.gsoSize * k < p.len
    PROVE  SegAt(p, k) \in Cuts(p)
<1> DEFINE from == p.gsoSize * k
           end == IF from + p.gsoSize > p.len THEN p.len ELSE from + p.gsoSize
<1>1. PICK g \in Nat, len \in Nat : g = p.gsoSize /\ len = p.len /\ g >= 1
  BY PacketsAssumption
<1>2. from \in Nat /\ from < len /\ from \div g = k /\ from % g = 0
  <2>1. g * k \in Nat
    OBVIOUS
  <2>2. (g * k) \div g = k /\ (g * k) % g = 0
    BY <1>1, Multiple, Zenon
  <2> QED BY <1>1, <2>1, <2>2
<1>3. SegAt(p, k) = Segment(p, k, from, end)
  BY DEF SegAt
<1>4. p.gsoSize * k = from
  OBVIOUS
<1> HIDE DEF from
<1>5. (end = len <=> from + g >= len)
      /\ end - from = IF from + g >= len THEN len - from ELSE g
  BY <1>1, <1>2
<1>6. from \in {x \in 0 .. len - 1 : x % g = 0}
  BY <1>1, <1>2
<1> HIDE DEF end
<1>7. Segment(p, k, from, end) =
        [pid |-> p.pid, id |-> (p.id + from \div g) % U16,
         seq |-> (p.seq + from) % U32,
         flags |-> IF from + g >= len THEN p.flags ELSE p.flags \ {"FIN", "PSH"},
         from |-> from,
         len |-> IF from + g >= len THEN len - from ELSE g]
  BY <1>1, <1>2, <1>4, <1>5 DEF Segment
<1> QED BY <1>1, <1>3, <1>6, <1>7 DEF Cuts

LEMMA IdealSegment ==
    ASSUME NEW p \in Packets, p.gsoType = "TCPV4", NEW f \in Cuts(p)
    PROVE  \E k \in Nat : p.gsoSize * k < p.len /\ f = SegAt(p, k)
<1>1. PICK g \in Nat, len \in Nat : g = p.gsoSize /\ len = p.len /\ g >= 1
  BY PacketsAssumption
<1>2. PICK from \in Nat :
        /\ from < len /\ from % g = 0
        /\ f = [pid |-> p.pid, id |-> (p.id + from \div g) % U16,
                seq |-> (p.seq + from) % U32,
                flags |-> IF from + g >= len THEN p.flags ELSE p.flags \ {"FIN", "PSH"},
                from |-> from,
                len |-> IF from + g >= len THEN len - from ELSE g]
  BY <1>1 DEF Cuts
<1>3. PICK k \in Nat : k = from \div g /\ from = g * k
  BY <1>1, <1>2
<1> DEFINE end == IF from + g > len THEN len ELSE from + g
<1>4. (end = len <=> from + g >= len)
      /\ end - from = IF from + g >= len THEN len - from ELSE g
  BY <1>1, <1>2
<1>5. SegAt(p, k) = Segment(p, k, from, end)
  BY <1>1, <1>3 DEF SegAt
<1> HIDE DEF end
<1>6. f = Segment(p, k, from, end)
  BY <1>1, <1>2, <1>3, <1>4 DEF Segment
<1> QED BY <1>1, <1>2, <1>3, <1>5, <1>6

\* A frame is no probe, and as long as its headers at least.
LEMMA FrameIs ==
    ASSUME NEW f \in Frames
    PROVE  /\ f # ProbeMsg /\ f # Garbage /\ f.pid \in Nat \ {0}
           /\ Size(f) \in Nat /\ Size(f) >= MinLen /\ Size(f) >= 1
<1>1. PICK p \in Packets : f \in Ideal(p)
  BY DEF Frames
<1>2. f.pid = p.pid /\ f.len \in Nat
  <2>1. CASE f = Plain(p)
    BY <2>1, PacketsAssumption DEF Plain
  <2>2. CASE f \in Cuts(p) /\ p.gsoType = "TCPV4"
    <3>1. PICK from \in 0 .. p.len - 1 :
            /\ f.pid = p.pid
            /\ f.len = IF from + p.gsoSize >= p.len THEN p.len - from ELSE p.gsoSize
      BY <2>2 DEF Cuts
    <3> QED BY <2>2, <3>1, PacketsAssumption
  <2> QED BY <1>1, <2>1, <2>2 DEF Ideal
<1>3. f.pid \in Nat \ {0}
  BY <1>2, PacketsAssumption
<1>4. f # ProbeMsg /\ f # Garbage
  BY <1>3 DEF ProbeMsg, Garbage
<1>5. Size(f) = HdrLen + f.len
  BY <1>4 DEF Size
<1>6. HdrLen \in Nat \ {0} /\ MinLen \in 1 .. HdrLen
  BY SizesAssumption
<1> QED BY <1>2, <1>3, <1>4, <1>5, <1>6

\* One frame is cut nowhere.
LEMMA CutOne == ASSUME NEW f, Size(f) \in Int PROVE Cut(<<f>>, Size(f)) = <<f>>
<1>1. Len(<<f>>) = 1 /\ Last(<<f>>) = f /\ 1 .. Len(<<f>>) - 1 = {}
  BY DEF Last
<1> QED BY <1>1 DEF Cut

\* All segments of a super-packet but the last have one size, and the last is no longer.
LEMMA SegSize ==
    ASSUME NEW p \in Packets, p.gsoType = "TCPV4", Known(p),
           NEW k \in Nat, p.gsoSize * k < p.len
    PROVE  /\ SegAt(p, k) \in Frames
           /\ Size(SegAt(p, k)) <= HdrLen + p.gsoSize
           /\ p.gsoSize * (k + 1) < p.len => Size(SegAt(p, k)) = HdrLen + p.gsoSize
<1>1. PICK g \in Nat, len \in Nat : g = p.gsoSize /\ len = p.len /\ g >= 1
  BY PacketsAssumption
<1>2. SegAt(p, k) \in Frames
  BY SegmentIdeal DEF Frames, Ideal
<1>3. PICK f : f = SegAt(p, k)
  OBVIOUS
<1>4. PICK from \in Nat : from = g * k /\ from < len
  BY <1>1
<1>5. f.len = (IF from + g > len THEN len ELSE from + g) - from
  BY <1>1, <1>3, <1>4 DEF SegAt, Segment
<1>6. f.len \in Nat /\ f.len <= g
  BY <1>4, <1>5
<1>7. Size(f) = HdrLen + f.len /\ HdrLen \in Nat
  BY <1>2, <1>3, FrameIs, SizesAssumption DEF Size
<1>8. ASSUME g * (k + 1) < len PROVE f.len = g
  <2>1. g * (k + 1) = from + g
    BY <1>4
  <2> QED BY <1>4, <1>5, <1>8, <2>1
<1> QED BY <1>1, <1>2, <1>3, <1>6, <1>7, <1>8

\* n segments of a super-packet, in their order.
Segments(p, ss) ==
    /\ ss \in Seq(Frames)
    /\ \A x \in 1 .. Len(ss) : p.gsoSize * (x - 1) < p.len /\ ss[x] = SegAt(p, x - 1)

\* No two segments begin at the same byte.
LEMMA SegmentsDiffer ==
    ASSUME NEW p \in Packets, p.gsoType = "TCPV4", NEW ss, Segments(p, ss),
           NEW x \in 1 .. Len(ss), NEW y \in 1 .. Len(ss), x < y
    PROVE  ss[x] # ss[y]
<1>1. PICK g \in Nat : g = p.gsoSize /\ g >= 1
  BY PacketsAssumption
<1>2. PICK k \in Nat, e \in Nat : k = x - 1 /\ e >= 1 /\ y - 1 = k + e
  <2>1. Len(ss) \in Nat /\ x \in Nat /\ y \in Nat /\ x >= 1
    BY DEF Segments
  <2>2. x - 1 \in Nat /\ y - x \in Nat /\ y - x >= 1 /\ y - 1 = (x - 1) + (y - x)
    BY <2>1
  <2> QED BY <2>2
<1>3. ss[x] = SegAt(p, k) /\ ss[y] = SegAt(p, k + e)
  BY <1>2 DEF Segments
<1>4. SegAt(p, k).from = g * k /\ SegAt(p, k + e).from = g * (k + e)
  BY <1>1 DEF SegAt, Segment
<1>5. PICK a \in Nat, b \in Nat : a = g * k /\ b = g * e /\ b >= 1 /\ g * (k + e) = a + b
  <2>1. g * k \in Nat /\ g * e \in Nat /\ g * (k + e) = g * k + g * e
    OBVIOUS
  <2>2. g * e >= 1
    BY <1>1, <1>2
  <2> QED BY <2>1, <2>2
<1>6. a + b # a
  BY <1>5
<1> QED BY <1>3, <1>4, <1>5, <1>6

\* The kernel cuts a part into the frames it was made of.
LEMMA PartCut ==
    ASSUME NEW p \in Packets, p.gsoType = "TCPV4", Known(p), NEW ss, Segments(p, ss),
           NEW i \in 1 .. Len(ss), NEW j \in i .. Len(ss)
    PROVE  /\ ToSet(SubSeq(ss, i, j)) = {ss[x] : x \in i .. j}
           /\ KernelSegment(SubSeq(ss, i, j), Size(ss[1])) = {ss[x] : x \in i .. j}
<1>1. /\ Len(ss) \in Nat /\ i \in Nat /\ j \in Nat /\ i >= 1 /\ i <= j /\ j <= Len(ss)
      /\ ss \in Seq(Frames)
  BY DEF Segments
<1>2. PICK g \in Nat, h \in Nat : g = p.gsoSize /\ h = HdrLen /\ g >= 1
  BY PacketsAssumption, SizesAssumption
<1> DEFINE part == SubSeq(ss, i, j)  n == j - i + 1
<1>3. /\ part \in Seq(Frames) /\ Len(part) = n /\ n \in Nat /\ n >= 1
      /\ \A x \in 1 .. n : part[x] = ss[i + x - 1]
  BY <1>1
<1>4. \A x \in 1 .. Len(ss) :
        Size(ss[x]) \in Nat /\ Size(ss[x]) <= h + g /\ (x < Len(ss) => Size(ss[x]) = h + g)
  <2> TAKE x \in 1 .. Len(ss)
  <2>1. x - 1 \in Nat /\ g * (x - 1) < p.len /\ ss[x] = SegAt(p, x - 1) /\ ss[x] \in Frames
    BY <1>1, <1>2 DEF Segments
  <2>2. Size(ss[x]) \in Nat /\ Size(ss[x]) <= h + g
    BY <1>2, <2>1, SegSize, FrameIs
  <2>3. ASSUME x < Len(ss) PROVE Size(ss[x]) = h + g
    <3>1. x + 1 \in 1 .. Len(ss) /\ (x + 1) - 1 = x /\ (x - 1) + 1 = x
      BY <1>1, <2>3
    <3>2. g * ((x - 1) + 1) < p.len
      BY <1>2, <3>1 DEF Segments
    <3> QED BY <1>2, <2>1, <3>2, SegSize
  <2> QED BY <2>2, <2>3
<1>5. ToSet(part) = {ss[x] : x \in i .. j}
  <2>1. DOMAIN part = 1 .. n
    BY <1>3
  <2>2. \A x \in 1 .. n : i + x - 1 \in i .. j
    BY <1>1
  <2>3. \A x \in i .. j : x - i + 1 \in 1 .. n /\ i + (x - i + 1) - 1 = x
    BY <1>1
  <2> HIDE DEF part, n
  <2>4. \A x \in 1 .. n : part[x] \in {ss[y] : y \in i .. j}
    BY <1>3, <2>2
  <2>5. \A x \in i .. j : ss[x] \in {part[y] : y \in 1 .. n}
    BY <1>3, <2>3
  <2> QED BY <2>1, <2>4, <2>5 DEF ToSet
<1>6. Cut(part, Size(ss[1])) = part
  <2> HIDE DEF part, n
  <2>1. Last(part) = part[n] /\ n \in 1 .. n
    BY <1>3 DEF Last
  <2>2. CASE Len(ss) = 1
    <3>1. n = 1 /\ part[1] = ss[1] /\ 1 .. Len(part) - 1 = {} /\ Size(ss[1]) \in Nat
      BY <1>1, <1>3, <1>4, <2>2 DEF n
    <3>2. PICK a \in Nat : a = Size(ss[1])
      BY <3>1
    <3>3. Size(Last(part)) = a /\ a <= a
      BY <2>1, <3>1, <3>2
    <3> QED BY <3>1, <3>2, <3>3 DEF Cut
  <2>3. CASE Len(ss) # 1
    <3>0. 1 \in 1 .. Len(ss) /\ 1 < Len(ss)
      <4>1. PICK l \in Nat : l = Len(ss) /\ i <= j /\ j <= l /\ l # 1
        BY <1>1, <2>3
      <4>2. l > 1 /\ 1 \in 1 .. l
        BY ONLY <1>1, <4>1, l \in Nat
      <4> QED BY <4>1, <4>2
    <3>1. Size(ss[1]) = h + g
      BY <1>4, <3>0
    <3>2. \A x \in 1 .. Len(part) - 1 : Size(part[x]) = h + g
      <4> TAKE x \in 1 .. Len(part) - 1
      <4>1. x \in 1 .. n /\ i + x - 1 \in 1 .. Len(ss) /\ i + x - 1 < Len(ss)
        BY <1>1, <1>3 DEF n
      <4> QED BY <1>3, <1>4, <4>1
    <3>3. Size(part[n]) <= h + g
      <4>1. i + n - 1 \in 1 .. Len(ss)
        BY <1>1, <1>3 DEF n
      <4> QED BY <1>3, <1>4, <2>1, <4>1
    <3> QED BY <2>1, <3>1, <3>2, <3>3 DEF Cut
  <2> QED BY <2>2, <2>3
<1> QED BY <1>5, <1>6 DEF KernelSegment

-----------------------------------------------------------------------------
(* Messages.                                                               *)

\* A message of the kernel: one datagram, or several frames and their size.
Single(m) == m.gso = 0 /\ \E d \in Datagrams : m.frames = <<d>>

Glued(m) ==
    /\ m.frames \in Seq(Frames) /\ Len(m.frames) > 1
    /\ m.gso = Size(m.frames[1]) /\ Cut(m.frames, m.gso) = m.frames

Messages == {m \in [frames : Seq(Datagrams), gso : Nat] : Single(m) \/ Glued(m)}

\* What udpReader writes of a message is its frames.
LEMMA ChunksRight ==
    ASSUME NEW m \in Messages
    PROVE  /\ Chunks(m) \in Seq(Frames)
           /\ Chunks(m) = <<>> \/ Chunks(m) = m.frames
           /\ ToSet(Chunks(m)) = ToSet(m.frames) \ {ProbeMsg}
<1>0. MinLen \in Nat /\ MinLen >= 1
  BY SizesAssumption
<1>1. CASE Single(m)
  <2>1. PICK d \in Datagrams : m.frames = <<d>> /\ m.gso = 0
    BY <1>1 DEF Single
  <2>2. Size(d) \in Nat
    BY FrameIs DEF Datagrams, Size
  <2>3. PayloadLen(m.frames) = Size(d)
    <3>1. Len(<<d>>) - 1 = 0 /\ Head(<<d>>) = d /\ Last(<<d>>) = d
      BY DEF Last
    <3>2. 0 * Size(d) + Size(d) = Size(d)
      BY <2>2
    <3> QED BY <2>1, <3>1, <3>2 DEF PayloadLen
  <2>4. ToSet(m.frames) = {d}
    BY <2>1 DEF ToSet
  <2>5. CASE d = ProbeMsg
    <3>1. Size(d) = 0
      BY <2>5 DEF Size
    <3>2. Chunks(m) = <<>>
      BY <1>0, <2>3, <3>1 DEF Chunks
    <3>3. ToSet(<<>>) = {}
      BY DEF ToSet
    <3> QED BY <2>4, <2>5, <3>2, <3>3
  <2>6. CASE d \in Frames
    <3>1. Size(d) >= MinLen /\ d # ProbeMsg
      BY <2>6, FrameIs
    <3>2. Chunks(m) = Cut(<<d>>, Size(d))
      BY <1>0, <2>1, <2>2, <2>3, <3>1 DEF Chunks
    <3>3. Chunks(m) = <<d>>
      BY <2>2, <3>2, CutOne
    <3> QED BY <2>1, <2>4, <2>6, <3>1, <3>3
  <2> QED BY <2>5, <2>6 DEF Datagrams
<1>2. CASE Glued(m)
  <2>1. PICK fs \in Seq(Frames) : fs = m.frames /\ Len(fs) > 1 /\ m.gso = Size(fs[1])
                                   /\ Cut(fs, m.gso) = fs
    BY <1>2 DEF Glued
  <2>2. /\ Len(fs) \in Nat /\ Head(fs) = fs[1] /\ Last(fs) = fs[Len(fs)]
        /\ fs[1] \in Frames /\ fs[Len(fs)] \in Frames
    BY <2>1 DEF Last
  <2>3. PICK a \in Nat, b \in Nat, n \in Nat :
          /\ a = Size(fs[1]) /\ b = Size(fs[Len(fs)]) /\ n = Len(fs) - 1
          /\ a >= 1 /\ b >= 1 /\ a >= MinLen /\ n >= 1
    <3>1. Len(fs) - 1 \in Nat /\ Len(fs) - 1 >= 1
      BY <2>1, <2>2
    <3> QED BY <2>2, <3>1, FrameIs
  <2>4. PayloadLen(fs) = n * a + b
    BY <2>2, <2>3 DEF PayloadLen
  <2>5. n * a + b \in Nat /\ n * a + b > a
    <3>1. n * a >= a /\ n * a \in Nat
      BY <2>3
    <3>2. PICK w \in Nat : w = n * a
      BY <3>1
    <3>3. w >= a /\ b >= 1
      BY <2>3, <3>1, <3>2
    <3>4. w + b \in Nat /\ w + b > a
      BY ONLY <3>3, w \in Nat, a \in Nat, b \in Nat
    <3> QED BY <3>2, <3>4
  <2>6. Chunks(m) = fs
    <3>0. PICK w \in Nat : w = PayloadLen(fs) /\ w > a
      BY <2>4, <2>5
    <3>1. w >= MinLen /\ a > 0 /\ w = PayloadLen(fs)
      <4>1. a >= MinLen /\ a >= 1
        BY <2>3
      <4>2. w >= MinLen /\ a > 0
        BY ONLY <1>0, <3>0, <4>1, w \in Nat, a \in Nat
      <4> QED BY <3>0, <4>2
    <3>2. ~(w < MinLen) /\ a < w
      BY ONLY <1>0, <3>0, <3>1, w \in Nat, a \in Nat
    <3> QED BY <2>1, <2>3, <3>1, <3>2 DEF Chunks
  <2>7. ProbeMsg \notin ToSet(fs)
    BY FrameIs DEF ToSet
  <2> QED BY <2>1, <2>6, <2>7
<1> QED BY <1>1, <1>2 DEF Messages

\* The datagrams of the messages from the k-th on.
Later(ms, k) == UNION {ToSet(ms[x].frames) : x \in k .. Len(ms)}

LEMMA LaterFirst ==
    ASSUME NEW S, NEW ms \in Seq(S), NEW k \in 1 .. Len(ms)
    PROVE  Later(ms, k) = ToSet(ms[k].frames) \cup Later(ms, k + 1)
<1>1. k .. Len(ms) = {k} \cup (k + 1 .. Len(ms))
  OBVIOUS
<1> QED BY <1>1 DEF Later

LEMMA LaterNone ==
    ASSUME NEW S, NEW ms \in Seq(S)
    PROVE  Later(ms, Len(ms) + 1) = {}
<1>1. Len(ms) + 1 .. Len(ms) = {}
  OBVIOUS
<1> QED BY <1>1 DEF Later

LEMMA LaterAppend ==
    ASSUME NEW S, NEW ms \in Seq(S), NEW m \in S, NEW k \in 1 .. Len(ms) + 1
    PROVE  Later(Append(ms, m), k) = Later(ms, k) \cup ToSet(m.frames)
<1>1. /\ Len(Append(ms, m)) = Len(ms) + 1 /\ Append(ms, m)[Len(ms) + 1] = m
      /\ \A x \in k .. Len(ms) : Append(ms, m)[x] = ms[x]
  OBVIOUS
<1>2. k .. Len(ms) + 1 = (k .. Len(ms)) \cup {Len(ms) + 1}
  OBVIOUS
<1> QED BY <1>1, <1>2 DEF Later

-----------------------------------------------------------------------------
(* The invariant.                                                          *)

\* The next part begins where the parts so far end.
Turn ==
    at = IF parts * PartSize(Len(segs)) <= Len(segs)
         THEN parts * PartSize(Len(segs)) + 1 ELSE Len(segs) + 1

TxTyped ==
    /\ offered \subseteq Packets
    /\ txPc \in {"read", "split", "sendOne", "sendUso"}
    /\ segs \in Seq(Frames) /\ Len(segs) <= MAX_SEGS
    /\ at \in 1 .. Len(segs) + 1 /\ parts \in 0 .. USO_PARTS

TxInv ==
    /\ TxTyped
    /\ txPc = "read" => pkt = NoPacket /\ segs = <<>>
    /\ txPc # "read" => pkt \in Packets /\ Known(pkt)
    /\ txPc # "sendUso" => at = 1 /\ parts = 0
    /\ txPc = "sendOne" => pkt.gsoType = "NONE" /\ segs = <<Plain(pkt)>>
    /\ txPc \in {"split", "sendUso"} =>
         pkt.gsoType = "TCPV4" /\ Segments(pkt, segs) /\ nextDataAt = pkt.gsoSize * Len(segs)
    /\ txPc = "sendUso" => nextDataAt >= pkt.len /\ Turn

NetInv == net \subseteq Paths \X Datagrams /\ IsFiniteSet(net)

\* What udpReader has: the messages from the k-th on, the chunks of the one it writes.
\* A message that is not read has room for its cmsg, and so have those still to be filled.
RxOK(pc, ms, k, cs, rm) ==
    /\ Len(ms) <= BATCH
    /\ pc = "recv" => k = 1
    /\ pc # "recv" => k <= Len(ms)
    /\ pc = "write" <=> cs # <<>>
    /\ \A x \in 1 .. BATCH :
        \/ rm[x]
        \/ /\ x <= Len(ms)
           /\ pc = "recv" \/ (pc = "msg" /\ k <= x) \/ (pc = "write" /\ k < x)

RxInv ==
    /\ rxPc \in [Paths -> {"recv", "msg", "write"}]
    /\ rxMsgs \in [Paths -> Seq(Messages)]
    /\ rxAt \in [Paths -> 1 .. BATCH]
    /\ rxChunks \in [Paths -> Seq(Frames)]
    /\ room \in [Paths -> [1 .. BATCH -> BOOLEAN]]
    /\ \A p \in Paths : RxOK(rxPc[p], rxMsgs[p], rxAt[p], rxChunks[p], room[p])

LEMMA InitInv == Init => TxInv /\ NetInv /\ RxInv
<1> SUFFICES ASSUME Init PROVE TxInv /\ NetInv /\ RxInv
  OBVIOUS
<1>1. /\ offered = {} /\ txPc = "read" /\ pkt = NoPacket /\ segs = <<>> /\ at = 1 /\ parts = 0
      /\ net = {} /\ rxPc = [p \in Paths |-> "recv"] /\ rxMsgs = [p \in Paths |-> <<>>]
      /\ rxAt = [p \in Paths |-> 1] /\ rxChunks = [p \in Paths |-> <<>>]
      /\ room = [p \in Paths |-> [x \in 1 .. BATCH |-> TRUE]]
  BY DEF Init
<1>2. Len(segs) = 0 /\ segs \in Seq(Frames)
  BY <1>1
<1>3. TxInv
  BY <1>1, <1>2, SizesAssumption DEF TxInv, TxTyped
<1>4. 1 \in 1 .. BATCH /\ Len(<<>>) = 0 /\ 0 <= BATCH
  BY SizesAssumption
<1>5. RxInv
  BY <1>1, <1>4 DEF RxInv, RxOK
<1>6. NetInv
  BY <1>1, FS_EmptySet DEF NetInv
<1> QED BY <1>3, <1>5, <1>6

-----------------------------------------------------------------------------
(* tunReader.                                                              *)

\* Some frames are handed to the kernel and are datagrams in the network then, or lost.
Sent(fs) ==
    \E p \in Paths : \/ net' = net \cup ({p} \X fs) /\ lost' = lost
                     \/ net' = net /\ lost' = lost \cup fs

\* What a step of tunReader does to the frames in it: they stay, they are lost,
\* or some are sent.
TxMoves ==
    \/ TxFrames' = TxFrames /\ net' = net /\ lost' = lost
    \/ TxFrames' = {} /\ net' = net /\ lost' = lost \cup TxFrames
    \/ \E fs \in SUBSET Frames :
         IsFiniteSet(fs) /\ TxFrames = fs \cup TxFrames' /\ fs \cap TxFrames' = {} /\ Sent(fs)

LEMMA TxFramesTyped ==
    ASSUME TxInv
    PROVE  TxFrames \subseteq Frames
<1>1. CASE txPc = "split"
  BY <1>1 DEF TxInv, TxFrames, Frames
<1>2. CASE txPc = "sendUso"
  <2>1. segs \in Seq(Frames) /\ at \in 1 .. Len(segs) + 1
    BY DEF TxInv, TxTyped
  <2>2. \A x \in at .. Len(segs) : segs[x] \in Frames
    BY <2>1
  <2> QED BY <1>2, <2>2 DEF TxFrames
<1>3. CASE txPc \notin {"split", "sendUso"}
  <2>1. TxFrames = ToSet(segs)
    BY <1>3 DEF TxFrames
  <2>2. segs \in Seq(Frames)
    BY DEF TxInv, TxTyped
  <2> QED BY <2>1, <2>2 DEF ToSet
<1> QED BY <1>1, <1>2, <1>3

LEMMA ReadKeeps ==
    ASSUME TxInv, NEW p \in Packets, TunRead(p)
    PROVE  /\ TxInv' /\ TxFrames = {} /\ TxFrames' = Ideal(p)
           /\ offered' = offered \cup {p}
<1>1. /\ txPc = "read" /\ segs = <<>> /\ at = 1 /\ parts = 0 /\ pkt = NoPacket
      /\ offered' = offered \cup {p} /\ offered' \subseteq Packets
  BY DEF TxInv, TxTyped, TunRead
<1>2. TxFrames = {}
  BY <1>1 DEF TxFrames, ToSet
<1>3. CASE (~Known(p) \/ p.gsoType \notin {"NONE", "TCPV4"}) /\ UNCHANGED txVars
  <2>1. UNCHANGED <<txPc, pkt, segs, nextDataAt, at, parts>>
    BY <1>3 DEF txVars
  <2>2. TxInv'
    BY <1>1, <2>1 DEF TxInv, TxTyped, Turn
  <2>3. TxFrames' = {}
    BY <1>1, <1>2, <2>1 DEF TxFrames
  <2>4. Ideal(p) = {}
    BY <1>3 DEF Ideal
  <2> QED BY <1>1, <1>2, <2>2, <2>3, <2>4
<1>4. CASE /\ Known(p) /\ p.gsoType = "NONE"
           /\ txPc' = "sendOne" /\ pkt' = p /\ segs' = <<Plain(p)>>
           /\ UNCHANGED <<nextDataAt, at, parts>>
  <2>1. Ideal(p) = {Plain(p)} /\ Plain(p) \in Frames
    BY <1>4 DEF Ideal, Frames
  <2>2. segs' \in Seq(Frames) /\ Len(segs') = 1 /\ 1 <= MAX_SEGS
    BY <1>4, <2>1, SizesAssumption
  <2>3. TxInv'
    BY <1>1, <1>4, <2>2, SizesAssumption DEF TxInv, TxTyped
  <2>4. TxFrames' = {Plain(p)}
    BY <1>4 DEF TxFrames, ToSet
  <2> QED BY <1>1, <1>2, <2>1, <2>3, <2>4
<1>5. CASE /\ Known(p) /\ p.gsoType = "TCPV4" /\ txPc' = "split" /\ pkt' = p
           /\ segs' = <<>> /\ nextDataAt' = 0 /\ at' = 1 /\ parts' = 0
  <2>1. segs' \in Seq(Frames) /\ Len(segs') = 0 /\ p.gsoSize * 0 = 0
    BY <1>5, PacketsAssumption
  <2>2. Segments(p, segs')
    BY <2>1 DEF Segments
  <2>3. TxInv'
    BY <1>1, <1>5, <2>1, <2>2, SizesAssumption DEF TxInv, TxTyped
  <2>4. TxFrames' = Ideal(p)
    BY <1>5 DEF TxFrames
  <2> QED BY <1>1, <1>2, <2>3, <2>4
<1> QED BY <1>3, <1>4, <1>5 DEF TunRead

\* The buffers of a packet are given back.
LEMMA IdleKeeps ==
    ASSUME TxInv, TxIdle, offered' = offered
    PROVE  TxInv' /\ TxFrames' = {}
<1>1. /\ txPc' = "read" /\ pkt' = NoPacket /\ segs' = <<>> /\ at' = 1 /\ parts' = 0
  BY DEF TxIdle
<1>2. segs' \in Seq(Frames) /\ Len(segs') = 0
  BY <1>1
<1>3. TxInv'
  BY <1>1, <1>2, SizesAssumption DEF TxInv, TxTyped
<1>4. TxFrames' = {}
  BY <1>1 DEF TxFrames, ToSet
<1> QED BY <1>3, <1>4

LEMMA SplitKeeps ==
    ASSUME TxInv, SplitSegment \/ SplitFail \/ SplitDone
    PROVE  TxInv' /\ TxMoves /\ UNCHANGED <<offered, rxVars, tun>>
<1>1. /\ txPc = "split" /\ pkt \in Packets /\ Known(pkt) /\ at = 1 /\ parts = 0
      /\ pkt.gsoType = "TCPV4" /\ Segments(pkt, segs) /\ nextDataAt = pkt.gsoSize * Len(segs)
      /\ segs \in Seq(Frames) /\ Len(segs) \in Nat /\ Len(segs) <= MAX_SEGS
      /\ offered \subseteq Packets
  BY DEF TxInv, TxTyped, SplitSegment, SplitFail, SplitDone
<1>2. PICK g \in Nat, len \in Nat, n \in Nat :
        g = pkt.gsoSize /\ len = pkt.len /\ n = Len(segs) /\ g >= 1
  <2>1. pkt.gsoSize \in Nat \ {0} /\ pkt.len \in Nat
    BY <1>1, PacketsAssumption
  <2> QED BY <1>1, <2>1
<1>3. TxFrames = Ideal(pkt) /\ Ideal(pkt) = Cuts(pkt)
  BY <1>1 DEF TxFrames, Ideal
<1>4. CASE SplitSegment
  <2>1. /\ g * n < len /\ n # MAX_SEGS
        /\ segs' = Append(segs, SegAt(pkt, n)) /\ nextDataAt' = g * n + g
        /\ UNCHANGED <<offered, txPc, pkt, at, parts, net, rxVars, tun, lost>>
    BY <1>1, <1>2, <1>4 DEF SplitSegment, TooMany, SegAt
  <2>2. SegAt(pkt, n) \in Frames
    BY <1>1, <1>2, <2>1, SegSize
  <2>3. /\ segs' \in Seq(Frames) /\ Len(segs') = n + 1 /\ segs'[n + 1] = SegAt(pkt, n)
        /\ \A x \in 1 .. n : segs'[x] = segs[x]
    BY <1>1, <1>2, <2>1, <2>2
  <2>4. n + 1 <= MAX_SEGS
    BY <1>1, <1>2, <2>1, SizesAssumption
  <2>5. Segments(pkt, segs')
    <3>1. \A x \in 1 .. n + 1 : x \in 1 .. n \/ (x = n + 1 /\ x - 1 = n)
      OBVIOUS
    <3>2. \A x \in 1 .. n + 1 : pkt.gsoSize * (x - 1) < pkt.len /\ segs'[x] = SegAt(pkt, x - 1)
      BY <1>1, <1>2, <2>1, <2>3, <3>1 DEF Segments
    <3> QED BY <2>3, <3>2 DEF Segments
  <2>6. nextDataAt' = g * (n + 1)
    BY <2>1
  <2>7. 1 \in 1 .. (n + 1) + 1 /\ 0 \in 0 .. USO_PARTS
    BY SizesAssumption
  <2>8. TxInv'
    BY <1>1, <1>2, <2>1, <2>3, <2>4, <2>5, <2>6, <2>7 DEF TxInv, TxTyped
  <2>9. TxFrames' = Ideal(pkt)
    BY <1>1, <2>1 DEF TxFrames
  <2> QED BY <1>3, <2>1, <2>8, <2>9 DEF TxMoves
<1>5. CASE SplitFail
  <2>1. TxIdle /\ lost' = lost \cup Ideal(pkt) /\ UNCHANGED <<offered, net, rxVars, tun>>
    BY <1>5 DEF SplitFail
  <2>2. TxInv' /\ TxFrames' = {}
    BY <2>1, IdleKeeps
  <2> QED BY <1>3, <2>1, <2>2 DEF TxMoves
<1>6. CASE SplitDone
  <2>1. /\ g * n >= len /\ txPc' = "sendUso"
        /\ UNCHANGED <<offered, pkt, segs, nextDataAt, at, parts, net, rxVars, tun, lost>>
    BY <1>1, <1>2, <1>6 DEF SplitDone
  <2>2. Turn'
    <3>1. PartSize(n) \in Int
      BY SizesAssumption DEF PartSize
    <3>2. 0 * PartSize(n) = 0 /\ 0 <= n
      BY <3>1
    <3> QED BY <1>1, <1>2, <2>1, <3>2 DEF Turn
  <2>3. TxInv'
    BY <1>1, <1>2, <2>1, <2>2 DEF TxInv, TxTyped
  <2>4. TxFrames' = {segs[x] : x \in 1 .. n}
    BY <1>1, <1>2, <2>1 DEF TxFrames
  <2>5. {segs[x] : x \in 1 .. n} \subseteq Cuts(pkt)
    <3>1. ASSUME NEW x \in 1 .. n PROVE segs[x] \in Cuts(pkt)
      <4>1. x - 1 \in Nat /\ pkt.gsoSize * (x - 1) < pkt.len /\ segs[x] = SegAt(pkt, x - 1)
        BY <1>1, <1>2 DEF Segments
      <4> QED BY <1>1, <4>1, SegmentIdeal
    <3> QED BY <3>1
  <2>6. ASSUME NEW f \in Cuts(pkt) PROVE f \in {segs[x] : x \in 1 .. n}
    <3>1. PICK k \in Nat : g * k < len /\ f = SegAt(pkt, k)
      BY <1>1, <1>2, IdealSegment
    <3>2. k < n
      <4>1. ASSUME k >= n PROVE FALSE
        <5>1. PICK e \in Nat : k = n + e
          <6>1. k - n \in Nat /\ k = n + (k - n)
            BY <4>1
          <6> QED BY <6>1
        <5>2. g * k = g * n + g * e /\ g * e \in Nat /\ g * n \in Nat
          BY <5>1
        <5> QED BY <2>1, <3>1, <5>2
      <4> QED BY <4>1
    <3>3. k + 1 \in 1 .. n /\ (k + 1) - 1 = k
      BY <3>2
    <3>4. segs[k + 1] = f
      BY <1>1, <1>2, <3>1, <3>3 DEF Segments
    <3> QED BY <3>3, <3>4
  <2>7. TxFrames' = TxFrames
    BY <1>3, <2>4, <2>5, <2>6
  <2> QED BY <2>1, <2>3, <2>7 DEF TxMoves
<1> QED BY <1>4, <1>5, <1>6

\* A stretch of a sequence is a finite set.
LEMMA StretchFinite ==
    ASSUME NEW s, NEW i \in Nat, NEW j \in Nat
    PROVE  IsFiniteSet({s[x] : x \in i .. j})
<1> DEFINE S == i .. j  T == {s[x] : x \in i .. j}  f == [x \in S |-> s[x]]
<1>1. IsFiniteSet(S)
  BY FS_Interval
<1>2. f \in Surjection(S, T)
  BY DEF Surjection
<1> HIDE DEF f, S, T
<1>3. IsFiniteSet(T)
  BY <1>1, <1>2, FS_Surjection
<1> QED BY <1>3 DEF T

\* The members of a sequence are finitely many.
LEMMA ToSetFinite ==
    ASSUME NEW S, NEW s \in Seq(S)
    PROVE  IsFiniteSet(ToSet(s)) /\ ToSet(s) \subseteq S
<1>1. Len(s) \in Nat /\ DOMAIN s = 1 .. Len(s) /\ \A x \in DOMAIN s : s[x] \in S
  OBVIOUS
<1>2. IsFiniteSet({s[x] : x \in 1 .. Len(s)})
  BY <1>1, StretchFinite
<1> QED BY <1>1, <1>2 DEF ToSet

\* The parts are enough for all segments.
LEMMA PartsEnough ==
    ASSUME NEW n \in Nat, n >= 1
    PROVE  PartSize(n) \in Nat /\ PartSize(n) >= 1 /\ USO_PARTS * PartSize(n) >= n
<1>1. PICK u \in Nat : u = USO_PARTS /\ u >= 1
  BY SizesAssumption
<1>2. PICK v \in Nat : v = n + u - 1
  BY <1>1
<1>3. v \div u \in Nat /\ v % u \in 0 .. u - 1 /\ v = u * (v \div u) + (v % u)
  BY <1>1
<1>4. PICK q \in Nat, r \in Nat : q = v \div u /\ r <= u - 1 /\ v = u * q + r
  BY <1>1, <1>3
<1>5. PICK w \in Nat : w = u * q
  BY <1>1
<1>6. w >= n
  BY ONLY <1>2, <1>4, <1>5, n \in Nat, u \in Nat, v \in Nat, w \in Nat, r \in Nat
<1>7. q >= 1
  <2>1. q # 0
    <3>1. q = 0 => w = 0
      BY <1>1, <1>5
    <3> QED BY <1>6, <3>1
  <2> QED BY <2>1
<1>8. PartSize(n) = q
  BY <1>1, <1>2, <1>4 DEF PartSize
<1> QED BY <1>1, <1>5, <1>6, <1>7, <1>8

LEMMA PartKeeps ==
    ASSUME TxInv, NEW p \in Paths, SendPart(p)
    PROVE  TxInv' /\ TxMoves /\ UNCHANGED <<offered, rxVars, tun>>
<1>1. /\ txPc = "sendUso" /\ pkt \in Packets /\ Known(pkt) /\ pkt.gsoType = "TCPV4"
      /\ Segments(pkt, segs) /\ nextDataAt = pkt.gsoSize * Len(segs) /\ nextDataAt >= pkt.len
      /\ Turn /\ segs \in Seq(Frames) /\ Len(segs) \in Nat /\ Len(segs) <= MAX_SEGS
      /\ offered \subseteq Packets /\ at \in 1 .. Len(segs) + 1 /\ parts \in 0 .. USO_PARTS
      /\ at <= Len(segs)
  BY DEF TxInv, TxTyped, SendPart
<1>2. PICK n \in Nat, k \in Nat, i \in Nat :
        n = Len(segs) /\ k = parts /\ i = at /\ i >= 1 /\ i <= n
  BY <1>1
<1>3. PICK ps \in Nat : ps = PartSize(n) /\ ps >= 1 /\ USO_PARTS * ps >= n
  BY <1>2, PartsEnough
<1>4. PICK a \in Nat : a = k * ps /\ i = a + 1 /\ a < n
  <2>1. k * ps \in Nat
    BY <1>2, <1>3
  <2>2. k * ps <= n => i = k * ps + 1
    BY <1>1, <1>2, <1>3 DEF Turn
  <2>3. ~(k * ps <= n) => i = n + 1
    BY <1>1, <1>2, <1>3 DEF Turn
  <2> QED BY <1>2, <2>1, <2>2, <2>3
<1>5. k + 1 \in 0 .. USO_PARTS
  <2>1. PICK u \in Nat : u = USO_PARTS
    BY SizesAssumption
  <2>2. ASSUME k >= u PROVE FALSE
    <3>1. PICK e \in Nat : k = u + e
      <4>1. k - u \in Nat /\ k = u + (k - u)
        BY <2>2
      <4> QED BY <4>1
    <3>2. k * ps = u * ps + e * ps /\ e * ps \in Nat /\ u * ps \in Nat
      BY <3>1
    <3> QED BY <1>3, <1>4, <2>1, <3>2
  <2> QED BY <2>1, <2>2
<1>6. (k + 1) * ps = a + ps
  BY <1>4
<1> DEFINE end == IF i + ps - 1 > n THEN n ELSE i + ps - 1
           part == SubSeq(segs, i, end)
           fs == {segs[x] : x \in i .. end}
           rest == {segs[x] : x \in end + 1 .. n}
<1>7. end \in i .. n /\ end \in Nat
  BY <1>2, <1>3
<1>8. end + 1 = (IF a + ps <= n THEN a + ps + 1 ELSE n + 1) /\ end + 1 \in 1 .. n + 1
  BY <1>3, <1>4
<1>9. /\ Handed(p, ToSet(part), KernelSegment(part, Size(segs[1]))) /\ at' = end + 1
      /\ parts' = k + 1
      /\ UNCHANGED <<offered, txPc, pkt, segs, nextDataAt, rxVars, tun>>
  BY <1>2, <1>3 DEF SendPart
<1>10. ToSet(part) = fs /\ KernelSegment(part, Size(segs[1])) = fs
  <2>1. i \in 1 .. Len(segs) /\ end \in i .. Len(segs)
    BY <1>2, <1>7
  <2> HIDE DEF end
  <2> QED BY <1>1, <2>1, PartCut
<1>11. Turn'
  BY <1>2, <1>3, <1>6, <1>8, <1>9 DEF Turn
<1> HIDE DEF end
<1>12. TxInv'
  BY <1>1, <1>2, <1>5, <1>8, <1>9, <1>11 DEF TxInv, TxTyped
<1>13. TxFrames = fs \cup TxFrames' /\ fs \cap TxFrames' = {}
  <2>1. TxFrames = {segs[x] : x \in i .. n} /\ TxFrames' = rest
    BY <1>1, <1>2, <1>9 DEF TxFrames
  <2>2. i .. n = (i .. end) \cup (end + 1 .. n)
    BY <1>2, <1>7
  <2>3. \A x \in i .. end, y \in end + 1 .. n :
          x \in 1 .. Len(segs) /\ y \in 1 .. Len(segs) /\ x < y
    BY <1>2, <1>7
  <2>4. \A x \in i .. end, y \in end + 1 .. n : segs[x] # segs[y]
    BY <1>1, <2>3, SegmentsDiffer
  <2> QED BY <2>1, <2>2, <2>4
<1>14. fs \in SUBSET Frames
  <2>1. \A x \in i .. end : x \in 1 .. Len(segs)
    BY <1>2, <1>7
  <2> QED BY <1>1, <2>1
<1>15. Sent(fs)
  BY <1>9, <1>10 DEF Handed, Sent
<1>16. IsFiniteSet(fs)
  BY <1>7, StretchFinite
<1>17. TxMoves
  BY <1>13, <1>14, <1>15, <1>16 DEF TxMoves
<1> QED BY <1>9, <1>12, <1>17

LEMMA SendKeeps ==
    ASSUME TxInv, SendDone \/ \E p \in Paths : SendOne(p) \/ SendPart(p)
    PROVE  TxInv' /\ TxMoves /\ UNCHANGED <<offered, rxVars, tun>>
<1>1. CASE SendDone
  <2>1. /\ txPc = "sendUso" /\ at > Len(segs) /\ TxIdle
        /\ UNCHANGED <<offered, net, rxVars, tun, lost>>
    BY <1>1 DEF SendDone
  <2>2. TxInv' /\ TxFrames' = {}
    BY <2>1, IdleKeeps
  <2>3. at \in Nat /\ Len(segs) \in Nat
    BY DEF TxInv, TxTyped
  <2>4. at .. Len(segs) = {}
    BY <2>1, <2>3
  <2>5. TxFrames = {}
    BY <2>1, <2>4 DEF TxFrames
  <2> QED BY <2>1, <2>2, <2>5 DEF TxMoves
<1>2. ASSUME NEW p \in Paths, SendOne(p)
      PROVE  TxInv' /\ TxMoves /\ UNCHANGED <<offered, rxVars, tun>>
  <2>1. /\ txPc = "sendOne" /\ Handed(p, ToSet(segs), ToSet(segs)) /\ TxIdle
        /\ UNCHANGED <<offered, rxVars, tun>>
    BY <1>2 DEF SendOne
  <2>2. TxInv' /\ TxFrames' = {}
    BY <2>1, IdleKeeps
  <2>3. TxFrames = ToSet(segs) /\ ToSet(segs) \in SUBSET Frames
    BY <2>1, TxFramesTyped DEF TxFrames
  <2>4. Sent(ToSet(segs))
    BY <2>1 DEF Handed, Sent
  <2>5. IsFiniteSet(ToSet(segs))
    <3>1. segs \in Seq(Frames)
      BY DEF TxInv, TxTyped
    <3> QED BY <3>1, ToSetFinite
  <2> QED BY <2>1, <2>2, <2>3, <2>4, <2>5 DEF TxMoves
<1> QED BY <1>1, <1>2, PartKeeps

-----------------------------------------------------------------------------
(* udpReader.                                                              *)

\* The datagrams udpReader has: what is left of the message it writes, and the
\* messages after it.
Held(pc, ms, k, cs) == ToSet(cs) \cup Later(ms, IF pc = "write" THEN k + 1 ELSE k)

LEMMA HeldIs == ASSUME NEW p PROVE RxFrames(p) = Held(rxPc[p], rxMsgs[p], rxAt[p], rxChunks[p])
BY DEF RxFrames, Held, Later

\* A step of the udpReader of p takes it to this.
RxTo(p, pc, ms, k, cs, rm) ==
    /\ rxPc' = [rxPc EXCEPT ![p] = pc] /\ rxMsgs' = [rxMsgs EXCEPT ![p] = ms]
    /\ rxAt' = [rxAt EXCEPT ![p] = k] /\ rxChunks' = [rxChunks EXCEPT ![p] = cs]
    /\ room' = [room EXCEPT ![p] = rm]

LEMMA RxToKeeps ==
    ASSUME RxInv, NEW p \in Paths,
           NEW pc \in {"recv", "msg", "write"}, NEW ms \in Seq(Messages), NEW k \in 1 .. BATCH,
           NEW cs \in Seq(Frames), NEW rm \in [1 .. BATCH -> BOOLEAN],
           RxTo(p, pc, ms, k, cs, rm), RxOK(pc, ms, k, cs, rm)
    PROVE  /\ RxInv'
           /\ \A q \in Paths : RxFrames(q)' = IF q = p THEN Held(pc, ms, k, cs) ELSE RxFrames(q)
<1>1. /\ rxPc' \in [Paths -> {"recv", "msg", "write"}]
      /\ rxMsgs' \in [Paths -> Seq(Messages)]
      /\ rxAt' \in [Paths -> 1 .. BATCH]
      /\ rxChunks' \in [Paths -> Seq(Frames)]
      /\ room' \in [Paths -> [1 .. BATCH -> BOOLEAN]]
  BY DEF RxTo, RxInv
<1>2. /\ rxPc'[p] = pc /\ rxMsgs'[p] = ms /\ rxAt'[p] = k /\ rxChunks'[p] = cs /\ room'[p] = rm
  BY DEF RxTo, RxInv
<1>3. \A q \in Paths \ {p} :
        /\ rxPc'[q] = rxPc[q] /\ rxMsgs'[q] = rxMsgs[q] /\ rxAt'[q] = rxAt[q]
        /\ rxChunks'[q] = rxChunks[q] /\ room'[q] = room[q]
  BY DEF RxTo, RxInv
<1>4. ASSUME NEW q \in Paths
      PROVE  RxOK(rxPc'[q], rxMsgs'[q], rxAt'[q], rxChunks'[q], room'[q])
  <2>1. CASE q = p
    BY <1>2, <2>1
  <2>2. CASE q # p
    <3>1. RxOK(rxPc[q], rxMsgs[q], rxAt[q], rxChunks[q], room[q])
      BY DEF RxInv
    <3> QED BY <1>3, <2>2, <3>1
  <2> QED BY <2>1, <2>2
<1>5. RxInv'
  BY <1>1, <1>4 DEF RxInv
<1>6. ASSUME NEW q \in Paths
      PROVE  RxFrames(q)' = IF q = p THEN Held(pc, ms, k, cs) ELSE RxFrames(q)
  <2>1. RxFrames(q)' = Held(rxPc'[q], rxMsgs'[q], rxAt'[q], rxChunks'[q])
    BY DEF RxFrames, Held, Later
  <2>2. CASE q = p
    BY <1>2, <2>1, <2>2
  <2>3. CASE q # p
    BY <1>3, <2>1, <2>3, HeldIs
  <2> QED BY <2>2, <2>3
<1> QED BY <1>5, <1>6

\* What is known of the udpReader of p.
LEMMA RxAtPath ==
    ASSUME RxInv, NEW p \in Paths
    PROVE  /\ rxPc[p] \in {"recv", "msg", "write"} /\ rxMsgs[p] \in Seq(Messages)
           /\ rxAt[p] \in 1 .. BATCH /\ rxChunks[p] \in Seq(Frames)
           /\ room[p] \in [1 .. BATCH -> BOOLEAN]
           /\ RxOK(rxPc[p], rxMsgs[p], rxAt[p], rxChunks[p], room[p])
BY DEF RxInv

\* What a message of the kernel is made of.
LEMMA TrainsRight ==
    ASSUME NetInv, NEW p \in Paths, NEW fs \in Trains(p)
    PROVE  /\ fs \in Seq(Datagrams) /\ {p} \X ToSet(fs) \subseteq net
           /\ \/ \E d \in Datagrams : fs = <<d>>
              \/ fs \in Seq(Frames) /\ Len(fs) > 1 /\ Cut(fs, Size(fs[1])) = fs
<1> DEFINE here == {d[2] : d \in {e \in net : e[1] = p}}
<1>1. here \subseteq Datagrams /\ {p} \X here \subseteq net /\ IsFiniteSet(here)
  <2>1. \A e \in net : e = <<e[1], e[2]>> /\ e[2] \in Datagrams
    BY DEF NetInv
  <2>2. here \subseteq Datagrams /\ {p} \X here \subseteq net
    BY <2>1
  <2>3. IsFiniteSet(here)
    <3> DEFINE S == {e \in net : e[1] = p}  f == [e \in S |-> e[2]]
    <3>1. IsFiniteSet(S)
      BY FS_Subset DEF NetInv
    <3>2. f \in Surjection(S, here)
      BY DEF Surjection
    <3> HIDE DEF f, S, here
    <3> QED BY <3>1, <3>2, FS_Surjection
  <2> QED BY <2>2, <2>3
<1>2. CASE fs \in {<<m>> : m \in here}
  <2>1. PICK d \in here : fs = <<d>>
    BY <1>2
  <2>2. ToSet(fs) = {d}
    BY <2>1 DEF ToSet
  <2> QED BY <1>1, <2>1, <2>2
<1>3. CASE \E S \in SUBSET (here \ {ProbeMsg}) :
             fs \in SetToSeqs(S) /\ Len(fs) > 1 /\ Cut(fs, Size(fs[1])) = fs
  <2>1. PICK S \in SUBSET (here \ {ProbeMsg}) :
          fs \in SetToSeqs(S) /\ Len(fs) > 1 /\ Cut(fs, Size(fs[1])) = fs
    BY <1>3
  <2>2. IsFiniteSet(S) /\ S \subseteq here /\ S \subseteq Frames
    BY <1>1, <2>1, FS_Subset DEF Datagrams
  <2>3. Cardinality(S) \in Nat
    BY <2>2, FS_CardinalityType
  <2>4. fs \in [1 .. Cardinality(S) -> S]
    BY <2>1 DEF SetToSeqs
  <2>5. fs \in Seq(S)
    BY <2>3, <2>4
  <2>6. ToSet(fs) \subseteq S
    BY <2>4 DEF ToSet
  <2>7. fs \in Seq(Frames) /\ fs \in Seq(Datagrams)
    BY <2>2, <2>5 DEF Datagrams
  <2> QED BY <1>1, <2>1, <2>2, <2>6, <2>7
<1>4. Trains(p) = {<<m>> : m \in here} \cup
        {gs \in UNION {SetToSeqs(S) : S \in SUBSET (here \ {ProbeMsg})} :
            Len(gs) > 1 /\ Cut(gs, Size(gs[1])) = gs}
  BY DEF Trains
<1> HIDE DEF here
<1> QED BY <1>2, <1>3, <1>4

\* What a step of the udpReader of p does to the frames in it: they stay, it gets
\* some from the network, or one of them is written or lost.
RxMoves(p) ==
    \/ /\ RxFrames(p)' \ {ProbeMsg} = RxFrames(p) \ {ProbeMsg}
       /\ net' = net /\ tun' = tun /\ lost' = lost
    \/ /\ tun' = tun /\ lost' = lost
       /\ \E ds \in SUBSET Datagrams :
            /\ {p} \X ds \subseteq net /\ net' = net \ ({p} \X ds)
            /\ RxFrames(p)' = RxFrames(p) \cup ds
    \/ /\ net' = net
       /\ \E f \in Frames :
            /\ rxPc[p] = "write" /\ f = Head(rxChunks[p])
            /\ RxFrames(p) = {f} \cup RxFrames(p)'
            /\ \/ tun' = tun \cup {f} /\ lost' = lost
               \/ tun' = tun /\ lost' = lost \cup {f}

RxStepKeeps(p) ==
    /\ RxInv' /\ RxMoves(p) /\ UNCHANGED <<offered, txVars>>
    /\ \A q \in Paths \ {p} : RxFrames(q)' = RxFrames(q)

LEMMA FillKeeps ==
    ASSUME RxInv, NetInv, NEW p \in Paths, RecvFill(p)
    PROVE  RxStepKeeps(p)
<1>1. PICK ms \in Seq(Messages), rm \in [1 .. BATCH -> BOOLEAN] :
        /\ rxPc[p] = "recv" /\ rxAt[p] = 1 /\ rxChunks[p] = <<>>
        /\ ms = rxMsgs[p] /\ rm = room[p] /\ Len(ms) < BATCH /\ RxOK("recv", ms, 1, <<>>, rm)
  <2>1. rxPc[p] = "recv" /\ Len(rxMsgs[p]) < BATCH
    BY DEF RecvFill
  <2>2. rxAt[p] = 1 /\ rxChunks[p] = <<>>
    BY <2>1, RxAtPath DEF RxOK
  <2> QED BY <2>1, <2>2, RxAtPath
<1> DEFINE x == Len(ms) + 1
<1>2. x \in 1 .. BATCH /\ rm[x]
  <2>1. Len(ms) \in Nat /\ BATCH \in Nat
    BY SizesAssumption
  <2>2. x \in 1 .. BATCH /\ ~(x <= Len(ms))
    BY <1>1, <2>1
  <2> QED BY <1>1, <2>2 DEF RxOK
<1>3. PICK fs \in Trains(p) :
        LET cmsg == Len(fs) > 1 /\ rm[x]
        IN  /\ rxMsgs' = [rxMsgs EXCEPT ![p] =
                            Append(ms, [frames |-> fs, gso |-> IF cmsg THEN Size(fs[1]) ELSE 0])]
            /\ room' = [room EXCEPT ![p] = [rm EXCEPT ![x] = cmsg]]
            /\ net' = net \ ({p} \X ToSet(fs))
  <2>1. p \in DOMAIN rxMsgs /\ p \in DOMAIN room
    BY DEF RxInv
  <2> QED BY <1>1, <2>1 DEF RecvFill
<1>4. UNCHANGED <<offered, txVars, rxPc, rxAt, rxChunks, tun, lost>>
  BY DEF RecvFill
<1> DEFINE cmsg == Len(fs) > 1 /\ rm[x]
           m == [frames |-> fs, gso |-> IF cmsg THEN Size(fs[1]) ELSE 0]
           rm2 == [rm EXCEPT ![x] = cmsg]
<1>5. /\ fs \in Seq(Datagrams) /\ {p} \X ToSet(fs) \subseteq net /\ ToSet(fs) \in SUBSET Datagrams
      /\ \/ \E d \in Datagrams : fs = <<d>>
         \/ fs \in Seq(Frames) /\ Len(fs) > 1 /\ Cut(fs, Size(fs[1])) = fs
  <2>1. fs \in Seq(Datagrams)
    BY TrainsRight
  <2> QED BY <2>1, TrainsRight, ToSetFinite
<1>6. m \in Messages
  <2>1. CASE \E d \in Datagrams : fs = <<d>>
    <3>1. Len(fs) = 1
      BY <2>1
    <3>2. m.gso = 0 /\ m.frames = fs
      BY <3>1
    <3> QED BY <1>5, <2>1, <3>2 DEF Messages, Single
  <2>2. CASE fs \in Seq(Frames) /\ Len(fs) > 1 /\ Cut(fs, Size(fs[1])) = fs
    <3>1. m.gso = Size(fs[1]) /\ m.frames = fs
      BY <1>2, <2>2
    <3>2. fs[1] \in Frames
      BY <2>2
    <3>3. Size(fs[1]) \in Nat
      BY <3>2, FrameIs
    <3> HIDE DEF m
    <3>4. m = [frames |-> fs, gso |-> Size(fs[1])]
      BY <1>2, <2>2 DEF m
    <3> QED BY <1>5, <2>2, <3>1, <3>3, <3>4 DEF Messages, Glued
  <2> QED BY <1>5, <2>1, <2>2
<1> DEFINE ms2 == Append(ms, m)
<1> HIDE DEF m
<1>7. ms2 \in Seq(Messages) /\ Len(ms2) = x /\ x <= BATCH /\ Len(ms) \in Nat
  BY <1>2, <1>6
<1>8. rm2 \in [1 .. BATCH -> BOOLEAN] /\ \A y \in 1 .. BATCH : y # x => rm2[y] = rm[y]
  BY <1>2
<1> HIDE DEF rm2
<1>9. RxOK("recv", ms2, 1, <<>>, rm2)
  <2>1. \A y \in 1 .. BATCH : rm2[y] \/ y <= x
    <3> TAKE y \in 1 .. BATCH
    <3>1. CASE y = x
      BY <1>7, <3>1
    <3>2. CASE y # x
      <4>1. rm2[y] = rm[y] /\ (rm[y] \/ y <= Len(ms))
        BY <1>1, <1>8, <3>2 DEF RxOK
      <4> QED BY <1>7, <4>1
    <3> QED BY <3>1, <3>2
  <2> QED BY <1>7, <2>1 DEF RxOK
<1>10. RxTo(p, "recv", ms2, 1, <<>>, rm2)
  <2>1. rxMsgs' = [rxMsgs EXCEPT ![p] = ms2] /\ room' = [room EXCEPT ![p] = rm2]
    BY <1>3 DEF m, rm2
  <2>2. /\ rxPc' = [rxPc EXCEPT ![p] = "recv"] /\ rxAt' = [rxAt EXCEPT ![p] = 1]
        /\ rxChunks' = [rxChunks EXCEPT ![p] = <<>>]
    BY <1>1, <1>4 DEF RxInv
  <2> QED BY <2>1, <2>2 DEF RxTo
<1>11. 1 \in 1 .. BATCH /\ <<>> \in Seq(Frames)
  BY SizesAssumption
<1> HIDE DEF ms2
<1>12. /\ RxInv'
       /\ \A q \in Paths : RxFrames(q)' = IF q = p THEN Held("recv", ms2, 1, <<>>) ELSE RxFrames(q)
  BY <1>7, <1>8, <1>9, <1>10, <1>11, RxToKeeps
<1>13. RxFrames(p)' = RxFrames(p) \cup ToSet(fs)
  <2>1. RxFrames(p) = Held("recv", ms, 1, <<>>)
    BY <1>1, HeldIs
  <2>2. 1 \in 1 .. Len(ms) + 1
    BY <1>7
  <2>3. Later(ms2, 1) = Later(ms, 1) \cup ToSet(m.frames)
    BY <1>6, <2>2, LaterAppend DEF ms2
  <2>4. m.frames = fs
    BY DEF m
  <2> QED BY <1>12, <2>1, <2>3, <2>4 DEF Held
<1> QED BY <1>3, <1>4, <1>5, <1>12, <1>13 DEF RxStepKeeps, RxMoves

LEMMA ReturnKeeps ==
    ASSUME RxInv, NEW p \in Paths, RecvReturn(p)
    PROVE  RxStepKeeps(p)
<1>1. PICK ms \in Seq(Messages), rm \in [1 .. BATCH -> BOOLEAN] :
        /\ rxPc[p] = "recv" /\ rxAt[p] = 1 /\ rxChunks[p] = <<>>
        /\ ms = rxMsgs[p] /\ rm = room[p] /\ ms # <<>> /\ RxOK("recv", ms, 1, <<>>, rm)
  <2>1. rxPc[p] = "recv" /\ rxMsgs[p] # <<>>
    BY DEF RecvReturn
  <2>2. rxAt[p] = 1 /\ rxChunks[p] = <<>>
    BY <2>1, RxAtPath DEF RxOK
  <2> QED BY <2>1, <2>2, RxAtPath
<1>2. /\ rxPc' = [rxPc EXCEPT ![p] = "msg"] /\ rxAt' = [rxAt EXCEPT ![p] = 1]
      /\ UNCHANGED <<offered, txVars, net, rxMsgs, rxChunks, room, tun, lost>>
  BY DEF RecvReturn
<1>3. Len(ms) \in Nat /\ Len(ms) >= 1
  BY <1>1
<1>4. RxOK("msg", ms, 1, <<>>, rm)
  BY <1>1, <1>3 DEF RxOK
<1>5. RxTo(p, "msg", ms, 1, <<>>, rm)
  BY <1>1, <1>2 DEF RxTo, RxInv
<1>6. 1 \in 1 .. BATCH /\ <<>> \in Seq(Frames)
  BY SizesAssumption
<1>7. /\ RxInv'
      /\ \A q \in Paths : RxFrames(q)' = IF q = p THEN Held("msg", ms, 1, <<>>) ELSE RxFrames(q)
  BY <1>4, <1>5, <1>6, RxToKeeps
<1>8. RxFrames(p)' = RxFrames(p)
  BY <1>1, <1>7, HeldIs DEF Held
<1> QED BY <1>2, <1>7, <1>8 DEF RxStepKeeps, RxMoves

LEMMA HeadTail ==
    ASSUME NEW S, NEW cs \in Seq(S), cs # <<>>
    PROVE  ToSet(cs) = {Head(cs)} \cup ToSet(Tail(cs))
<1>1. /\ Len(cs) \in Nat /\ Len(cs) >= 1 /\ Head(cs) = cs[1] /\ DOMAIN cs = 1 .. Len(cs)
      /\ DOMAIN Tail(cs) = 1 .. Len(cs) - 1
      /\ \A x \in 1 .. Len(cs) - 1 : Tail(cs)[x] = cs[x + 1]
  OBVIOUS
<1>2. \A x \in 1 .. Len(cs) : x = 1 \/ (x - 1 \in 1 .. Len(cs) - 1 /\ (x - 1) + 1 = x)
  BY <1>1
<1>3. 1 \in 1 .. Len(cs) /\ \A x \in 1 .. Len(cs) - 1 : x + 1 \in 1 .. Len(cs)
  BY <1>1
<1>4. ToSet(cs) \subseteq {Head(cs)} \cup ToSet(Tail(cs))
  <2>1. ASSUME NEW x \in 1 .. Len(cs) PROVE cs[x] \in {Head(cs)} \cup ToSet(Tail(cs))
    <3>1. CASE x = 1
      BY <1>1, <3>1
    <3>2. CASE x # 1
      <4>1. PICK y \in 1 .. Len(cs) - 1 : y + 1 = x
        BY <1>2, <3>2
      <4>2. cs[x] = Tail(cs)[y] /\ y \in DOMAIN Tail(cs)
        BY <1>1, <4>1
      <4> QED BY <4>2 DEF ToSet
    <3> QED BY <3>1, <3>2
  <2> QED BY <1>1, <2>1 DEF ToSet
<1>5. {Head(cs)} \cup ToSet(Tail(cs)) \subseteq ToSet(cs)
  BY <1>1, <1>3 DEF ToSet
<1> QED BY <1>4, <1>5

\* The message is done with: the next one, or the next recvmmsg.
LEMMA NextRight ==
    ASSUME RxInv, NEW p \in Paths, NEW ms \in Seq(Messages), NEW k \in 1 .. Len(ms),
           ms = rxMsgs[p], k = rxAt[p], Len(ms) <= BATCH,
           NEW rm \in [1 .. BATCH -> BOOLEAN],
           \A x \in 1 .. BATCH : rm[x] \/ (x <= Len(ms) /\ k < x),
           rxChunks' = [rxChunks EXCEPT ![p] = <<>>], room' = [room EXCEPT ![p] = rm],
           NextMsg(p)
    PROVE  /\ RxInv'
           /\ \A q \in Paths : RxFrames(q)' = IF q = p THEN Later(ms, k + 1) ELSE RxFrames(q)
<1>1. /\ Len(ms) \in Nat /\ k \in Nat /\ k >= 1 /\ k <= Len(ms)
      /\ BATCH \in Nat /\ <<>> \in Seq(Frames)
  BY SizesAssumption
<1>2. ToSet(<<>>) = {}
  BY DEF ToSet
<1>3. CASE k = Len(ms)
  <2>1. RxTo(p, "recv", <<>>, 1, <<>>, rm)
    BY <1>3 DEF NextMsg, RxTo
  <2>2. \A x \in 1 .. BATCH : rm[x]
    BY <1>1, <1>3
  <2>3. Len(<<>>) = 0 /\ 1 \in 1 .. BATCH /\ <<>> \in Seq(Messages)
    BY <1>1
  <2>4. RxOK("recv", <<>>, 1, <<>>, rm)
    BY <1>1, <2>2, <2>3 DEF RxOK
  <2>5. /\ RxInv'
        /\ \A q \in Paths : RxFrames(q)' = IF q = p THEN Held("recv", <<>>, 1, <<>>) ELSE RxFrames(q)
    BY <1>1, <2>1, <2>3, <2>4, RxToKeeps
  <2>6. Held("recv", <<>>, 1, <<>>) = {}
    <3>1. Later(<<>>, 1) = {}
      BY <2>3 DEF Later
    <3> QED BY <1>2, <3>1 DEF Held
  <2>7. Later(ms, k + 1) = {}
    BY <1>3, LaterNone
  <2> QED BY <2>5, <2>6, <2>7
<1>4. CASE k # Len(ms)
  <2>1. rxPc' = [rxPc EXCEPT ![p] = "msg"] /\ rxAt' = [rxAt EXCEPT ![p] = @ + 1] /\ rxMsgs' = rxMsgs
    BY <1>4 DEF NextMsg
  <2>2. PICK j \in 1 .. BATCH : j = k + 1 /\ j <= Len(ms)
    <3>1. k + 1 \in 1 .. BATCH /\ k + 1 <= Len(ms)
      BY <1>1, <1>4
    <3> QED BY <3>1
  <2>3. RxTo(p, "msg", ms, j, <<>>, rm)
    BY <2>1, <2>2 DEF RxTo, RxInv
  <2>4. \A x \in 1 .. BATCH : k < x => j <= x
    BY <1>1, <2>2
  <2>5. RxOK("msg", ms, j, <<>>, rm)
    BY <2>2, <2>4 DEF RxOK
  <2>6. /\ RxInv'
        /\ \A q \in Paths : RxFrames(q)' = IF q = p THEN Held("msg", ms, j, <<>>) ELSE RxFrames(q)
    <3>1. "msg" \in {"recv", "msg", "write"} /\ <<>> \in Seq(Frames)
      OBVIOUS
    <3>2. PICK pc \in {"recv", "msg", "write"}, cs \in Seq(Frames) : pc = "msg" /\ cs = <<>>
      BY <3>1
    <3>3. RxTo(p, pc, ms, j, cs, rm) /\ RxOK(pc, ms, j, cs, rm)
      BY <2>3, <2>5, <3>2
    <3>4. /\ RxInv'
          /\ \A q \in Paths : RxFrames(q)' = IF q = p THEN Held(pc, ms, j, cs) ELSE RxFrames(q)
      BY <3>3, RxToKeeps
    <3> QED BY <3>2, <3>4
  <2>7. Held("msg", ms, j, <<>>) = Later(ms, k + 1)
    BY <1>2, <2>2 DEF Held
  <2> QED BY <2>6, <2>7
<1> QED BY <1>3, <1>4

LEMMA HandleKeeps ==
    ASSUME RxInv, NEW p \in Paths, HandleMsg(p)
    PROVE  RxStepKeeps(p)
<1>1. PICK ms \in Seq(Messages), rm \in [1 .. BATCH -> BOOLEAN], k \in 1 .. BATCH :
        /\ rxPc[p] = "msg" /\ rxAt[p] = k /\ rxChunks[p] = <<>>
        /\ ms = rxMsgs[p] /\ rm = room[p] /\ RxOK("msg", ms, k, <<>>, rm)
  <2>1. rxPc[p] = "msg"
    BY DEF HandleMsg
  <2>2. rxChunks[p] = <<>>
    BY <2>1, RxAtPath DEF RxOK
  <2> QED BY <2>1, <2>2, RxAtPath
<1>2. k \in 1 .. Len(ms) /\ Len(ms) <= BATCH /\ Len(ms) \in Nat
  BY <1>1 DEF RxOK
<1>3. PICK m \in Messages, cs \in Seq(Frames) :
        m = ms[k] /\ cs = Chunks(m) /\ ToSet(cs) = ToSet(m.frames) \ {ProbeMsg}
  <2>1. ms[k] \in Messages
    BY <1>1, <1>2
  <2> QED BY <2>1, ChunksRight
<1> DEFINE rm2 == [rm EXCEPT ![k] = TRUE]
<1>4. /\ rxChunks' = [rxChunks EXCEPT ![p] = cs] /\ rxChunks'[p] = cs
      /\ room' = [room EXCEPT ![p] = rm2]
      /\ UNCHANGED <<offered, txVars, net, tun, lost>>
      /\ IF cs = <<>> THEN NextMsg(p)
         ELSE rxPc' = [rxPc EXCEPT ![p] = "write"] /\ UNCHANGED <<rxMsgs, rxAt>>
  BY <1>1, <1>3 DEF HandleMsg, RoomReset, RxInv
<1>5. rm2 \in [1 .. BATCH -> BOOLEAN] /\ \A x \in 1 .. BATCH : rm2[x] \/ (x <= Len(ms) /\ k < x)
  <2>1. /\ rm2 \in [1 .. BATCH -> BOOLEAN] /\ rm2[k] = TRUE
        /\ \A x \in 1 .. BATCH : x # k => rm2[x] = rm[x]
    BY <1>1
  <2>2. \A x \in 1 .. BATCH : rm[x] \/ (x <= Len(ms) /\ k <= x)
    BY <1>1 DEF RxOK
  <2>3. \A x \in 1 .. BATCH : k <= x => x = k \/ k < x
    OBVIOUS
  <2> HIDE DEF rm2
  <2> QED BY <2>1, <2>2, <2>3, Zenon
<1> HIDE DEF rm2
<1>6. RxFrames(p) = ToSet(m.frames) \cup Later(ms, k + 1)
  <2>1. RxFrames(p) = ToSet(<<>>) \cup Later(ms, k)
    BY <1>1, HeldIs DEF Held
  <2>2. ToSet(<<>>) = {}
    BY DEF ToSet
  <2> QED BY <1>2, <1>3, <2>1, <2>2, LaterFirst
<1>7. CASE cs = <<>>
  <2>1. /\ RxInv'
        /\ \A q \in Paths : RxFrames(q)' = IF q = p THEN Later(ms, k + 1) ELSE RxFrames(q)
    <3>1. rxChunks' = [rxChunks EXCEPT ![p] = <<>>] /\ NextMsg(p)
      BY <1>4, <1>7
    <3>2. room' = [room EXCEPT ![p] = rm2] /\ ms = rxMsgs[p] /\ k = rxAt[p]
      BY <1>1, <1>4
    <3> QED BY <1>2, <1>5, <3>1, <3>2, NextRight, Zenon
  <2>2. ToSet(m.frames) \ {ProbeMsg} = {}
    <3>1. ToSet(<<>>) = {}
      BY DEF ToSet
    <3> QED BY <1>3, <1>7, <3>1
  <2> QED BY <1>4, <1>6, <2>1, <2>2 DEF RxStepKeeps, RxMoves
<1>8. CASE cs # <<>>
  <2>1. RxTo(p, "write", ms, k, cs, rm2)
    BY <1>1, <1>4, <1>8 DEF RxTo, RxInv
  <2>2. RxOK("write", ms, k, cs, rm2)
    BY <1>2, <1>5, <1>8 DEF RxOK
  <2>3. /\ RxInv'
        /\ \A q \in Paths : RxFrames(q)' = IF q = p THEN Held("write", ms, k, cs) ELSE RxFrames(q)
    BY <1>5, <2>1, <2>2, RxToKeeps
  <2>4. Held("write", ms, k, cs) = ToSet(cs) \cup Later(ms, k + 1)
    BY DEF Held
  <2> QED BY <1>3, <1>4, <1>6, <2>3, <2>4 DEF RxStepKeeps, RxMoves
<1> QED BY <1>7, <1>8

LEMMA WriteKeeps ==
    ASSUME RxInv, NEW p \in Paths, WriteChunk(p)
    PROVE  RxStepKeeps(p)
<1>1. PICK ms \in Seq(Messages), rm \in [1 .. BATCH -> BOOLEAN],
           k \in 1 .. BATCH, cs \in Seq(Frames) :
        /\ rxPc[p] = "write" /\ rxAt[p] = k /\ rxChunks[p] = cs /\ cs # <<>>
        /\ ms = rxMsgs[p] /\ rm = room[p] /\ RxOK("write", ms, k, cs, rm)
  <2>1. rxPc[p] = "write"
    BY DEF WriteChunk
  <2>2. rxChunks[p] # <<>>
    BY <2>1, RxAtPath DEF RxOK
  <2> QED BY <2>1, <2>2, RxAtPath
<1>2. k \in 1 .. Len(ms) /\ Len(ms) <= BATCH /\ Len(ms) \in Nat
  BY <1>1 DEF RxOK
<1>3. PICK f \in Frames, rest \in Seq(Frames) :
        f = Head(cs) /\ rest = Tail(cs) /\ ToSet(cs) = {f} \cup ToSet(rest)
  <2>1. Head(cs) \in Frames /\ Tail(cs) \in Seq(Frames)
    BY <1>1
  <2>2. ToSet(cs) = {Head(cs)} \cup ToSet(Tail(cs))
    BY <1>1, HeadTail
  <2> QED BY <2>1, <2>2
<1>4. /\ \/ tun' = tun \cup {f} /\ lost' = lost
         \/ tun' = tun /\ lost' = lost \cup {f}
      /\ rxChunks' = [rxChunks EXCEPT ![p] = rest] /\ rxChunks'[p] = rest
      /\ IF rest = <<>> THEN NextMsg(p) ELSE UNCHANGED <<rxPc, rxMsgs, rxAt>>
      /\ UNCHANGED <<offered, txVars, net, room>>
  BY <1>1, <1>3 DEF WriteChunk, RxInv
<1>5. \A x \in 1 .. BATCH : rm[x] \/ (x <= Len(ms) /\ k < x)
  BY <1>1 DEF RxOK
<1>6. RxFrames(p) = {f} \cup ToSet(rest) \cup Later(ms, k + 1)
  BY <1>1, <1>3, HeldIs DEF Held
<1>7. CASE rest = <<>>
  <2>1. room' = [room EXCEPT ![p] = rm]
    BY <1>1, <1>4 DEF RxInv
  <2>2. /\ RxInv'
        /\ \A q \in Paths : RxFrames(q)' = IF q = p THEN Later(ms, k + 1) ELSE RxFrames(q)
    <3>1. rxChunks' = [rxChunks EXCEPT ![p] = <<>>] /\ NextMsg(p)
      BY <1>4, <1>7
    <3>2. ms = rxMsgs[p] /\ k = rxAt[p]
      BY <1>1
    <3> QED BY <1>2, <1>5, <2>1, <3>1, <3>2, NextRight, Zenon
  <2>3. ToSet(rest) = {}
    BY <1>7 DEF ToSet
  <2>4. RxFrames(p) = {f} \cup RxFrames(p)'
    BY <1>6, <2>2, <2>3
  <2>5. RxMoves(p)
    BY <1>1, <1>3, <1>4, <2>4 DEF RxMoves
  <2> QED BY <1>4, <2>2, <2>5 DEF RxStepKeeps
<1>8. CASE rest # <<>>
  <2>1. RxTo(p, "write", ms, k, rest, rm)
    BY <1>1, <1>4, <1>8 DEF RxTo, RxInv
  <2>2. RxOK("write", ms, k, rest, rm)
    BY <1>2, <1>5, <1>8 DEF RxOK
  <2>3. /\ RxInv'
        /\ \A q \in Paths : RxFrames(q)' = IF q = p THEN Held("write", ms, k, rest) ELSE RxFrames(q)
    BY <2>1, <2>2, RxToKeeps
  <2>4. Held("write", ms, k, rest) = ToSet(rest) \cup Later(ms, k + 1)
    BY DEF Held
  <2>5. RxFrames(p) = {f} \cup RxFrames(p)'
    BY <1>6, <2>3, <2>4
  <2>6. RxMoves(p)
    BY <1>1, <1>3, <1>4, <2>5 DEF RxMoves
  <2> QED BY <1>4, <2>3, <2>6 DEF RxStepKeeps
<1> QED BY <1>7, <1>8

LEMMA ReaderKeeps ==
    ASSUME RxInv, NetInv, NEW p \in Paths, UdpReader(p)
    PROVE  RxStepKeeps(p)
BY FillKeeps, ReturnKeeps, HandleKeeps, WriteKeeps DEF UdpReader

-----------------------------------------------------------------------------
(* The path as a whole.                                                    *)

NetFrames == {d[2] : d \in net}

RxAll == UNION {RxFrames(p) : p \in Paths}

LEMMA InPathIs == InPath = (TxFrames \cup NetFrames \cup RxAll) \ {ProbeMsg}
BY DEF InPath, NetFrames, RxAll

\* Datagrams ds are put into the network on path p.
LEMMA NetGains ==
    ASSUME NetInv, NEW p \in Paths, NEW ds \in SUBSET Datagrams, IsFiniteSet(ds),
           net' = net \cup ({p} \X ds)
    PROVE  NetInv' /\ NetFrames' = NetFrames \cup ds
<1>1. IsFiniteSet({p}) /\ IsFiniteSet({p} \X ds)
  BY FS_Singleton, FS_Product
<1>2. IsFiniteSet(net')
  BY <1>1, FS_Union DEF NetInv
<1>3. NetInv'
  BY <1>2 DEF NetInv
<1>4. NetFrames' = {d[2] : d \in net} \cup {d[2] : d \in {p} \X ds}
  BY DEF NetFrames
<1>5. {d[2] : d \in {p} \X ds} = ds
  <2>1. ASSUME NEW x \in ds PROVE x \in {d[2] : d \in {p} \X ds}
    <3>1. <<p, x>> \in {p} \X ds /\ <<p, x>>[2] = x
      OBVIOUS
    <3> QED BY <3>1
  <2> QED BY <2>1
<1> QED BY <1>3, <1>4, <1>5 DEF NetFrames

\* Datagrams ds of path p leave the network.
LEMMA NetGives ==
    ASSUME NetInv, NEW p \in Paths, NEW ds, {p} \X ds \subseteq net,
           net' = net \ ({p} \X ds)
    PROVE  NetInv' /\ NetFrames = NetFrames' \cup ds
<1>1. IsFiniteSet(net')
  BY FS_Subset DEF NetInv
<1>2. NetInv'
  BY <1>1 DEF NetInv
<1>3. net = net' \cup ({p} \X ds)
  OBVIOUS
<1>4. NetFrames = {d[2] : d \in net'} \cup {d[2] : d \in {p} \X ds}
  BY <1>3 DEF NetFrames
<1>5. {d[2] : d \in {p} \X ds} = ds
  <2>1. ASSUME NEW x \in ds PROVE x \in {d[2] : d \in {p} \X ds}
    <3>1. <<p, x>> \in {p} \X ds /\ <<p, x>>[2] = x
      OBVIOUS
    <3> QED BY <3>1
  <2> QED BY <2>1
<1> QED BY <1>2, <1>4, <1>5 DEF NetFrames

LEMMA TxSame ==
    ASSUME TxInv, UNCHANGED <<offered, txVars>>
    PROVE  TxInv' /\ TxFrames' = TxFrames
BY DEF txVars, TxInv, TxTyped, TxFrames, Turn

LEMMA RxSame ==
    ASSUME RxInv, UNCHANGED rxVars
    PROVE  RxInv' /\ RxAll' = RxAll
<1>1. UNCHANGED <<rxPc, rxMsgs, rxAt, rxChunks, room>>
  BY DEF rxVars
<1>2. \A p \in Paths : RxFrames(p)' = RxFrames(p)
  BY <1>1 DEF RxFrames
<1> QED BY <1>1, <1>2 DEF RxInv, RxAll

IInv == TxInv /\ NetInv /\ RxInv /\ Conservation

LEMMA InitIInv == Init => IInv
<1> SUFFICES ASSUME Init PROVE Conservation
  BY InitInv DEF IInv
<1>1. /\ offered = {} /\ net = {} /\ tun = {} /\ lost = {} /\ txPc = "read" /\ segs = <<>>
      /\ \A p \in Paths : /\ rxPc[p] = "recv" /\ rxAt[p] = 1
                          /\ rxMsgs[p] = <<>> /\ rxChunks[p] = <<>>
  BY DEF Init
<1>2. TxFrames = {} /\ NetFrames = {}
  BY <1>1 DEF TxFrames, NetFrames, ToSet
<1>3. ASSUME NEW p \in Paths PROVE RxFrames(p) = {}
  <2>1. RxFrames(p) = ToSet(<<>>) \cup Later(<<>>, 1)
    BY <1>1, HeldIs DEF Held
  <2> QED BY <2>1 DEF ToSet, Later
<1>4. InPath = {}
  BY <1>2, <1>3, InPathIs DEF RxAll
<1> QED BY <1>1, <1>4 DEF Conservation

LEMMA TxStepKeeps ==
    ASSUME IInv, TxInv', TxMoves, UNCHANGED <<offered, rxVars, tun>>
    PROVE  IInv'
<1>1. TxInv /\ NetInv /\ RxInv /\ RxInv' /\ RxAll' = RxAll /\ offered' = offered /\ tun' = tun
  BY RxSame DEF IInv
<1>2. /\ TxFrames \subseteq Frames /\ TxFrames' \subseteq Frames /\ ProbeMsg \notin Frames
      /\ TxInv'
  <2>1. TxFrames \subseteq Frames
    BY <1>1, TxFramesTyped
  <2>2. TxInv' => (TxFrames \subseteq Frames)'
    BY TxFramesTyped, PTL
  <2> QED BY <2>1, <2>2, FrameIs
<1>3. UNION {Ideal(p) : p \in offered} = InPath \cup tun \cup lost
  BY DEF IInv, Conservation
<1>4. InPath' = (TxFrames' \cup NetFrames' \cup RxAll) \ {ProbeMsg}
  BY <1>1, InPathIs DEF InPath, NetFrames, RxAll
<1>5. CASE TxFrames' = TxFrames /\ net' = net /\ lost' = lost
  <2>1. NetInv' /\ NetFrames' = NetFrames
    BY <1>1, <1>5 DEF NetInv, NetFrames
  <2>2. Conservation'
    BY <1>1, <1>3, <1>4, <1>5, <2>1, InPathIs DEF Conservation
  <2> QED BY <1>1, <1>2, <2>1, <2>2 DEF IInv
<1>6. CASE TxFrames' = {} /\ net' = net /\ lost' = lost \cup TxFrames
  <2>1. NetInv' /\ NetFrames' = NetFrames
    BY <1>1, <1>6 DEF NetInv, NetFrames
  <2>2. InPath' \cup tun' \cup lost' = InPath \cup tun \cup lost
    BY <1>1, <1>2, <1>4, <1>6, <2>1, InPathIs
  <2>3. Conservation'
    BY <1>1, <1>3, <2>2 DEF Conservation
  <2> QED BY <1>1, <1>2, <2>1, <2>3 DEF IInv
<1>7. ASSUME NEW fs \in SUBSET Frames, IsFiniteSet(fs), TxFrames = fs \cup TxFrames', Sent(fs)
      PROVE  IInv'
  <2>1. PICK p \in Paths : \/ net' = net \cup ({p} \X fs) /\ lost' = lost
                           \/ net' = net /\ lost' = lost \cup fs
    BY <1>7 DEF Sent
  <2>2. /\ NetInv' /\ NetFrames' \cup lost' = NetFrames \cup lost \cup fs
        /\ NetFrames \subseteq NetFrames'
        /\ lost \subseteq lost' /\ lost' \subseteq lost \cup fs
    <3>1. CASE net' = net \cup ({p} \X fs) /\ lost' = lost
      <4>1. fs \in SUBSET Datagrams
        BY DEF Datagrams
      <4> QED BY <1>1, <1>7, <3>1, <4>1, NetGains
    <3>2. CASE net' = net /\ lost' = lost \cup fs
      BY <1>1, <3>2 DEF NetInv, NetFrames
    <3> QED BY <2>1, <3>1, <3>2
  <2>3. ProbeMsg \notin fs
    BY <1>2
  <2>4. InPath' \cup tun' \cup lost' = InPath \cup tun \cup lost
    BY <1>1, <1>2, <1>4, <1>7, <2>2, <2>3, InPathIs
  <2>5. Conservation'
    BY <1>1, <1>3, <2>4 DEF Conservation
  <2> QED BY <1>1, <1>2, <2>2, <2>5 DEF IInv
<1> QED BY <1>5, <1>6, <1>7 DEF TxMoves

LEMMA ReadStepKeeps ==
    ASSUME IInv, NEW p \in Packets, TunRead(p)
    PROVE  IInv'
<1>1. TxInv /\ NetInv /\ RxInv
  BY DEF IInv
<1>2. UNCHANGED <<net, rxVars, tun, lost>>
  BY DEF TunRead
<1>3. TxInv' /\ TxFrames = {} /\ TxFrames' = Ideal(p) /\ offered' = offered \cup {p}
  BY <1>1, ReadKeeps
<1>4. RxInv' /\ RxAll' = RxAll /\ NetInv' /\ NetFrames' = NetFrames
  BY <1>1, <1>2, RxSame DEF NetInv, NetFrames
<1>5. InPath' = (TxFrames' \cup NetFrames' \cup RxAll') \ {ProbeMsg}
  BY DEF InPath, NetFrames, RxAll
<1>6. ProbeMsg \notin Ideal(p)
  <2>1. Ideal(p) \subseteq Frames
    BY DEF Frames
  <2> QED BY <2>1, FrameIs
<1>7. InPath' = InPath \cup Ideal(p)
  BY <1>3, <1>4, <1>5, <1>6, InPathIs
<1>8. UNION {Ideal(q) : q \in offered'} = (UNION {Ideal(q) : q \in offered}) \cup Ideal(p)
  BY <1>3
<1>9. Conservation'
  BY <1>2, <1>7, <1>8 DEF IInv, Conservation
<1> QED BY <1>3, <1>4, <1>9 DEF IInv

LEMMA RxStep ==
    ASSUME IInv, NEW p \in Paths, RxStepKeeps(p)
    PROVE  IInv'
<1>1. TxInv /\ NetInv /\ RxInv /\ RxInv' /\ RxMoves(p) /\ UNCHANGED <<offered, txVars>>
  BY DEF IInv, RxStepKeeps
<1>2. TxInv' /\ TxFrames' = TxFrames /\ offered' = offered
  BY <1>1, TxSame
<1>3. PICK others : RxAll = others \cup RxFrames(p) /\ RxAll' = others \cup RxFrames(p)'
  <2> DEFINE others == UNION {RxFrames(q) : q \in Paths \ {p}}
  <2>1. RxAll = others \cup RxFrames(p)
    BY DEF RxAll
  <2>2. RxAll' = (UNION {RxFrames(q)' : q \in Paths \ {p}}) \cup RxFrames(p)'
    BY DEF RxAll
  <2>3. UNION {RxFrames(q)' : q \in Paths \ {p}} = others
    BY DEF RxStepKeeps
  <2> QED BY <2>1, <2>2, <2>3
<1>4. InPath' = (TxFrames \cup NetFrames' \cup RxAll') \ {ProbeMsg}
  BY <1>2 DEF InPath, NetFrames, RxAll
<1>5. NetInv' /\ InPath' \cup tun' \cup lost' = InPath \cup tun \cup lost
  <2>1. CASE /\ RxFrames(p)' \ {ProbeMsg} = RxFrames(p) \ {ProbeMsg}
             /\ net' = net /\ tun' = tun /\ lost' = lost
    <3>1. NetInv' /\ NetFrames' = NetFrames
      BY <1>1, <2>1 DEF NetInv, NetFrames
    <3> QED BY <1>3, <1>4, <2>1, <3>1, InPathIs
  <2>2. CASE /\ tun' = tun /\ lost' = lost
             /\ \E ds \in SUBSET Datagrams :
                  /\ {p} \X ds \subseteq net /\ net' = net \ ({p} \X ds)
                  /\ RxFrames(p)' = RxFrames(p) \cup ds
    <3>1. PICK ds \in SUBSET Datagrams :
            /\ {p} \X ds \subseteq net /\ net' = net \ ({p} \X ds)
            /\ RxFrames(p)' = RxFrames(p) \cup ds
      BY <2>2
    <3>2. NetInv' /\ NetFrames = NetFrames' \cup ds
      BY <1>1, <3>1, NetGives
    <3> QED BY <1>3, <1>4, <2>2, <3>1, <3>2, InPathIs
  <2>3. CASE /\ net' = net
             /\ \E f \in Frames :
                  /\ rxPc[p] = "write" /\ f = Head(rxChunks[p])
                  /\ RxFrames(p) = {f} \cup RxFrames(p)'
                  /\ \/ tun' = tun \cup {f} /\ lost' = lost
                     \/ tun' = tun /\ lost' = lost \cup {f}
    <3>1. PICK f \in Frames :
            /\ RxFrames(p) = {f} \cup RxFrames(p)'
            /\ tun' \cup lost' = tun \cup lost \cup {f}
      BY <2>3
    <3>2. NetInv' /\ NetFrames' = NetFrames /\ f # ProbeMsg
      BY <1>1, <2>3, FrameIs DEF NetInv, NetFrames
    <3> QED BY <1>3, <1>4, <3>1, <3>2, InPathIs
  <2> QED BY <1>1, <2>1, <2>2, <2>3 DEF RxMoves
<1>6. Conservation'
  BY <1>2, <1>5 DEF IInv, Conservation
<1> QED BY <1>1, <1>2, <1>5, <1>6 DEF IInv

LEMMA NetStepKeeps ==
    ASSUME IInv, Lose \/ \E p \in Paths : ProbeSlot(p)
    PROVE  IInv'
<1>1. TxInv /\ NetInv /\ RxInv
  BY DEF IInv
<1>2. UNCHANGED <<offered, txVars, rxVars, tun>>
  BY DEF Lose, ProbeSlot
<1>3. TxInv' /\ TxFrames' = TxFrames /\ RxInv' /\ RxAll' = RxAll /\ offered' = offered /\ tun' = tun
  BY <1>1, <1>2, TxSame, RxSame
<1>4. InPath' = (TxFrames \cup NetFrames' \cup RxAll) \ {ProbeMsg}
  BY <1>3 DEF InPath, NetFrames, RxAll
<1>5. NetInv' /\ InPath' \cup lost' = InPath \cup lost
  <2>1. ASSUME NEW p \in Paths, ProbeSlot(p) PROVE NetInv' /\ InPath' \cup lost' = InPath \cup lost
    <3>1. net' = net \cup ({p} \X {ProbeMsg}) /\ lost' = lost
      BY <2>1 DEF ProbeSlot
    <3>2. {ProbeMsg} \in SUBSET Datagrams /\ IsFiniteSet({ProbeMsg})
      BY FS_Singleton DEF Datagrams
    <3>3. NetInv' /\ NetFrames' = NetFrames \cup {ProbeMsg}
      BY <1>1, <3>1, <3>2, NetGains
    <3> QED BY <1>4, <3>1, <3>3, InPathIs
  <2>2. CASE Lose
    <3>1. PICK d \in net : net' = net \ {d} /\ lost' = lost \cup ({d[2]} \ {ProbeMsg})
      BY <2>2 DEF Lose
    <3>2. PICK p \in Paths, x \in Datagrams : d = <<p, x>>
      BY <1>1 DEF NetInv
    <3>3. /\ {p} \X {x} \subseteq net /\ net' = net \ ({p} \X {x})
          /\ lost' = lost \cup ({x} \ {ProbeMsg})
      BY <3>1, <3>2
    <3>4. NetInv' /\ NetFrames = NetFrames' \cup {x}
      BY <1>1, <3>3, NetGives
    <3> QED BY <1>4, <3>3, <3>4, InPathIs
  <2> QED BY <2>1, <2>2
<1>6. Conservation'
  BY <1>3, <1>5 DEF IInv, Conservation
<1> QED BY <1>3, <1>5, <1>6 DEF IInv

LEMMA StepIInv == IInv /\ [Next]_vars => IInv'
<1> SUFFICES ASSUME IInv, [Next]_vars PROVE IInv'
  OBVIOUS
<1>0. TxInv /\ NetInv /\ RxInv
  BY DEF IInv
<1>1. CASE \E p \in Packets : TunRead(p)
  BY <1>1, ReadStepKeeps
<1>2. CASE SplitSegment \/ SplitFail \/ SplitDone
  BY <1>0, <1>2, SplitKeeps, TxStepKeeps
<1>3. CASE SendDone \/ \E p \in Paths : SendOne(p) \/ SendPart(p)
  BY <1>0, <1>3, SendKeeps, TxStepKeeps
<1>4. CASE Lose \/ \E p \in Paths : ProbeSlot(p)
  BY <1>4, NetStepKeeps
<1>5. CASE \E p \in Paths : UdpReader(p)
  BY <1>0, <1>5, ReaderKeeps, RxStep
<1>6. CASE UNCHANGED vars
  <2>1. UNCHANGED <<offered, txVars>> /\ UNCHANGED rxVars /\ UNCHANGED <<net, tun, lost>>
    BY <1>6 DEF vars
  <2>2. TxInv' /\ TxFrames' = TxFrames /\ RxInv' /\ RxAll' = RxAll
    BY <1>0, <2>1, TxSame, RxSame
  <2>3. NetInv' /\ InPath' = InPath
    BY <1>0, <2>1, <2>2, InPathIs DEF InPath, NetFrames, RxAll, NetInv
  <2> QED BY <2>1, <2>2, <2>3 DEF IInv, Conservation
<1> QED BY <1>1, <1>2, <1>3, <1>4, <1>5, <1>6 DEF Next, TunReader

LEMMA AlwaysIInv == Spec => []IInv
BY InitIInv, StepIInv, PTL DEF Spec

(* For any packets and any number of segments of them: gsoSplit stays      *)
(* within its MAX_SEGS buffers, sendUso takes at most USO_PARTS slots for  *)
(* one packet and comes to the last segment, and recvmmsg fills at most    *)
(* BATCH messages (plane.cpp:114-118).                                     *)
THEOREM DataPathTyped == Spec => []TypeOK
<1>1. IInv => TypeOK
  <2> SUFFICES ASSUME IInv PROVE TypeOK
    OBVIOUS
  <2>1. /\ offered \subseteq Packets /\ txPc \in {"read", "split", "sendOne", "sendUso"}
        /\ pkt \in Packets \cup {NoPacket}
        /\ Len(segs) <= MAX_SEGS /\ at \in 1 .. Len(segs) + 1 /\ parts <= USO_PARTS
    BY SizesAssumption DEF IInv, TxInv, TxTyped
  <2>2. \A p \in Paths : Len(rxMsgs[p]) <= BATCH /\ rxAt[p] \in 1 .. BATCH
    BY DEF IInv, RxInv, RxOK
  <2> QED BY <2>1, <2>2 DEF IInv, RxInv, TypeOK
<1> QED BY <1>1, AlwaysIInv, PTL

(* Whatever is lost, reordered and glued together on the way: every frame  *)
(* of a packet read from the TUN is in the path, has been written to the   *)
(* far TUN, or was lost by the network or with a warning; and nothing is   *)
(* there that no packet stands for (gso.cpp, plane.cpp).                   *)
THEOREM NothingLostInSilence == Spec => []Conservation
<1>1. IInv => Conservation
  BY DEF IInv
<1> QED BY <1>1, AlwaysIInv, PTL

-----------------------------------------------------------------------------
(* At most once.                                                           *)

\* No member of a sequence is in it twice.
Once(fs) == \A x, y \in 1 .. Len(fs) : fs[x] = fs[y] => x = y

\* Nor is a frame in two messages from the k-th on, or in one and in the chunks.
HeldOnce(ms, k, cs) ==
    /\ Once(cs)
    /\ \A x \in k .. Len(ms) : Once(ms[x].frames)
    /\ \A x, y \in k .. Len(ms) : x # y =>
         ToSet(ms[x].frames) \cap ToSet(ms[y].frames) \subseteq {ProbeMsg}
    /\ ToSet(cs) \cap Later(ms, k) \subseteq {ProbeMsg}

NextAt(pc, k) == IF pc = "write" THEN k + 1 ELSE k

RxOnce == \A p \in Paths : HeldOnce(rxMsgs[p], NextAt(rxPc[p], rxAt[p]), rxChunks[p])

\* No frame is at two places of the path, or in it and written.
Apart ==
    /\ TxFrames \cap (NetFrames \cup RxAll \cup tun) = {}
    /\ \A d, e \in net : d[2] = e[2] => d = e \/ d[2] = ProbeMsg
    /\ NetFrames \cap (RxAll \cup tun) \subseteq {ProbeMsg}
    /\ \A p, q \in Paths : p # q => RxFrames(p) \cap RxFrames(q) \subseteq {ProbeMsg}
    /\ RxAll \cap tun = {}

UInv == IInv /\ RxOnce /\ Apart

LEMMA OnceNone == Once(<<>>)
BY DEF Once

LEMMA OnceTail ==
    ASSUME NEW S, NEW cs \in Seq(S), cs # <<>>, Once(cs)
    PROVE  Once(Tail(cs)) /\ Head(cs) \notin ToSet(Tail(cs))
<1>1. /\ Len(cs) \in Nat /\ Len(cs) >= 1 /\ Len(Tail(cs)) = Len(cs) - 1 /\ Head(cs) = cs[1]
      /\ DOMAIN Tail(cs) = 1 .. Len(cs) - 1
      /\ \A x \in 1 .. Len(cs) - 1 : Tail(cs)[x] = cs[x + 1]
  OBVIOUS
<1>2. 1 \in 1 .. Len(cs)
      /\ \A x \in 1 .. Len(cs) - 1 : x \in Int /\ x + 1 \in 1 .. Len(cs) /\ x + 1 # 1
  BY <1>1
<1>3. \A x, y \in 1 .. Len(cs) - 1 : x + 1 = y + 1 => x = y
  OBVIOUS
<1>4. Once(Tail(cs))
  BY <1>1, <1>2, <1>3 DEF Once
<1>5. \A x \in 1 .. Len(cs) - 1 : Tail(cs)[x] # cs[1]
  BY <1>1, <1>2 DEF Once
<1> QED BY <1>1, <1>4, <1>5 DEF ToSet

\* The message k, or what is left of it, is gone.
LEMMA HeldRest ==
    ASSUME NEW ms \in Seq(Messages), NEW k \in Nat, NEW cs, HeldOnce(ms, k, cs)
    PROVE  HeldOnce(ms, k + 1, <<>>) /\ HeldOnce(ms, k, <<>>)
<1>1. \A x \in k + 1 .. Len(ms) : x \in k .. Len(ms)
  OBVIOUS
<1>2. ToSet(<<>>) = {}
  BY DEF ToSet
<1> QED BY <1>1, <1>2, OnceNone DEF HeldOnce

LEMMA HeldNone == HeldOnce(<<>>, 1, <<>>)
<1>1. 1 .. Len(<<>>) = {} /\ ToSet(<<>>) = {}
  BY DEF ToSet
<1> QED BY <1>1, OnceNone DEF HeldOnce

\* A message of the kernel has no frame twice.
LEMMA TrainOnce ==
    ASSUME NetInv, NEW p \in Paths, NEW fs \in Trains(p)
    PROVE  Once(fs)
<1> DEFINE here == {d[2] : d \in {e \in net : e[1] = p}}
<1>1. CASE fs \in {<<m>> : m \in here}
  <2>1. PICK d \in here : fs = <<d>>
    BY <1>1
  <2>2. Len(fs) = 1 /\ \A x \in 1 .. 1 : x = 1
    BY <2>1
  <2> QED BY <2>2 DEF Once
<1>2. CASE \E S \in SUBSET (here \ {ProbeMsg}) : fs \in SetToSeqs(S)
  <2>1. PICK S \in SUBSET (here \ {ProbeMsg}) : fs \in SetToSeqs(S)
    BY <1>2
  <2>2. PICK n : n = Cardinality(S)
    OBVIOUS
  <2>3. fs \in [1 .. n -> S] /\ \A i, j \in 1 .. n : i # j => fs[i] # fs[j]
    BY <2>1, <2>2 DEF SetToSeqs
  <2>4. fs \in Seq(Datagrams)
    BY TrainsRight
  <2>5. DOMAIN fs = 1 .. Len(fs)
    BY <2>4
  <2>6. DOMAIN fs = 1 .. n
    BY <2>3
  <2> QED BY <2>3, <2>5, <2>6 DEF Once
<1>3. Trains(p) = {<<m>> : m \in here} \cup
        {gs \in UNION {SetToSeqs(S) : S \in SUBSET (here \ {ProbeMsg})} :
            Len(gs) > 1 /\ Cut(gs, Size(gs[1])) = gs}
  BY DEF Trains
<1> HIDE DEF here
<1> QED BY <1>1, <1>2, <1>3

\* The other readers are where they were.
LEMMA OthersOnce ==
    ASSUME RxInv, RxOnce, NEW p \in Paths, UdpReader(p),
           HeldOnce(rxMsgs'[p], NextAt(rxPc'[p], rxAt'[p]), rxChunks'[p])
    PROVE  RxOnce'
<1>1. ASSUME NEW q \in Paths, q # p
      PROVE  /\ rxPc'[q] = rxPc[q] /\ rxMsgs'[q] = rxMsgs[q]
             /\ rxAt'[q] = rxAt[q] /\ rxChunks'[q] = rxChunks[q]
  BY <1>1 DEF UdpReader, RecvFill, RecvReturn, HandleMsg, WriteChunk, NextMsg, RxInv
<1>2. ASSUME NEW q \in Paths
      PROVE  HeldOnce(rxMsgs'[q], NextAt(rxPc'[q], rxAt'[q]), rxChunks'[q])
  <2>1. CASE q = p
    BY <2>1
  <2>2. CASE q # p
    <3>1. HeldOnce(rxMsgs[q], NextAt(rxPc[q], rxAt[q]), rxChunks[q])
      BY DEF RxOnce
    <3> QED BY <1>1, <2>2, <3>1
  <2> QED BY <2>1, <2>2
<1> QED BY <1>2 DEF RxOnce

LEMMA FillOnce ==
    ASSUME RxInv, NetInv, RxOnce, Apart, NEW p \in Paths, RecvFill(p)
    PROVE  RxOnce'
<1>1. PICK ms \in Seq(Messages) :
        /\ ms = rxMsgs[p] /\ rxPc[p] = "recv" /\ rxAt[p] = 1 /\ rxChunks[p] = <<>>
  <2>1. rxPc[p] = "recv"
    BY DEF RecvFill
  <2>2. rxAt[p] = 1 /\ rxChunks[p] = <<>>
    BY <2>1, RxAtPath DEF RxOK
  <2> QED BY <2>1, <2>2, RxAtPath
<1>2. PICK fs \in Trains(p) : \E g :
        rxMsgs' = [rxMsgs EXCEPT ![p] = Append(@, [frames |-> fs, gso |-> g])]
  BY DEF RecvFill
<1>3. PICK m : m.frames = fs /\ rxMsgs'[p] = Append(ms, m)
  <2>0. PICK g : rxMsgs' = [rxMsgs EXCEPT ![p] = Append(@, [frames |-> fs, gso |-> g])]
    BY <1>2
  <2> DEFINE m == [frames |-> fs, gso |-> g]
  <2>1. m.frames = fs
    OBVIOUS
  <2> HIDE DEF m
  <2>2. rxMsgs' = [rxMsgs EXCEPT ![p] = Append(ms, m)]
    BY <1>1, <2>0 DEF m
  <2>3. p \in DOMAIN rxMsgs
    BY DEF RxInv
  <2> QED BY <2>1, <2>2, <2>3
<1>4. rxPc'[p] = "recv" /\ rxAt'[p] = 1 /\ rxChunks'[p] = <<>>
  BY <1>1 DEF RecvFill
<1>5. /\ Len(ms) \in Nat /\ Len(Append(ms, m)) = Len(ms) + 1 /\ Append(ms, m)[Len(ms) + 1] = m
      /\ \A x \in 1 .. Len(ms) : Append(ms, m)[x] = ms[x]
      /\ \A x \in 1 .. Len(ms) + 1 : x \in 1 .. Len(ms) \/ x = Len(ms) + 1
  OBVIOUS
<1>6. HeldOnce(ms, 1, <<>>)
  BY <1>1 DEF RxOnce, NextAt
<1>7. \A x \in 1 .. Len(ms) : ToSet(ms[x].frames) \cap ToSet(fs) \subseteq {ProbeMsg}
  <2>1. RxFrames(p) = ToSet(<<>>) \cup Later(ms, 1)
    BY <1>1, HeldIs DEF Held
  <2>2. \A x \in 1 .. Len(ms) : ToSet(ms[x].frames) \subseteq RxAll
    BY <2>1 DEF Later, RxAll
  <2>3. ToSet(fs) \subseteq NetFrames
    <3>1. {p} \X ToSet(fs) \subseteq net
      BY TrainsRight
    <3>2. \A x \in ToSet(fs) : <<p, x>> \in net /\ <<p, x>>[2] = x
      BY <3>1
    <3> QED BY <3>2 DEF NetFrames
  <2> QED BY <2>2, <2>3 DEF Apart
<1>8. Once(fs)
  BY TrainOnce
<1>9. HeldOnce(Append(ms, m), 1, <<>>)
  <2> DEFINE ms2 == Append(ms, m)
  <2>1. \A x \in 1 .. Len(ms2) : Once(ms2[x].frames)
    BY <1>3, <1>5, <1>6, <1>8 DEF HeldOnce
  <2>2. \A x, y \in 1 .. Len(ms2) : x # y =>
          ToSet(ms2[x].frames) \cap ToSet(ms2[y].frames) \subseteq {ProbeMsg}
    <3> SUFFICES ASSUME NEW x \in 1 .. Len(ms2), NEW y \in 1 .. Len(ms2), x # y
                 PROVE  ToSet(ms2[x].frames) \cap ToSet(ms2[y].frames) \subseteq {ProbeMsg}
      OBVIOUS
    <3>1. CASE x \in 1 .. Len(ms) /\ y \in 1 .. Len(ms)
      BY <1>5, <1>6, <3>1 DEF HeldOnce
    <3>2. CASE x = Len(ms) + 1
      <4>1. y \in 1 .. Len(ms) /\ ms2[x] = m /\ ms2[y] = ms[y]
        BY <1>5, <3>2
      <4> QED BY <1>3, <1>7, <4>1
    <3>3. CASE y = Len(ms) + 1
      <4>1. x \in 1 .. Len(ms) /\ ms2[y] = m /\ ms2[x] = ms[x]
        BY <1>5, <3>3
      <4> QED BY <1>3, <1>7, <4>1
    <3> QED BY <1>5, <3>1, <3>2, <3>3
  <2>3. ToSet(<<>>) = {}
    BY DEF ToSet
  <2> HIDE DEF ms2
  <2>4. HeldOnce(ms2, 1, <<>>)
    BY <2>1, <2>2, <2>3, OnceNone DEF HeldOnce
  <2> QED BY <2>4 DEF ms2
<1>10. HeldOnce(rxMsgs'[p], NextAt(rxPc'[p], rxAt'[p]), rxChunks'[p])
  BY <1>3, <1>4, <1>9 DEF NextAt
<1> QED BY <1>10, OthersOnce DEF UdpReader

LEMMA ReturnOnce ==
    ASSUME RxInv, RxOnce, NEW p \in Paths, RecvReturn(p)
    PROVE  RxOnce'
<1>1. rxPc[p] = "recv"
  BY DEF RecvReturn
<1>2. rxAt[p] = 1
  BY <1>1, RxAtPath DEF RxOK
<1>3. /\ rxPc'[p] = "msg" /\ rxAt'[p] = 1 /\ rxMsgs'[p] = rxMsgs[p] /\ rxChunks'[p] = rxChunks[p]
  BY DEF RecvReturn, RxInv
<1>4. HeldOnce(rxMsgs[p], 1, rxChunks[p])
  BY <1>1, <1>2 DEF RxOnce, NextAt
<1>5. HeldOnce(rxMsgs'[p], NextAt(rxPc'[p], rxAt'[p]), rxChunks'[p])
  BY <1>3, <1>4 DEF NextAt
<1> QED BY <1>5, OthersOnce DEF UdpReader

LEMMA NextOnce ==
    ASSUME RxInv, NEW p \in Paths, NextMsg(p), rxChunks'[p] = <<>>,
           HeldOnce(rxMsgs[p], rxAt[p] + 1, <<>>)
    PROVE  HeldOnce(rxMsgs'[p], NextAt(rxPc'[p], rxAt'[p]), rxChunks'[p])
<1>1. CASE rxAt[p] = Len(rxMsgs[p])
  <2>1. rxPc'[p] = "recv" /\ rxMsgs'[p] = <<>> /\ rxAt'[p] = 1
    BY <1>1 DEF NextMsg, RxInv
  <2> QED BY <2>1, HeldNone DEF NextAt
<1>2. CASE rxAt[p] # Len(rxMsgs[p])
  <2>1. rxPc'[p] = "msg" /\ rxMsgs'[p] = rxMsgs[p] /\ rxAt'[p] = rxAt[p] + 1
    BY <1>2 DEF NextMsg, RxInv
  <2> QED BY <2>1 DEF NextAt
<1> QED BY <1>1, <1>2

LEMMA HandleOnce ==
    ASSUME RxInv, RxOnce, NEW p \in Paths, HandleMsg(p)
    PROVE  RxOnce'
<1>1. PICK ms \in Seq(Messages), k \in 1 .. BATCH :
        ms = rxMsgs[p] /\ k = rxAt[p] /\ rxPc[p] = "msg" /\ k <= Len(ms)
  <2>1. rxPc[p] = "msg"
    BY DEF HandleMsg
  <2>2. rxAt[p] <= Len(rxMsgs[p])
    BY <2>1, RxAtPath DEF RxOK
  <2> QED BY <2>1, <2>2, RxAtPath
<1>2. k \in Nat /\ k \in k .. Len(ms) /\ k \in 1 .. Len(ms) /\ ms[k] \in Messages
  <2>1. k \in Nat /\ Len(ms) \in Nat /\ k >= 1
    OBVIOUS
  <2> QED BY <1>1, <2>1
<1>3. PICK cs : /\ cs = Chunks(ms[k]) /\ rxChunks'[p] = cs
                /\ IF cs = <<>> THEN NextMsg(p)
                   ELSE rxPc' = [rxPc EXCEPT ![p] = "write"] /\ UNCHANGED <<rxMsgs, rxAt>>
  BY <1>1 DEF HandleMsg, RxInv
<1>4. HeldOnce(ms, k, rxChunks[p])
  BY <1>1 DEF RxOnce, NextAt
<1>5. HeldOnce(ms, k + 1, <<>>)
  BY <1>2, <1>4, HeldRest
<1>6. (cs = <<>> \/ cs = ms[k].frames) /\ ToSet(cs) \subseteq ToSet(ms[k].frames)
  BY <1>2, <1>3, ChunksRight
<1>7. CASE cs = <<>>
  <2>1. HeldOnce(rxMsgs'[p], NextAt(rxPc'[p], rxAt'[p]), rxChunks'[p])
    BY <1>1, <1>3, <1>5, <1>7, NextOnce
  <2> QED BY <2>1, OthersOnce DEF UdpReader
<1>8. CASE cs # <<>>
  <2>1. rxPc'[p] = "write" /\ rxMsgs'[p] = ms /\ rxAt'[p] = k
    BY <1>1, <1>3, <1>8 DEF RxInv
  <2>2. Once(cs)
    BY <1>2, <1>4, <1>6, <1>8 DEF HeldOnce
  <2>3. \A x \in k + 1 .. Len(ms) : x \in k .. Len(ms) /\ x # k
    BY <1>2
  <2>4. ToSet(cs) \cap Later(ms, k + 1) \subseteq {ProbeMsg}
    <3>1. \A x \in k + 1 .. Len(ms) : ToSet(cs) \cap ToSet(ms[x].frames) \subseteq {ProbeMsg}
      BY <1>2, <1>4, <1>6, <2>3 DEF HeldOnce
    <3> QED BY <3>1 DEF Later
  <2>5. HeldOnce(ms, k + 1, cs)
    BY <1>5, <2>2, <2>4 DEF HeldOnce
  <2>6. HeldOnce(rxMsgs'[p], NextAt(rxPc'[p], rxAt'[p]), rxChunks'[p])
    BY <1>3, <2>1, <2>5 DEF NextAt
  <2> QED BY <2>6, OthersOnce DEF UdpReader
<1> QED BY <1>7, <1>8

\* What is written is nowhere else in udpReader.
LEMMA WriteOnce ==
    ASSUME RxInv, RxOnce, NEW p \in Paths, WriteChunk(p)
    PROVE  RxOnce' /\ Head(rxChunks[p]) \notin RxFrames(p)'
<1>1. PICK ms \in Seq(Messages), k \in 1 .. BATCH, cs \in Seq(Frames) :
        /\ ms = rxMsgs[p] /\ k = rxAt[p] /\ cs = rxChunks[p] /\ cs # <<>>
        /\ rxPc[p] = "write" /\ k <= Len(ms)
  <2>1. rxPc[p] = "write"
    BY DEF WriteChunk
  <2>2. rxAt[p] <= Len(rxMsgs[p]) /\ rxChunks[p] # <<>>
    BY <2>1, RxAtPath DEF RxOK
  <2> QED BY <2>1, <2>2, RxAtPath
<1>2. PICK f, rest : f = Head(cs) /\ rest = Tail(cs)
  OBVIOUS
<1>3. /\ rxChunks'[p] = rest
      /\ IF rest = <<>> THEN NextMsg(p) ELSE UNCHANGED <<rxPc, rxMsgs, rxAt>>
  BY <1>1, <1>2 DEF WriteChunk, RxInv
<1>4. HeldOnce(ms, k + 1, cs)
  BY <1>1 DEF RxOnce, NextAt
<1>5. Once(rest) /\ f \notin ToSet(rest) /\ f # ProbeMsg
  <2>1. f \in Frames
    BY <1>1, <1>2
  <2> QED BY <1>1, <1>2, <1>4, <2>1, OnceTail, FrameIs DEF HeldOnce
<1>6. ToSet(cs) = {f} \cup ToSet(rest)
  BY <1>1, <1>2, HeadTail
<1>7. HeldOnce(ms, k + 1, rest)
  BY <1>4, <1>5, <1>6 DEF HeldOnce
<1>8. HeldOnce(rxMsgs'[p], NextAt(rxPc'[p], rxAt'[p]), rxChunks'[p])
  <2>1. CASE rest = <<>>
    BY <1>1, <1>3, <1>7, <2>1, NextOnce
  <2>2. CASE rest # <<>>
    BY <1>1, <1>3, <1>7, <2>2 DEF NextAt
  <2> QED BY <2>1, <2>2
<1>9. RxFrames(p)' \subseteq ToSet(rest) \cup Later(ms, k + 1)
  <2>1. RxFrames(p)' = Held(rxPc'[p], rxMsgs'[p], rxAt'[p], rxChunks'[p])
    BY DEF RxFrames, Held, Later
  <2>2. CASE rest # <<>>
    BY <1>1, <1>3, <2>1, <2>2 DEF Held
  <2>3. CASE rest = <<>> /\ k = Len(ms)
    <3>1. rxPc'[p] = "recv" /\ rxMsgs'[p] = <<>> /\ rxAt'[p] = 1
      BY <1>1, <1>3, <2>3 DEF NextMsg, RxInv
    <3>2. Later(<<>>, 1) = {}
      BY DEF Later
    <3> QED BY <1>3, <2>1, <3>1, <3>2 DEF Held
  <2>4. CASE rest = <<>> /\ k # Len(ms)
    <3>1. rxPc'[p] = "msg" /\ rxMsgs'[p] = ms /\ rxAt'[p] = k + 1
      BY <1>1, <1>3, <2>4 DEF NextMsg, RxInv
    <3> QED BY <1>3, <2>1, <3>1 DEF Held
  <2> QED BY <2>2, <2>3, <2>4
<1>10. f \notin Later(ms, k + 1)
  BY <1>4, <1>5, <1>6 DEF HeldOnce
<1>11. RxOnce'
  BY <1>8, OthersOnce DEF UdpReader
<1> QED BY <1>1, <1>2, <1>5, <1>9, <1>10, <1>11

\* What is in the path or has been written is of a packet that was read.
LEMMA PathFrames ==
    ASSUME IInv
    PROVE  /\ TxFrames \subseteq Frames /\ tun \subseteq Frames
           /\ ProbeMsg \notin TxFrames /\ ProbeMsg \notin tun
           /\ NetFrames \subseteq Datagrams
           /\ (TxFrames \cup NetFrames \cup RxAll \cup tun) \ {ProbeMsg}
                \subseteq UNION {Ideal(p) : p \in offered}
<1>1. TxInv /\ NetInv /\ offered \subseteq Packets
  BY DEF IInv, TxInv, TxTyped
<1>2. UNION {Ideal(p) : p \in offered} = InPath \cup tun \cup lost
  BY DEF IInv, Conservation
<1>3. UNION {Ideal(p) : p \in offered} \subseteq Frames
  BY <1>1 DEF Frames
<1>4. TxFrames \subseteq Frames /\ tun \subseteq Frames /\ ProbeMsg \notin Frames
  BY <1>1, <1>2, <1>3, TxFramesTyped, FrameIs
<1>5. NetFrames \subseteq Datagrams
  BY <1>1 DEF NetInv, NetFrames
<1>6. (TxFrames \cup NetFrames \cup RxAll \cup tun) \ {ProbeMsg} \subseteq InPath \cup tun
  BY InPathIs
<1> QED BY <1>2, <1>4, <1>5, <1>6

\* Frames of packets with different pids are different.
LEMMA PidNames ==
    ASSUME NEW p \in Packets, NEW f \in Ideal(p)
    PROVE  f.pid = p.pid
<1>1. CASE f = Plain(p)
  BY <1>1 DEF Plain
<1>2. CASE f \in Cuts(p)
  BY <1>2 DEF Cuts
<1> QED BY <1>1, <1>2 DEF Ideal

LEMMA ReadApart ==
    ASSUME UInv, NEW p \in Packets, TunRead(p)
    PROVE  UInv' /\ Link!Offer
<1>1. IInv /\ IInv' /\ RxOnce /\ Apart
  BY ReadStepKeeps DEF UInv
<1>2. /\ p \notin offered /\ UNCHANGED <<net, rxVars, tun>>
  BY DEF TunRead
<1>3. PICK w \in Workloads : offered \cup {p} \subseteq w
  BY DEF TunRead
<1>4. TxFrames = {} /\ TxFrames' = Ideal(p)
  BY <1>1, ReadKeeps DEF IInv
<1>5. RxAll' = RxAll /\ NetFrames' = NetFrames /\ tun' = tun /\ net' = net
  BY <1>1, <1>2, RxSame DEF NetFrames, IInv
<1>6. ASSUME NEW f \in Ideal(p), f \in NetFrames \cup RxAll \cup tun PROVE FALSE
  <2>1. f # ProbeMsg
    BY FrameIs DEF Frames
  <2>2. PICK q \in offered : f \in Ideal(q)
    BY <1>1, <1>6, <2>1, PathFrames
  <2>3. q \in Packets /\ q \in w /\ p \in w
    BY <1>3 DEF Packets
  <2>4. p.pid = q.pid
    BY <2>2, <2>3, PidNames
  <2>5. p = q
    BY <1>3, <2>3, <2>4, NamesAssumption
  <2> QED BY <1>2, <2>2, <2>5
<1>7. UNCHANGED <<rxPc, rxMsgs, rxAt, rxChunks>>
  BY <1>2 DEF rxVars
<1>8. RxOnce'
  BY <1>1, <1>7 DEF RxOnce
<1>9. \A q \in Paths : RxFrames(q)' = RxFrames(q)
  BY <1>7 DEF RxFrames
<1>10. Apart'
  BY <1>1, <1>4, <1>5, <1>6, <1>9 DEF Apart
<1>11. InPath' = InPath \cup Ideal(p)
  <2>1. ProbeMsg \notin Ideal(p)
    BY FrameIs DEF Frames
  <2>2. InPath' = (TxFrames' \cup NetFrames' \cup RxAll') \ {ProbeMsg}
    BY DEF InPath, NetFrames, RxAll
  <2> QED BY <1>4, <1>5, <2>1, <2>2, InPathIs
<1>12. Link!Offer
  BY <1>5, <1>11 DEF Link!Offer
<1> QED BY <1>1, <1>8, <1>10, <1>12 DEF UInv

\* The network gets nothing on path p that is in it already.
LEMMA NetApart ==
    ASSUME NEW p \in Paths, NEW fs, net' = net \cup ({p} \X fs),
           \A d, e \in net : d[2] = e[2] => d = e \/ d[2] = ProbeMsg,
           fs \cap NetFrames \subseteq {ProbeMsg}
    PROVE  (\A d, e \in net : d[2] = e[2] => d = e \/ d[2] = ProbeMsg)'
<1> SUFFICES ASSUME NEW d \in net', NEW e \in net', d[2] = e[2], d[2] # ProbeMsg
             PROVE  d = e
  OBVIOUS
<1>1. CASE d \in net /\ e \in net
  BY <1>1
<1>2. CASE d \in {p} \X fs /\ e \in {p} \X fs
  BY <1>2
<1>3. CASE d \in net /\ e \in {p} \X fs
  <2>1. d[2] \in NetFrames /\ e[2] \in fs
    BY <1>3 DEF NetFrames
  <2> QED BY <2>1
<1>4. CASE d \in {p} \X fs /\ e \in net
  <2>1. e[2] \in NetFrames /\ d[2] \in fs
    BY <1>4 DEF NetFrames
  <2> QED BY <2>1
<1> QED BY <1>1, <1>2, <1>3, <1>4

LEMMA TxApart ==
    ASSUME UInv, TxInv', TxMoves, UNCHANGED <<offered, rxVars, tun>>
    PROVE  UInv' /\ Link!Lose
<1>1. IInv /\ IInv' /\ RxOnce /\ Apart /\ NetInv
  BY TxStepKeeps DEF UInv, IInv
<1>2. RxAll' = RxAll /\ tun' = tun
  BY <1>1, RxSame DEF IInv
<1>3. UNCHANGED <<rxPc, rxMsgs, rxAt, rxChunks>>
  BY DEF rxVars
<1>4. RxOnce' /\ \A q \in Paths : RxFrames(q)' = RxFrames(q)
  BY <1>1, <1>3 DEF RxOnce, RxFrames
<1>5. InPath' = (TxFrames' \cup NetFrames' \cup RxAll) \ {ProbeMsg}
  BY <1>2 DEF InPath, NetFrames, RxAll
<1>6. CASE TxFrames' \subseteq TxFrames /\ net' = net
  <2>1. NetFrames' = NetFrames
    BY <1>6 DEF NetFrames
  <2>2. Apart'
    BY <1>1, <1>2, <1>4, <1>6, <2>1 DEF Apart
  <2>3. InPath' \subseteq InPath
    BY <1>5, <1>6, <2>1, InPathIs
  <2> QED BY <1>1, <1>2, <1>4, <2>2, <2>3 DEF UInv, Link!Lose
<1>7. ASSUME NEW fs \in SUBSET Frames, IsFiniteSet(fs), TxFrames = fs \cup TxFrames',
             fs \cap TxFrames' = {}, NEW p \in Paths, net' = net \cup ({p} \X fs)
      PROVE  UInv' /\ Link!Lose
  <2>1. NetFrames' = NetFrames \cup fs
    <3>1. fs \in SUBSET Datagrams
      BY DEF Datagrams
    <3> QED BY <1>1, <1>7, <3>1, NetGains
  <2>2. fs \cap (NetFrames \cup RxAll \cup tun) = {} /\ TxFrames' \cap NetFrames = {}
    BY <1>1, <1>7 DEF Apart
  <2>3. (\A d, e \in net : d[2] = e[2] => d = e \/ d[2] = ProbeMsg)'
    BY <1>1, <1>7, <2>2, NetApart DEF Apart
  <2>4. TxFrames' \cap (NetFrames' \cup RxAll \cup tun) = {}
    BY <1>1, <1>7, <2>1, <2>2 DEF Apart
  <2>5. NetFrames' \cap (RxAll \cup tun) \subseteq {ProbeMsg}
    BY <1>1, <2>1, <2>2 DEF Apart
  <2>6. Apart'
    BY <1>1, <1>2, <1>4, <2>3, <2>4, <2>5 DEF Apart
  <2>7. InPath' \subseteq InPath
    BY <1>5, <1>7, <2>1, InPathIs
  <2> QED BY <1>1, <1>2, <1>4, <2>6, <2>7 DEF UInv, Link!Lose
<1> QED BY <1>6, <1>7 DEF TxMoves, Sent

LEMMA NetStepApart ==
    ASSUME UInv, Lose \/ \E p \in Paths : ProbeSlot(p)
    PROVE  UInv' /\ Link!Lose
<1>1. IInv /\ IInv' /\ RxOnce /\ Apart /\ NetInv
  BY NetStepKeeps DEF UInv, IInv
<1>2. UNCHANGED <<offered, txVars, rxVars, tun>>
  BY DEF Lose, ProbeSlot
<1>3. RxAll' = RxAll /\ tun' = tun /\ TxFrames' = TxFrames
  BY <1>1, <1>2, TxSame, RxSame DEF IInv
<1>4. UNCHANGED <<rxPc, rxMsgs, rxAt, rxChunks>>
  BY <1>2 DEF rxVars
<1>5. RxOnce' /\ \A q \in Paths : RxFrames(q)' = RxFrames(q)
  BY <1>1, <1>4 DEF RxOnce, RxFrames
<1>6. /\ (\A d, e \in net : d[2] = e[2] => d = e \/ d[2] = ProbeMsg)'
      /\ NetFrames' \subseteq NetFrames \cup {ProbeMsg}
  <2>1. CASE Lose
    <3>1. net' \subseteq net
      BY <2>1 DEF Lose
    <3> QED BY <1>1, <3>1 DEF Apart, NetFrames
  <2>2. ASSUME NEW p \in Paths, ProbeSlot(p)
        PROVE  /\ (\A d, e \in net : d[2] = e[2] => d = e \/ d[2] = ProbeMsg)'
               /\ NetFrames' \subseteq NetFrames \cup {ProbeMsg}
    <3>1. net' = net \cup ({p} \X {ProbeMsg})
      BY <2>2 DEF ProbeSlot
    <3>2. {ProbeMsg} \in SUBSET Datagrams /\ IsFiniteSet({ProbeMsg})
      BY FS_Singleton DEF Datagrams
    <3> QED BY <1>1, <3>1, <3>2, NetGains, NetApart DEF Apart
  <2> QED BY <2>1, <2>2
<1>7. Apart'
  BY <1>1, <1>3, <1>5, <1>6, PathFrames DEF Apart
<1>8. InPath' = (TxFrames \cup NetFrames' \cup RxAll) \ {ProbeMsg}
  BY <1>3 DEF InPath, NetFrames, RxAll
<1>9. InPath' \subseteq InPath
  BY <1>6, <1>8, InPathIs
<1> QED BY <1>1, <1>3, <1>5, <1>7, <1>9 DEF UInv, Link!Lose

LEMMA RxApart ==
    ASSUME UInv, NEW p \in Paths, UdpReader(p)
    PROVE  UInv' /\ (Link!Lose \/ Link!Deliver)
<1>1. /\ IInv /\ RxOnce /\ Apart /\ TxInv /\ NetInv /\ RxInv /\ RxStepKeeps(p)
  BY ReaderKeeps DEF UInv, IInv
<1>2. IInv' /\ UNCHANGED <<offered, txVars>> /\ RxMoves(p)
      /\ \A q \in Paths \ {p} : RxFrames(q)' = RxFrames(q)
  BY <1>1, RxStep DEF RxStepKeeps
<1>3. TxFrames' = TxFrames
  BY <1>1, <1>2, TxSame
<1>4. RxOnce'
  BY <1>1, FillOnce, ReturnOnce, HandleOnce, WriteOnce DEF UdpReader
<1>5. PICK others : /\ RxAll = others \cup RxFrames(p) /\ RxAll' = others \cup RxFrames(p)'
                    /\ others \cap RxFrames(p) \subseteq {ProbeMsg}
  <2> DEFINE others == UNION {RxFrames(q) : q \in Paths \ {p}}
  <2>1. RxAll = others \cup RxFrames(p)
    BY DEF RxAll
  <2>2. RxAll' = (UNION {RxFrames(q)' : q \in Paths \ {p}}) \cup RxFrames(p)'
    BY DEF RxAll
  <2>3. UNION {RxFrames(q)' : q \in Paths \ {p}} = others
    BY <1>2
  <2>4. others \cap RxFrames(p) \subseteq {ProbeMsg}
    BY <1>1 DEF Apart
  <2> QED BY <2>1, <2>2, <2>3, <2>4
<1>6. InPath' = (TxFrames \cup NetFrames' \cup RxAll') \ {ProbeMsg}
  BY <1>3 DEF InPath, NetFrames, RxAll
<1>7. ProbeMsg \notin TxFrames /\ ProbeMsg \notin tun
  BY <1>1, PathFrames
\* The other readers have nothing of what p has, if that is what it had or new to them.
<1>8. ASSUME NEW ds, RxFrames(p)' \subseteq RxFrames(p) \cup ds \cup {ProbeMsg},
             ds \cap RxAll \subseteq {ProbeMsg}
      PROVE  \A q, r \in Paths : q # r => RxFrames(q)' \cap RxFrames(r)' \subseteq {ProbeMsg}
  <2> SUFFICES ASSUME NEW q \in Paths, NEW r \in Paths, q # r
               PROVE  RxFrames(q)' \cap RxFrames(r)' \subseteq {ProbeMsg}
    OBVIOUS
  <2>1. RxFrames(q) \cap RxFrames(r) \subseteq {ProbeMsg}
    BY <1>1 DEF Apart
  <2>2. RxFrames(q) \subseteq RxAll /\ RxFrames(r) \subseteq RxAll
    BY DEF RxAll
  <2>3. CASE q = p
    BY <1>2, <1>8, <2>1, <2>2, <2>3
  <2>4. CASE r = p
    BY <1>2, <1>8, <2>1, <2>2, <2>4
  <2>5. CASE q # p /\ r # p
    BY <1>2, <2>1, <2>5
  <2> QED BY <2>3, <2>4, <2>5
<1>9. CASE /\ RxFrames(p)' \ {ProbeMsg} = RxFrames(p) \ {ProbeMsg}
           /\ net' = net /\ tun' = tun /\ lost' = lost
  <2>1. NetFrames' = NetFrames
    BY <1>9 DEF NetFrames
  <2>2. \A q, r \in Paths : q # r => RxFrames(q)' \cap RxFrames(r)' \subseteq {ProbeMsg}
    BY <1>8, <1>9
  <2>3. RxAll' \ {ProbeMsg} = RxAll \ {ProbeMsg}
    BY <1>5, <1>9
  <2>4. Apart'
    BY <1>1, <1>3, <1>7, <1>9, <2>1, <2>2, <2>3 DEF Apart
  <2>5. InPath' = InPath
    BY <1>6, <2>1, <2>3, InPathIs
  <2> QED BY <1>2, <1>4, <1>9, <2>4, <2>5 DEF UInv, Link!Lose
<1>10. ASSUME tun' = tun, NEW ds \in SUBSET Datagrams,
              {p} \X ds \subseteq net, net' = net \ ({p} \X ds),
              RxFrames(p)' = RxFrames(p) \cup ds
       PROVE  UInv' /\ Link!Lose
  <2>1. NetFrames = NetFrames' \cup ds
    BY <1>1, <1>10, NetGives
  <2>2. NetFrames' \cap ds \subseteq {ProbeMsg}
    <3>1. ASSUME NEW d \in net', d[2] \in ds, d[2] # ProbeMsg PROVE FALSE
      <4>1. <<p, d[2]>> \in net /\ d \in net /\ <<p, d[2]>>[2] = d[2]
        BY <1>10, <3>1
      <4>2. d = <<p, d[2]>>
        BY <1>1, <3>1, <4>1 DEF Apart
      <4>3. d \in {p} \X ds
        BY <3>1, <4>2
      <4> QED BY <1>10, <4>3
    <3> QED BY <3>1 DEF NetFrames
  <2>3. ds \cap (RxAll \cup tun) \subseteq {ProbeMsg} /\ ds \cap TxFrames = {}
    BY <1>1, <2>1 DEF Apart
  <2>4. \A q, r \in Paths : q # r => RxFrames(q)' \cap RxFrames(r)' \subseteq {ProbeMsg}
    BY <1>8, <1>10, <2>3
  <2>5. RxAll' = RxAll \cup ds
    BY <1>5, <1>10
  <2>6. (\A d, e \in net : d[2] = e[2] => d = e \/ d[2] = ProbeMsg)'
    BY <1>1, <1>10 DEF Apart
  <2>7. Apart'
    BY <1>1, <1>3, <1>7, <1>10, <2>1, <2>2, <2>3, <2>4, <2>5, <2>6 DEF Apart
  <2>8. InPath' = InPath
    BY <1>6, <2>1, <2>5, InPathIs
  <2> QED BY <1>2, <1>4, <1>10, <2>7, <2>8 DEF UInv, Link!Lose
<1>11. ASSUME net' = net, NEW f \in Frames, rxPc[p] = "write", f = Head(rxChunks[p]),
              RxFrames(p) = {f} \cup RxFrames(p)', tun' = tun \/ tun' = tun \cup {f}
       PROVE  UInv' /\ (Link!Lose \/ Link!Deliver)
  <2>1. WriteChunk(p)
    BY <1>11 DEF UdpReader, RecvFill, RecvReturn, HandleMsg
  <2>2. f \notin RxFrames(p)' /\ f # ProbeMsg
    BY <1>1, <1>11, <2>1, WriteOnce, FrameIs
  <2>3. NetFrames' = NetFrames
    BY <1>11 DEF NetFrames
  <2>4. f \in RxAll /\ f \notin RxAll' /\ RxAll = {f} \cup RxAll'
    BY <1>5, <1>11, <2>2
  <2>5. f \notin NetFrames /\ f \notin TxFrames /\ f \notin tun
    BY <1>1, <2>2, <2>4 DEF Apart
  <2>6. \A q, r \in Paths : q # r => RxFrames(q)' \cap RxFrames(r)' \subseteq {ProbeMsg}
    BY <1>8, <1>11
  <2>7. Apart'
    BY <1>1, <1>3, <1>11, <2>3, <2>4, <2>5, <2>6 DEF Apart
  <2>8. InPath' = InPath \ {f} /\ f \in InPath
    BY <1>6, <2>2, <2>3, <2>4, <2>5, InPathIs
  <2>9. Link!Lose \/ Link!Deliver
    BY <1>11, <2>5, <2>8 DEF Link!Lose, Link!Deliver
  <2> QED BY <1>2, <1>4, <2>7, <2>9 DEF UInv
<1> QED BY <1>2, <1>9, <1>10, <1>11 DEF RxMoves

LEMMA InitUInv == Init => UInv /\ Link!Init
<1> SUFFICES ASSUME Init PROVE UInv /\ Link!Init
  OBVIOUS
<1>1. /\ net = {} /\ tun = {} /\ txPc = "read" /\ segs = <<>>
      /\ \A p \in Paths : /\ rxPc[p] = "recv" /\ rxAt[p] = 1
                          /\ rxMsgs[p] = <<>> /\ rxChunks[p] = <<>>
  BY DEF Init
<1>2. TxFrames = {} /\ NetFrames = {}
  BY <1>1 DEF TxFrames, NetFrames, ToSet
<1>3. ASSUME NEW p \in Paths PROVE RxFrames(p) = {}
  <2>1. RxFrames(p) = ToSet(<<>>) \cup Later(<<>>, 1)
    BY <1>1, HeldIs DEF Held
  <2> QED BY <2>1 DEF ToSet, Later
<1>4. RxAll = {} /\ InPath = {}
  BY <1>2, <1>3, InPathIs DEF RxAll
<1>5. Apart
  BY <1>1, <1>2, <1>3, <1>4 DEF Apart
<1>6. RxOnce
  BY <1>1, HeldNone DEF RxOnce, NextAt
<1> QED BY <1>1, <1>4, <1>5, <1>6, InitIInv DEF UInv, Link!Init

LEMMA StepUInv == UInv /\ [Next]_vars => UInv' /\ [Link!Next]_(Link!vars)
<1> SUFFICES ASSUME UInv, [Next]_vars PROVE UInv' /\ [Link!Next]_(Link!vars)
  OBVIOUS
<1>0. TxInv
  BY DEF UInv, IInv
<1>1. CASE \E p \in Packets : TunRead(p)
  BY <1>1, ReadApart DEF Link!Next
<1>2. CASE SplitSegment \/ SplitFail \/ SplitDone
  BY <1>0, <1>2, SplitKeeps, TxApart DEF Link!Next
<1>3. CASE SendDone \/ \E p \in Paths : SendOne(p) \/ SendPart(p)
  BY <1>0, <1>3, SendKeeps, TxApart DEF Link!Next
<1>4. CASE Lose \/ \E p \in Paths : ProbeSlot(p)
  BY <1>4, NetStepApart DEF Link!Next
<1>5. CASE \E p \in Paths : UdpReader(p)
  BY <1>5, RxApart DEF Link!Next
<1>6. CASE UNCHANGED vars
  <2>1. UNCHANGED <<offered, txVars>> /\ UNCHANGED rxVars /\ UNCHANGED <<net, tun, lost>>
    BY <1>6 DEF vars
  <2>2. IInv' /\ TxFrames' = TxFrames /\ RxAll' = RxAll
    BY <1>6, <2>1, StepIInv, TxSame, RxSame DEF UInv, IInv
  <2>3. UNCHANGED <<rxPc, rxMsgs, rxAt, rxChunks>>
    BY <2>1 DEF rxVars
  <2>4. NetFrames' = NetFrames /\ InPath' = InPath
    BY <2>1, <2>2, InPathIs DEF InPath, NetFrames, RxAll
  <2>5. RxOnce' /\ Apart'
    BY <2>1, <2>2, <2>3, <2>4 DEF UInv, RxOnce, Apart, RxFrames
  <2> QED BY <2>1, <2>2, <2>4, <2>5 DEF UInv, Link!vars
<1> QED BY <1>1, <1>2, <1>3, <1>4, <1>5, <1>6 DEF Next, TunReader

(* The path implements the lossy link: whatever the network does and in    *)
(* whatever parts and trains a packet travels, a frame comes out of the    *)
(* far TUN at most once, with the header and the bytes it has to have, and *)
(* nothing else comes out (gso.cpp, plane.cpp).                            *)
THEOREM PathIsLossyLink == Spec => LinkImplemented
<1>1. Spec => Link!Init /\ [][Link!Next]_(Link!vars)
  BY InitUInv, StepUInv, PTL DEF Spec
<1> QED BY <1>1, PTL DEF LinkImplemented, Link!Spec

=============================================================================
