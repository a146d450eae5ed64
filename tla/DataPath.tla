------------------------------ MODULE DataPath ------------------------------
(***************************************************************************)
(* The way of a packet from the TUN of one node to the TUN of its peer:    *)
(*                                                                         *)
(*   tunReader  - gsoSplit cuts a TCP super-packet into segments, sendUso  *)
(*                hands them to the kernel in parts, one slot per part;    *)
(*   kernel     - UDP_SEGMENT cuts a part into datagrams (external);       *)
(*   network    - loses and reorders;                                      *)
(*   kernel     - UDP_GRO glues datagrams together again (external);       *)
(*   udpReader  - splits what it gets into datagrams and writes each one   *)
(*                to the TUN.                                              *)
(*                                                                         *)
(* A payload byte is its offset in the payload of its packet, a frame is   *)
(* an IP packet: headers and an interval of payload.  Sizes are in units   *)
(* in which headers take HdrLen.  Which slot a part goes over is the       *)
(* business of Striping: any.  Checksums are the business of Csum.         *)
(***************************************************************************)
EXTENDS Integers, Sequences, SequencesExt, FiniteSets

CONSTANTS
    Workloads,  \* bound: the sets of packets the TUN may deliver in one behaviour,
                \* a packet is [pid, ipv4, dst, gsoType, len, gsoSize, id, seq, flags]
    Vips,       \* the VIPs that have a Conn
    Paths,      \* slots of the Conn, and sockets of the peer
    MAX_SEGS,   \* TunReaderScratch::MAX_SEGS
    USO_PARTS,
    BATCH,      \* UdpReaderScratch::BATCH
    HdrLen,     \* size of the IP and TCP headers
    MinLen,     \* a datagram below this is a probe
    U16, U32    \* the moduli of the IP id and of the TCP sequence number

ASSUME SizesAssumption ==
    /\ MAX_SEGS \in Nat \ {0} /\ USO_PARTS \in Nat \ {0} /\ BATCH \in Nat \ {0}
    /\ HdrLen \in Nat \ {0} /\ MinLen \in 1 .. HdrLen
    /\ U16 \in Nat \ {0} /\ U32 \in Nat \ {0}

Packets == UNION Workloads

\* The kernel gives a super-packet the size of its segments (external).
ASSUME PacketsAssumption ==
    \A p \in Packets :
        /\ p.pid \in Nat \ {0} /\ p.len \in Nat
        /\ p.id \in 0 .. U16 - 1 /\ p.seq \in 0 .. U32 - 1
        /\ p.gsoType = "TCPV4" => p.gsoSize \in Nat \ {0}

\* A pid names one packet.
ASSUME NamesAssumption == \A w \in Workloads : \A p, q \in w : p.pid = q.pid => p = q

VARIABLES
    offered,                        \* history: packets read from the TUN
    txPc, pkt, segs, nextDataAt,    \* tunReader and gsoSplit
    at, parts,                      \* sendUso: first segment of the next part, parts so far
    net,                            \* <<path, datagram>> on the way
    rxPc, rxMsgs, rxAt, rxChunks,   \* udpReader threads
    room,                           \* msg_controllen of every message has room for a cmsg
    tun,                            \* frames written to the far TUN
    lost                            \* history: frames lost in a way the code logs or
                                    \* the network is known for

txVars == <<txPc, pkt, segs, nextDataAt, at, parts>>
rxVars == <<rxPc, rxMsgs, rxAt, rxChunks, room>>
vars == <<offered, txVars, net, rxVars, tun, lost>>

NoPacket == [pid |-> 0]

\* The 0-byte datagram of the prober.
ProbeMsg == [pid |-> -1]

\* A write that is not one frame: bytes of several, or of a part of one.
Garbage == [pid |-> -2, len |-> 0]

Size(f) == IF f = ProbeMsg THEN 0 ELSE HdrLen + f.len

\* Bytes of the frames fs cut every g bytes: the frames themselves when all
\* but the last have size g and the last is no longer.
Cut(fs, g) ==
    IF /\ \A x \in 1 .. Len(fs) - 1 : Size(fs[x]) = g
       /\ Size(Last(fs)) <= g
    THEN fs ELSE <<Garbage>>

\* dstFromIPv4: the VIP a packet is for, none when it is short or not IPv4.
DstFromIPv4(p) == IF p.ipv4 THEN {p.dst} ELSE {}

\* ConnTable::lookup finds a Conn for the packet.
Known(p) == DstFromIPv4(p) \cap Vips # {}

\* A packet without segmentation is one frame as it is.
Plain(p) ==
    [pid |-> p.pid, id |-> p.id, seq |-> p.seq, flags |-> p.flags,
     from |-> 0, len |-> p.len]

(* What a super-packet stands for, from TCP's point of view: payload in     *)
(* steps of gsoSize, the sequence number of a frame that of its first byte, *)
(* ids that count up, FIN and PSH with the last byte.                       *)
Cuts(p) ==
    {[pid |-> p.pid, id |-> (p.id + from \div p.gsoSize) % U16,
      seq |-> (p.seq + from) % U32,
      flags |-> IF from + p.gsoSize >= p.len THEN p.flags ELSE p.flags \ {"FIN", "PSH"},
      from |-> from,
      len |-> IF from + p.gsoSize >= p.len THEN p.len - from ELSE p.gsoSize] :
     from \in {x \in 0 .. p.len - 1 : x % p.gsoSize = 0}}

\* What a packet from the TUN stands for.
Ideal(p) ==
    CASE Known(p) /\ p.gsoType = "NONE" -> {Plain(p)}
      [] Known(p) /\ p.gsoType = "TCPV4" -> Cuts(p)
      [] OTHER -> {}

Init ==
    /\ offered = {}
    /\ txPc = "read" /\ pkt = NoPacket /\ segs = <<>>
    /\ nextDataAt = 0 /\ at = 1 /\ parts = 0
    /\ net = {}
    /\ rxPc = [p \in Paths |-> "recv"]
    /\ rxMsgs = [p \in Paths |-> <<>>]
    /\ rxAt = [p \in Paths |-> 1]
    /\ rxChunks = [p \in Paths |-> <<>>]
    /\ room = [p \in Paths |-> [x \in 1 .. BATCH |-> TRUE]]
    /\ tun = {}
    /\ lost = {}

-----------------------------------------------------------------------------
(* tunReader.                                                              *)

\* One read of the TUN and what tunReader does with the packet: dropped when
\* no Conn is known for it or its gso type is neither of two.
TunRead(p) ==
    /\ txPc = "read" /\ p \notin offered
    /\ \E w \in Workloads : offered \cup {p} \subseteq w
    /\ offered' = offered \cup {p}
    /\ \/ /\ ~Known(p) \/ p.gsoType \notin {"NONE", "TCPV4"}
          /\ UNCHANGED txVars
       \/ /\ Known(p) /\ p.gsoType = "NONE"
          /\ txPc' = "sendOne" /\ pkt' = p /\ segs' = <<Plain(p)>>
          /\ UNCHANGED <<nextDataAt, at, parts>>
       \/ /\ Known(p) /\ p.gsoType = "TCPV4"
          /\ txPc' = "split" /\ pkt' = p
          /\ segs' = <<>> /\ nextDataAt' = 0 /\ at' = 1 /\ parts' = 0
    /\ UNCHANGED <<net, rxVars, tun, lost>>

\* The packet is done with: its locals go out of scope.
TxIdle ==
    /\ txPc' = "read" /\ pkt' = NoPacket /\ segs' = <<>>
    /\ nextDataAt' = 0 /\ at' = 1 /\ parts' = 0

\* Fault: FIN and PSH are left on every segment.
SegmentFlagsKept(p, x, from, end) ==
    [pid |-> p.pid,
     id |-> (p.id + x) % U16,
     seq |-> (p.seq + p.gsoSize * x) % U32,
     flags |-> p.flags,
     from |-> from, len |-> end - from]

\* Segment x (from 0) of a super-packet, payload from..end.
Segment(p, x, from, end) ==
    [pid |-> p.pid,
     id |-> (p.id + x) % U16,
     seq |-> (p.seq + p.gsoSize * x) % U32,
     flags |-> IF end = p.len THEN p.flags ELSE p.flags \ {"FIN", "PSH"},
     from |-> from, len |-> end - from]

\* Fault: the number of segments is checked too late.
TooManyLate(n) == n > MAX_SEGS

\* gsoSplit gives up before it writes past outBufs.
TooMany(n) == n = MAX_SEGS

\* A round of the loop of gsoSplit.
SplitSegment ==
    /\ txPc = "split" /\ nextDataAt < pkt.len /\ ~TooMany(Len(segs))
    /\ LET end == IF nextDataAt + pkt.gsoSize > pkt.len THEN pkt.len
                  ELSE nextDataAt + pkt.gsoSize
       IN  segs' = Append(segs, Segment(pkt, Len(segs), nextDataAt, end))
    /\ nextDataAt' = nextDataAt + pkt.gsoSize
    /\ UNCHANGED <<offered, txPc, pkt, at, parts, net, rxVars, tun, lost>>

\* gsoSplit returns -1 and tunReader drops the packet with a warning.
SplitFail ==
    /\ txPc = "split" /\ nextDataAt < pkt.len /\ TooMany(Len(segs))
    /\ TxIdle
    /\ lost' = lost \cup Ideal(pkt)
    /\ UNCHANGED <<offered, net, rxVars, tun>>

SplitDone ==
    /\ txPc = "split" /\ nextDataAt >= pkt.len
    /\ txPc' = "sendUso"
    /\ UNCHANGED <<offered, pkt, segs, nextDataAt, at, parts, net, rxVars, tun, lost>>

\* Frames fs are handed to the kernel for path p as datagrams ds; or the
\* call fails, and they are lost.
Handed(p, fs, ds) ==
    \/ net' = net \cup ({p} \X ds) /\ lost' = lost
    \/ net' = net /\ lost' = lost \cup fs

\* sendOne over any slot.
SendOne(p) ==
    /\ txPc = "sendOne"
    /\ Handed(p, ToSet(segs), ToSet(segs))
    /\ TxIdle
    /\ UNCHANGED <<offered, rxVars, tun>>

\* Fault: the division rounds down.
PartSizeFloor(n) == IF n < USO_PARTS THEN 1 ELSE n \div USO_PARTS

\* The segments in a part.
PartSize(n) == (n + USO_PARTS - 1) \div USO_PARTS

\* UDP_SEGMENT: the kernel cuts the part's bytes every gsoSize bytes.
KernelSegment(fs, gsoSize) == ToSet(Cut(fs, gsoSize))

\* A round of the loop of sendUso, over any slot.
SendPart(p) ==
    /\ txPc = "sendUso" /\ at <= Len(segs)
    /\ LET end == IF at + PartSize(Len(segs)) - 1 > Len(segs) THEN Len(segs)
                  ELSE at + PartSize(Len(segs)) - 1
           part == SubSeq(segs, at, end)
       IN  /\ Handed(p, ToSet(part), KernelSegment(part, Size(segs[1])))
           /\ at' = end + 1
    /\ parts' = parts + 1
    /\ UNCHANGED <<offered, txPc, pkt, segs, nextDataAt, rxVars, tun>>

SendDone ==
    /\ txPc = "sendUso" /\ at > Len(segs)
    /\ TxIdle
    /\ UNCHANGED <<offered, net, rxVars, tun, lost>>

-----------------------------------------------------------------------------
(* The network and the prober of the sending node.                         *)

ProbeSlot(p) ==
    /\ net' = net \cup {<<p, ProbeMsg>>}
    /\ UNCHANGED <<offered, txVars, rxVars, tun, lost>>

Lose ==
    /\ \E d \in net : net' = net \ {d} /\ lost' = lost \cup ({d[2]} \ {ProbeMsg})
    /\ UNCHANGED <<offered, txVars, rxVars, tun>>

-----------------------------------------------------------------------------
(* udpReader.                                                              *)

\* UDP_GRO: what one message can hold.  Datagrams of one flow are glued when
\* they have one size, a shorter one ends the message; probes stay alone.
Trains(p) ==
    LET here == {d[2] : d \in {e \in net : e[1] = p}}
    IN  {<<m>> : m \in here} \cup
        {fs \in UNION {SetToSeqs(S) : S \in SUBSET (here \ {ProbeMsg})} :
            Len(fs) > 1 /\ Cut(fs, Size(fs[1])) = fs}

\* recvmmsg fills one more message of the batch.  The kernel attaches the
\* UDP_GRO cmsg to a glued message if the control buffer has room, and sets
\* msg_controllen to what it used.
RecvFill(p) ==
    /\ rxPc[p] = "recv" /\ Len(rxMsgs[p]) < BATCH
    /\ \E fs \in Trains(p) :
        LET x == Len(rxMsgs[p]) + 1
            cmsg == Len(fs) > 1 /\ room[p][x]
        IN  /\ rxMsgs' = [rxMsgs EXCEPT ![p] =
                            Append(@, [frames |-> fs, gso |-> IF cmsg THEN Size(fs[1]) ELSE 0])]
            /\ room' = [room EXCEPT ![p][x] = cmsg]
            /\ net' = net \ ({p} \X ToSet(fs))
    /\ UNCHANGED <<offered, txVars, rxPc, rxAt, rxChunks, tun, lost>>

\* MSG_WAITFORONE: recvmmsg returns with one message or more.
RecvReturn(p) ==
    /\ rxPc[p] = "recv" /\ rxMsgs[p] # <<>>
    /\ rxPc' = [rxPc EXCEPT ![p] = "msg"]
    /\ rxAt' = [rxAt EXCEPT ![p] = 1]
    /\ UNCHANGED <<offered, txVars, net, rxMsgs, rxChunks, room, tun, lost>>

\* Fault: msg_controllen is left as the kernel shrunk it.
RoomKept(p) == room

\* msg_controllen is reset for the next round.
RoomReset(p) == [room EXCEPT ![p][rxAt[p]] = TRUE]

\* payloadLen of a message: in one that is glued all but the last have one size.
PayloadLen(fs) == (Len(fs) - 1) * Size(Head(fs)) + Size(Last(fs))

\* Fault: the loop over a glued message stops before a shorter last chunk.
ChunksNoTail(m) ==
    IF m.gso > 0 /\ m.gso < PayloadLen(m.frames)
    THEN SelectSeq(Cut(m.frames, m.gso), LAMBDA f : Size(f) = m.gso)
    ELSE SelectSeq(m.frames, LAMBDA f : Size(f) >= MinLen)

\* What a message is written to the TUN as: nothing for a probe, chunks of
\* gsoSize for a glued message, else all of it with one write.
Chunks(m) ==
    IF PayloadLen(m.frames) < MinLen THEN <<>>
    ELSE IF m.gso > 0 /\ m.gso < PayloadLen(m.frames) THEN Cut(m.frames, m.gso)
    ELSE Cut(m.frames, PayloadLen(m.frames))

\* The next message of the batch, or the next recvmmsg.
NextMsg(p) ==
    IF rxAt[p] = Len(rxMsgs[p])
    THEN /\ rxPc' = [rxPc EXCEPT ![p] = "recv"]
         /\ rxMsgs' = [rxMsgs EXCEPT ![p] = <<>>]
         /\ rxAt' = [rxAt EXCEPT ![p] = 1]
    ELSE /\ rxPc' = [rxPc EXCEPT ![p] = "msg"]
         /\ rxAt' = [rxAt EXCEPT ![p] = @ + 1]
         /\ UNCHANGED rxMsgs

HandleMsg(p) ==
    /\ rxPc[p] = "msg"
    /\ room' = RoomReset(p)
    /\ rxChunks' = [rxChunks EXCEPT ![p] = Chunks(rxMsgs[p][rxAt[p]])]
    /\ IF rxChunks'[p] = <<>> THEN NextMsg(p)
       ELSE rxPc' = [rxPc EXCEPT ![p] = "write"] /\ UNCHANGED <<rxMsgs, rxAt>>
    /\ UNCHANGED <<offered, txVars, net, tun, lost>>

\* One write or writev to the TUN; it may fail.
WriteChunk(p) ==
    /\ rxPc[p] = "write"
    /\ \/ tun' = tun \cup {Head(rxChunks[p])} /\ lost' = lost
       \/ tun' = tun /\ lost' = lost \cup {Head(rxChunks[p])}
    /\ rxChunks' = [rxChunks EXCEPT ![p] = Tail(@)]
    /\ IF rxChunks'[p] = <<>> THEN NextMsg(p) ELSE UNCHANGED <<rxPc, rxMsgs, rxAt>>
    /\ UNCHANGED <<offered, txVars, net, room>>

-----------------------------------------------------------------------------

TunReader ==
    \/ \E p \in Packets : TunRead(p)
    \/ SplitSegment \/ SplitFail \/ SplitDone \/ SendDone
    \/ \E p \in Paths : SendOne(p) \/ SendPart(p)

UdpReader(p) == RecvFill(p) \/ RecvReturn(p) \/ HandleMsg(p) \/ WriteChunk(p)

Next ==
    \/ TunReader
    \/ Lose
    \/ \E p \in Paths : ProbeSlot(p) \/ UdpReader(p)

Spec == Init /\ [][Next]_vars

-----------------------------------------------------------------------------
(* Properties.                                                             *)

(* Types; the segments of gsoSplit stay within the MAX_SEGS buffers of     *)
(* TunReaderScratch, and a super-packet takes at most USO_PARTS slots, for *)
(* any number of segments (plane.cpp:114-118).                             *)
TypeOK ==
    /\ offered \subseteq Packets
    /\ txPc \in {"read", "split", "sendOne", "sendUso"}
    /\ pkt \in Packets \cup {NoPacket}
    /\ Len(segs) <= MAX_SEGS /\ at \in 1 .. Len(segs) + 1 /\ parts <= USO_PARTS
    /\ rxPc \in [Paths -> {"recv", "msg", "write"}]
    /\ \A p \in Paths : Len(rxMsgs[p]) <= BATCH /\ rxAt[p] \in 1 .. BATCH
    /\ room \in [Paths -> [1 .. BATCH -> BOOLEAN]]

\* The frames inside the path: in tunReader, in the network, in udpReader.
TxFrames ==
    CASE txPc = "split" -> Ideal(pkt)
      [] txPc = "sendUso" -> {segs[x] : x \in at .. Len(segs)}
      [] OTHER -> ToSet(segs)

RxFrames(p) ==
    ToSet(rxChunks[p]) \cup
    UNION {ToSet(rxMsgs[p][x].frames) :
           x \in (IF rxPc[p] = "write" THEN rxAt[p] + 1 ELSE rxAt[p]) .. Len(rxMsgs[p])}

InPath ==
    (TxFrames \cup {d[2] : d \in net} \cup UNION {RxFrames(p) : p \in Paths}) \ {ProbeMsg}

Link == INSTANCE LossyLink WITH
    Offers <- {Ideal(p) : p \in Packets}, pending <- InPath, out <- tun

(* The data path is a lossy link: through gsoSplit, the parts of sendUso,  *)
(* two kernels and the chunks of udpReader a frame comes out at most once, *)
(* with the header and the bytes it has to have, and nothing else does.    *)
LinkImplemented == Link!Spec

(* Nothing is lost in silence: a frame of a packet read from the TUN is in *)
(* the path, has been written to the far TUN, or was lost by the network   *)
(* or with a warning.                                                      *)
Conservation ==
    UNION {Ideal(p) : p \in offered} = InPath \cup tun \cup lost

=============================================================================
