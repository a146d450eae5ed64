----------------------------- MODULE MCDataPath -----------------------------
(***************************************************************************)
(* Small instances of DataPath and of Csum, side by side: a behaviour is   *)
(* one of the way of a packet or one of the computation of a checksum of   *)
(* it.                                                                     *)
(***************************************************************************)
EXTENDS DataPath, Csum, TLC

Super(pid, len, gsoSize) ==
    [pid |-> pid, ipv4 |-> TRUE, dst |-> 1, gsoType |-> "TCPV4", len |-> len, gsoSize |-> gsoSize,
     id |-> 6, seq |-> 14, flags |-> {"ACK", "PSH", "FIN"}]

PlainPacket(pid, len) ==
    [pid |-> pid, ipv4 |-> TRUE, dst |-> 1, gsoType |-> "NONE", len |-> len, gsoSize |-> 0,
     id |-> 6, seq |-> 15, flags |-> {"ACK"}]

\* A super-packet of two segments, the last one short, with ids and sequence
\* numbers that wrap, and a packet that is one frame.
Pair == {Super(1, 3, 2), PlainPacket(2, 1)}

\* Alone: as many segments as there are buffers and one more, a payload below gsoSize
\* and none at all; a packet for nobody, not IPv4 and with another gso type.
Alone == {Super(1, 3, 1), Super(2, 5, 2), Super(3, 4, 1), Super(4, 3, 4), PlainPacket(8, 0),
          [PlainPacket(5, 2) EXCEPT !.ipv4 = FALSE], [PlainPacket(7, 2) EXCEPT !.dst = 2],
          [Super(6, 2, 1) EXCEPT !.gsoType = "UDP"]}

MCWorkloads == {Pair} \cup {{p} : p \in Alone}

\* The slots differ in nothing but their names.
MCSymmetry == Permutations(Paths)

-----------------------------------------------------------------------------

MCByte == 4

\* Buffers of n bytes of one value, but for two; the checksum comes first.
Buffers(n) == {[i \in 1 .. n |-> IF i = x THEN u ELSE IF i = n THEN v ELSE f] :
              x \in 3 .. n, u \in {0, 1}, v \in {0, 2}, f \in {0, 3}}
Dsts == {<<0, 0, 0, 1>>, <<3, 3, 3, 3>>}
Pseudo(dst, n) == <<<<1, 0, 3, 2>>, dst, <<0, 2, (n % M16) \div MCByte, n % MCByte>>>>
Job(ps, p, kernel) == [pseudo |-> ps, packet |-> p, field |-> 1, parked |-> kernel]

\* A packet whose sum of 64-bit words, parked is the initial value, is 2 * M64 - 1:
\* bringing the carry back wraps once more.
Wrapping(parked) ==
    [i \in 1 .. 20 |->
       CASE i = 7 -> 3 - (parked \div MCByte) [] i = 8 -> 3 - (parked % MCByte)
         [] i \in {17, 18, 20} -> 0 [] i = 19 -> 1 [] OTHER -> 3]

MCJobs ==
    UNION {{LET v == OnesSumAll(Pseudo(d, 20)) IN Job(Pseudo(d, 20), PutBE16(Wrapping(v), 1, v), TRUE) :
              d \in Dsts},
           {Job(<<>>, p, FALSE) : p \in Buffers(10)},
           UNION {{Job(Pseudo(d, n), p, FALSE) : p \in Buffers(n), d \in Dsts}
                    : n \in {3, 4, 6, 8, 11, 15}},
           UNION {{Job(Pseudo(d, n), PutBE16(p, 1, OnesSumAll(Pseudo(d, n))), TRUE) :
                     p \in Buffers(n), d \in Dsts}
                    : n \in {3, 4, 6, 8, 11, 15}}}

-----------------------------------------------------------------------------

VARIABLE side

Shortest == CHOOSE j \in Jobs : \A k \in Jobs : Len(j.packet) <= Len(k.packet)

MCInit ==
    /\ side \in {"path", "csum"}
    /\ Init /\ CsumInit
    /\ side = "path" => job = Shortest

MCNext ==
    \/ side = "path" /\ Next /\ UNCHANGED <<side, csumVars>>
    \/ side = "csum" /\ CsumNext /\ UNCHANGED <<side, vars>>

MCSpec == MCInit /\ [][MCNext]_<<side, vars, csumVars>>
=============================================================================
