----------------------------- MODULE MCStriping -----------------------------
(* Small instances of Striping for TLC: two local sockets, slots numbered   *)
(* with the socket changing fastest, as ConnTableImpl builds them.          *)
EXTENDS Striping, TLC

MCSrcOf == [s \in 0 .. N - 1 |-> s % 2]

\* The tunReader threads run the same code on queues of one TUN.
MCSymmetry == Permutations(TunReaders)
=============================================================================
