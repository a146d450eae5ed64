---------------------------- MODULE MCSlotsStats ----------------------------
(* A small instance of SlotsStats for TLC, with all threads of a Conn.      *)
EXTENDS SlotsStats

MCSrcOf == [s \in 0 .. N - 1 |-> s % 2]
=============================================================================
