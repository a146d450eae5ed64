----------------------------- MODULE MCProbing -----------------------------
(* The timeout is exactly a round of probes and the way of a datagram:      *)
(* 2 * Block + IntervalMs + Late + Delay.                                   *)
EXTENDS Probing

ASSUME TightAssumption == Timeout = Gap + Delay
=============================================================================
