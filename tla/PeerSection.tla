---------------------------- MODULE PeerSection ----------------------------
(***************************************************************************)
(* What a ConnTable is built from: a [peers] section, the sequence of its  *)
(* entries [vip, dsts].  Config gives one and ConnTable takes it.          *)
(***************************************************************************)
EXTENDS Integers, Sequences

\* loadConfig refuses a section without the node's own entry, PeerTableImpl an
\* entry without endpoints.
HasSelf(sec, n) == \E x \in 1 .. Len(sec) : sec[x].vip = n
AllHaveDsts(sec) == \A x \in 1 .. Len(sec) : Len(sec[x].dsts) > 0

\* One entry for a VIP, as in the README's table.  The code does not refuse a VIP
\* that is spelled in two ways.
OneEntry(sec) == \A x, y \in 1 .. Len(sec) : sec[x].vip = sec[y].vip => x = y

SectionOk(sec, n) == HasSelf(sec, n) /\ AllHaveDsts(sec) /\ OneEntry(sec)

=============================================================================
