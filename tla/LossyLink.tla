----------------------------- MODULE LossyLink -----------------------------
(***************************************************************************)
(* What the data path of gofra promises to the two kernels it connects: a  *)
(* packet offered on one TUN comes out of the other as some of the frames  *)
(* it stands for, in any order, each intact and at most once.  Nothing     *)
(* else ever comes out.                                                    *)
(***************************************************************************)
CONSTANT Offers     \* the sets of frames a packet can stand for

VARIABLES
    pending,    \* frames offered and neither delivered nor lost
    out         \* frames written to the far TUN

vars == <<pending, out>>

Init == pending = {} /\ out = {}

Offer ==
    /\ \E fs \in Offers : pending' = pending \cup fs
    /\ out' = out

Deliver ==
    /\ \E f \in pending \ out : pending' = pending \ {f} /\ out' = out \cup {f}

Lose ==
    /\ pending' \in SUBSET pending
    /\ out' = out

Next == Offer \/ Deliver \/ Lose

Spec == Init /\ [][Next]_vars
=============================================================================
