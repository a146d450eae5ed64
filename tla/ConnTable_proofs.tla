-------------------------- MODULE ConnTable_proofs --------------------------
(* Proofs about ConnTable, for any sections: the slots are a grid; and, for *)
(* a cluster whose endpoints differ in their IPs, a stamp is evidence for   *)
(* its slot and every slot can be stamped.                                  *)
EXTENDS ConnTable, SequenceTheorems, TLAPS

(* The inductive invariant.  That a stamp is evidence for its slot needs    *)
(* that byEntry_ only leads to slots with the key it was asked for, and     *)
(* that a slot's src is the endpoint its socket is bound to.                *)
Typed ==
    /\ config \in Configs
    /\ pc \in [Nodes -> {"build", "run"}]
    /\ k \in [Nodes -> Nat] /\ j \in [Nodes -> Nat] /\ i \in [Nodes -> Nat]
    /\ allSlots \in [Nodes -> Seq(Slot)]
    /\ probe \in [Nodes -> Nat]
    /\ sent \subseteq Datagrams /\ net \subseteq sent
    /\ heard \in [Nodes -> SUBSET Nat]
    /\ byEntry = [n \in Nodes |-> byEntry[n]]

\* Where the loops of the constructor are.
Cursor ==
    \A n \in Nodes :
        /\ k[n] >= 1
        /\ i[n] \in 1 .. Len(Srcs(n))
        /\ (k[n] <= Len(Peers(n)) /\ k[n] # Self(n)) => j[n] \in 1 .. Len(Peers(n)[k[n]].dsts)
        /\ k[n] = Self(n) => j[n] = 1
        /\ k[n] > Len(Peers(n)) => j[n] = 1

SlotSrc ==
    \A n \in Nodes : \A x \in 1 .. Len(allSlots[n]) :
        /\ allSlots[n][x].srcIdx \in 1 .. Len(Srcs(n))
        /\ allSlots[n][x].src = Srcs(n)[allSlots[n][x].srcIdx]

EntryRight ==
    \A n \in Nodes : \A key \in DOMAIN byEntry[n] :
        LET x == byEntry[n][key] IN
        /\ x \in 1 .. Len(allSlots[n])
        /\ EntryKey(allSlots[n][x].srcIdx, allSlots[n][x].dst) = key

ProbeInside == \A n \in Nodes : probe[n] >= 1 /\ (probe[n] = 1 \/ probe[n] <= Len(allSlots[n]))

HeardInside == \A n \in Nodes : heard[n] \subseteq 1 .. Len(allSlots[n])

TableInv ==
    Typed /\ Cursor /\ SlotSrc /\ EntryRight /\ ProbeInside /\ HeardInside

(* What Append does.                                                        *)
LEMMA AppendFacts ==
    ASSUME NEW S, NEW q \in Seq(S), NEW e \in S
    PROVE  /\ Len(q) \in Nat /\ Len(Append(q, e)) = Len(q) + 1
           /\ Append(q, e)[Len(q) + 1] = e
           /\ \A y \in 1 .. Len(q) : Append(q, e)[y] = q[y]
  OBVIOUS

(* A section has an entry of the node itself, with endpoints.               *)
LEMMA SelfFacts ==
    ASSUME Typed, NEW n \in Nodes
    PROVE  /\ Peers(n) \in Seq([vip : Vips, dsts : Seq(Endpoints)])
           /\ Self(n) \in 1 .. Len(Peers(n))
           /\ Srcs(n) \in Seq(Endpoints) /\ Len(Srcs(n)) >= 1
           /\ \A x \in 1 .. Len(Peers(n)) :
                /\ Peers(n)[x].dsts \in Seq(Endpoints) /\ Len(Peers(n)[x].dsts) >= 1
                /\ Peers(n)[x].vip \in Vips
<1>1. config \in Configs /\ config \in [Nodes -> Seq([vip : Vips, dsts : Seq(Endpoints)])]
  BY ConfigsAssumption DEF Typed
<1>2. Peers(n) \in Seq([vip : Vips, dsts : Seq(Endpoints)])
  BY <1>1 DEF Peers
<1>3. /\ \E x \in 1 .. Len(Peers(n)) : Peers(n)[x].vip = n
      /\ \A x \in 1 .. Len(Peers(n)) : Len(Peers(n)[x].dsts) > 0
  BY <1>1, SectionsAssumption DEF Peers, SectionOk, HasSelf, AllHaveDsts
<1>4. Self(n) \in 1 .. Len(Peers(n))
  BY <1>3 DEF Self
<1>5. \A x \in 1 .. Len(Peers(n)) : Peers(n)[x] \in [vip : Vips, dsts : Seq(Endpoints)]
  BY <1>2, ElementOfSeq
<1>6. \A x \in 1 .. Len(Peers(n)) :
        /\ Peers(n)[x].dsts \in Seq(Endpoints) /\ Len(Peers(n)[x].dsts) >= 1
        /\ Peers(n)[x].vip \in Vips
  <2> TAKE x \in 1 .. Len(Peers(n))
  <2>1. Peers(n)[x].dsts \in Seq(Endpoints) /\ Peers(n)[x].vip \in Vips
    BY <1>5
  <2>2. Len(Peers(n)[x].dsts) \in Nat
    BY <2>1
  <2> QED BY <1>3, <2>1, <2>2
<1> QED BY <1>2, <1>4, <1>6 DEF Srcs

LEMMA TableInvInit == Init => TableInv
<1> SUFFICES ASSUME Init PROVE TableInv
  OBVIOUS
<1>1. Typed
  BY DEF Init, Typed
<1>2. Cursor
  <2> SUFFICES ASSUME NEW n \in Nodes
               PROVE  /\ k[n] >= 1 /\ i[n] \in 1 .. Len(Srcs(n)) /\ j[n] = 1
                      /\ (k[n] <= Len(Peers(n)) /\ k[n] # Self(n)) =>
                            j[n] \in 1 .. Len(Peers(n)[k[n]].dsts)
    BY DEF Cursor
  <2>1. k[n] = 1 /\ i[n] = 1 /\ j[n] = 1
    BY DEF Init
  <2>2. Len(Srcs(n)) \in Nat /\ Len(Peers(n)) \in Nat
    BY <1>1, SelfFacts
  <2>3. 1 <= Len(Peers(n)) => 1 \in 1 .. Len(Peers(n)[1].dsts)
    <3> SUFFICES ASSUME 1 <= Len(Peers(n)) PROVE 1 \in 1 .. Len(Peers(n)[1].dsts)
      OBVIOUS
    <3>1. 1 \in 1 .. Len(Peers(n))
      BY <2>2
    <3>2. Peers(n)[1].dsts \in Seq(Endpoints) /\ Len(Peers(n)[1].dsts) >= 1
      BY <1>1, <3>1, SelfFacts
    <3> QED BY <3>2
  <2> QED BY <1>1, <2>1, <2>2, <2>3, SelfFacts
<1>3. SlotSrc /\ EntryRight /\ ProbeInside /\ HeardInside
  BY DEF Init, SlotSrc, EntryRight, ProbeInside, HeardInside
<1> QED BY <1>1, <1>2, <1>3 DEF TableInv

LEMMA SameSections ==
    ASSUME config' = config
    PROVE  \A n : Peers(n)' = Peers(n) /\ Self(n)' = Self(n) /\ Srcs(n)' = Srcs(n)
BY DEF Peers, Self, Srcs

(* SkipSelf moves on to an entry whose loops start at their first rounds.   *)
LEMMA SkipSelfStep ==
    ASSUME TableInv, NEW n \in Nodes, SkipSelf(n)
    PROVE  TableInv'
<1>a. Typed /\ Cursor /\ SlotSrc /\ EntryRight /\ ProbeInside /\ HeardInside
  BY DEF TableInv
<1>b. /\ UNCHANGED <<config, pc, j, i, allSlots, byEntry, probe, net, sent, heard>>
      /\ k' = [k EXCEPT ![n] = @ + 1] /\ k[n] = Self(n)
  BY DEF SkipSelf, runVars
<1>c. \A m : Peers(m)' = Peers(m) /\ Self(m)' = Self(m) /\ Srcs(m)' = Srcs(m)
  BY <1>b, SameSections
<1>1. Typed'
  BY <1>a, <1>b DEF Typed
<1>2. Cursor'
  <2> SUFFICES ASSUME NEW m \in Nodes
               PROVE  /\ k'[m] >= 1 /\ i[m] \in 1 .. Len(Srcs(m))
                      /\ (k'[m] <= Len(Peers(m)) /\ k'[m] # Self(m)) =>
                            j[m] \in 1 .. Len(Peers(m)[k'[m]].dsts)
                      /\ k'[m] = Self(m) => j[m] = 1
                      /\ k'[m] > Len(Peers(m)) => j[m] = 1
    BY <1>b, <1>c DEF Cursor
  <2>1. CASE m # n
    <3>1. k'[m] = k[m]
      BY <1>a, <1>b, <2>1 DEF Typed
    <3> QED BY <1>a, <3>1 DEF Cursor
  <2>2. CASE m = n
    <3>1. k'[n] = k[n] + 1 /\ k[n] \in Nat /\ j[n] = 1 /\ k[n] >= 1
      BY <1>a, <1>b DEF Typed, Cursor
    <3>2. i[n] \in 1 .. Len(Srcs(n))
      BY <1>a DEF Cursor
    <3>3. Len(Peers(n)) \in Nat
      BY <1>a, SelfFacts
    <3>4. k'[n] <= Len(Peers(n)) => Len(Peers(n)[k'[n]].dsts) \in Nat /\ Len(Peers(n)[k'[n]].dsts) >= 1
      <4> SUFFICES ASSUME k'[n] <= Len(Peers(n))
                   PROVE  Len(Peers(n)[k'[n]].dsts) \in Nat /\ Len(Peers(n)[k'[n]].dsts) >= 1
        OBVIOUS
      <4>1. k'[n] \in 1 .. Len(Peers(n))
        BY <3>1, <3>3
      <4>2. Peers(n)[k'[n]].dsts \in Seq(Endpoints) /\ Len(Peers(n)[k'[n]].dsts) >= 1
        BY <1>a, <4>1, SelfFacts
      <4> QED BY <4>2
    <3> QED BY <2>2, <3>1, <3>2, <3>4
  <2> QED BY <2>1, <2>2
<1>3. SlotSrc' /\ EntryRight' /\ ProbeInside' /\ HeardInside'
  BY <1>a, <1>b, <1>c DEF SlotSrc, EntryRight, ProbeInside, HeardInside, EntryKey
<1> QED BY <1>1, <1>2, <1>3 DEF TableInv

(* AddSlot appends one slot: what was known of the others stays true, and   *)
(* the new one has its socket's endpoint and the key it is inserted under.  *)
LEMMA AddSlotStep ==
    ASSUME TableInv, NEW n \in Nodes, AddSlot(n)
    PROVE  TableInv'
<1> DEFINE p == Peers(n)[k[n]]
           s == NewSlot(n, p)
           x == Len(allSlots[n]) + 1
           lastSrc == i[n] = Len(Srcs(n))
           last == lastSrc /\ j[n] = Len(p.dsts)
<1>a. Typed /\ Cursor /\ SlotSrc /\ EntryRight /\ ProbeInside /\ HeardInside
  BY DEF TableInv
<1>b. /\ UNCHANGED <<config, pc, probe, net, sent, heard>>
      /\ k[n] <= Len(Peers(n)) /\ k[n] # Self(n)
      /\ allSlots' = [allSlots EXCEPT ![n] = Append(@, s)]
      /\ \E f \in Inserted(byEntry[n], EntryKey(s.srcIdx, s.dst), x) :
            byEntry' = [byEntry EXCEPT ![n] = f]
      /\ i' = [i EXCEPT ![n] = IF lastSrc THEN 1 ELSE @ + 1]
      /\ j' = [j EXCEPT ![n] = IF last THEN 1 ELSE IF lastSrc THEN @ + 1 ELSE @]
      /\ k' = [k EXCEPT ![n] = IF last THEN @ + 1 ELSE @]
  BY DEF AddSlot, runVars
<1>c. \A m : Peers(m)' = Peers(m) /\ Self(m)' = Self(m) /\ Srcs(m)' = Srcs(m)
  BY <1>b, SameSections
<1>d. /\ k[n] \in 1 .. Len(Peers(n)) /\ i[n] \in 1 .. Len(Srcs(n)) /\ j[n] \in 1 .. Len(p.dsts)
      /\ Len(Peers(n)) \in Nat /\ Len(Srcs(n)) \in Nat /\ Len(p.dsts) \in Nat
  <2>1. k[n] \in Nat /\ k[n] >= 1 /\ i[n] \in 1 .. Len(Srcs(n)) /\ j[n] \in 1 .. Len(p.dsts)
    BY <1>a, <1>b DEF Typed, Cursor
  <2>2. Len(Peers(n)) \in Nat /\ Len(Srcs(n)) \in Nat
    BY <1>a, SelfFacts
  <2>3. k[n] \in 1 .. Len(Peers(n))
    BY <1>b, <2>1, <2>2
  <2>4. p.dsts \in Seq(Endpoints)
    BY <1>a, <2>3, SelfFacts
  <2> QED BY <2>1, <2>2, <2>3, <2>4
<1>e. /\ s \in Slot /\ s.srcIdx = i[n] /\ s.src = Srcs(n)[i[n]]
  <2>1. Srcs(n)[i[n]] \in Endpoints
    BY <1>a, <1>d, SelfFacts, ElementOfSeq
  <2>2. p.dsts[j[n]] \in Endpoints /\ p.vip \in Vips
    BY <1>a, <1>d, SelfFacts, ElementOfSeq
  <2> QED BY <1>d, <2>1, <2>2 DEF NewSlot, Slot
<1> HIDE DEF s
<1>f. /\ allSlots' \in [Nodes -> Seq(Slot)]
      /\ allSlots'[n] = Append(allSlots[n], s) /\ allSlots[n] \in Seq(Slot)
      /\ \A m \in Nodes : m # n => allSlots'[m] = allSlots[m]
  BY <1>a, <1>b, <1>e DEF Typed
<1>g. /\ Len(allSlots[n]) \in Nat /\ Len(allSlots'[n]) = x /\ allSlots'[n][x] = s
      /\ \A y \in 1 .. Len(allSlots[n]) : allSlots'[n][y] = allSlots[n][y]
  <2>1. PICK old \in Seq(Slot) : old = allSlots[n]
    BY <1>f
  <2>2. /\ Len(old) \in Nat /\ Len(Append(old, s)) = Len(old) + 1
        /\ Append(old, s)[Len(old) + 1] = s
        /\ \A y \in 1 .. Len(old) : Append(old, s)[y] = old[y]
    BY <1>e, AppendFacts
  <2>3. allSlots'[n] = Append(old, s) /\ x = Len(old) + 1
    BY <1>f, <2>1
  <2> HIDE DEF x
  <2>4. PICK new : new = allSlots'[n]
    OBVIOUS
  <2>5. Len(new) = x /\ new[x] = s /\ \A y \in 1 .. Len(old) : new[y] = old[y]
    BY ONLY <2>2, <2>3, <2>4
  <2> QED BY ONLY <2>1, <2>2, <2>4, <2>5
<1>1. Typed'
  <2>1. k' \in [Nodes -> Nat] /\ j' \in [Nodes -> Nat] /\ i' \in [Nodes -> Nat]
    <3>1. k \in [Nodes -> Nat] /\ j \in [Nodes -> Nat] /\ i \in [Nodes -> Nat]
      BY <1>a DEF Typed
    <3>2. \E a \in Nat, b \in Nat, c \in Nat :
             /\ k' = [k EXCEPT ![n] = a] /\ j' = [j EXCEPT ![n] = b] /\ i' = [i EXCEPT ![n] = c]
      <4>1. k[n] \in Nat /\ j[n] \in Nat /\ i[n] \in Nat
        BY <3>1
      <4>2. /\ \A b, y, z : y \in Nat /\ z \in Nat => (IF b THEN y ELSE z) \in Nat
            /\ k[n] + 1 \in Nat /\ j[n] + 1 \in Nat /\ i[n] + 1 \in Nat /\ 1 \in Nat
        BY ONLY <4>1
      <4> QED BY ONLY <1>b, <4>1, <4>2
    <3> QED BY ONLY <3>1, <3>2
  <2>2. byEntry' = [m \in Nodes |-> byEntry'[m]]
    BY <1>a, <1>b DEF Typed
  <2> QED BY <1>a, <1>b, <1>f, <2>1, <2>2 DEF Typed
<1>2. Cursor'
  <2> SUFFICES ASSUME NEW m \in Nodes
               PROVE  /\ k'[m] >= 1 /\ i'[m] \in 1 .. Len(Srcs(m))
                      /\ (k'[m] <= Len(Peers(m)) /\ k'[m] # Self(m)) =>
                            j'[m] \in 1 .. Len(Peers(m)[k'[m]].dsts)
                      /\ k'[m] = Self(m) => j'[m] = 1
                      /\ k'[m] > Len(Peers(m)) => j'[m] = 1
    BY <1>c DEF Cursor
  <2>1. CASE m # n
    <3>1. k'[m] = k[m] /\ j'[m] = j[m] /\ i'[m] = i[m]
      BY <1>a, <1>b, <2>1 DEF Typed
    <3> QED BY <1>a, <3>1 DEF Cursor
  <2>2. CASE m = n
    <3>1. /\ k'[n] = IF last THEN k[n] + 1 ELSE k[n]
          /\ j'[n] = IF last THEN 1 ELSE IF lastSrc THEN j[n] + 1 ELSE j[n]
          /\ i'[n] = IF lastSrc THEN 1 ELSE i[n] + 1
      BY <1>a, <1>b DEF Typed
    <3>2. i'[n] \in 1 .. Len(Srcs(n)) /\ k'[n] >= 1
      BY <1>d, <3>1
    <3>3. CASE last
      <4>1. j'[n] = 1 /\ k'[n] = k[n] + 1
        BY <3>1, <3>3
      <4>2. k'[n] <= Len(Peers(n)) => 1 \in 1 .. Len(Peers(n)[k'[n]].dsts)
        <5> SUFFICES ASSUME k'[n] <= Len(Peers(n)) PROVE 1 \in 1 .. Len(Peers(n)[k'[n]].dsts)
          OBVIOUS
        <5>1. k'[n] \in 1 .. Len(Peers(n))
          BY <1>d, <4>1
        <5>2. Peers(n)[k'[n]].dsts \in Seq(Endpoints) /\ Len(Peers(n)[k'[n]].dsts) >= 1
          BY <1>a, <5>1, SelfFacts
        <5> QED BY <5>2
      <4> QED BY <2>2, <3>2, <4>1, <4>2
    <3>4. CASE ~last
      <4>1. k'[n] = k[n]
        BY <3>1, <3>4
      <4>2. j'[n] \in 1 .. Len(p.dsts)
        BY <1>d, <3>1, <3>4
      <4> QED BY <1>b, <1>d, <2>2, <3>2, <4>1, <4>2
    <3> QED BY <3>3, <3>4
  <2> QED BY <2>1, <2>2
<1> HIDE DEF p, lastSrc, last
<1>3. SlotSrc'
  <2> SUFFICES ASSUME NEW m \in Nodes, NEW y \in 1 .. Len(allSlots'[m])
               PROVE  /\ allSlots'[m][y].srcIdx \in 1 .. Len(Srcs(m))
                      /\ allSlots'[m][y].src = Srcs(m)[allSlots'[m][y].srcIdx]
    BY <1>c DEF SlotSrc
  <2>1. CASE m # n
    BY <1>a, <1>f, <2>1 DEF SlotSrc
  <2>2. CASE m = n /\ y = x
    BY <1>d, <1>e, <1>g, <2>2
  <2>3. CASE m = n /\ y # x
    <3>1. y \in 1 .. Len(allSlots[n])
      BY <1>g, <2>3
    <3> QED BY <1>a, <1>g, <2>3, <3>1 DEF SlotSrc
  <2> QED BY <2>1, <2>2, <2>3
<1>4. EntryRight'
  <2> SUFFICES ASSUME NEW m \in Nodes, NEW key \in DOMAIN byEntry'[m]
               PROVE  /\ byEntry'[m][key] \in 1 .. Len(allSlots'[m])
                      /\ EntryKey(allSlots'[m][byEntry'[m][key]].srcIdx,
                                  allSlots'[m][byEntry'[m][key]].dst) = key
    BY DEF EntryRight, EntryKey
  <2>1. PICK f \in Inserted(byEntry[n], EntryKey(s.srcIdx, s.dst), x) :
            byEntry' = [byEntry EXCEPT ![n] = f]
    BY <1>b
  <2>2. CASE m # n
    <3>1. byEntry'[m] = byEntry[m]
      BY <1>a, <2>1, <2>2 DEF Typed
    <3> QED BY <1>a, <1>f, <2>2, <3>1 DEF EntryRight
  <2>3. CASE m = n
    <3>1. byEntry'[n] = f
      BY <1>a, <2>1 DEF Typed
    <3>2. \/ key \in DOMAIN byEntry[n] /\ f[key] = byEntry[n][key]
          \/ key = EntryKey(s.srcIdx, s.dst) /\ f[key] = x
      BY <2>1, <2>3, <3>1 DEF Inserted
    <3>3. CASE key \in DOMAIN byEntry[n] /\ f[key] = byEntry[n][key]
      <4>1. /\ f[key] \in 1 .. Len(allSlots[n])
            /\ EntryKey(allSlots[n][f[key]].srcIdx, allSlots[n][f[key]].dst) = key
        BY <1>a, <3>3 DEF EntryRight
      <4> QED BY <1>g, <2>3, <3>1, <4>1
    <3>4. CASE key = EntryKey(s.srcIdx, s.dst) /\ f[key] = x
      BY <1>g, <2>3, <3>1, <3>4
    <3> QED BY <3>2, <3>3, <3>4
  <2> QED BY <2>2, <2>3
<1>5. ProbeInside' /\ HeardInside'
  <2>1. \A m \in Nodes : Len(allSlots[m]) \in Nat /\ Len(allSlots'[m]) \in Nat
                         /\ Len(allSlots[m]) <= Len(allSlots'[m])
    <3> TAKE m \in Nodes
    <3>1. allSlots[m] \in Seq(Slot) /\ allSlots'[m] \in Seq(Slot)
      BY <1>a, <1>f DEF Typed
    <3>2. Len(allSlots[m]) \in Nat /\ Len(allSlots'[m]) \in Nat
      BY <3>1
    <3> QED BY <1>f, <1>g, <3>2
  <2>2. \A m \in Nodes : probe[m] \in Nat /\ heard[m] \subseteq 1 .. Len(allSlots[m])
    BY <1>a DEF Typed, HeardInside
  <2>3. ProbeInside'
    BY <1>a, <1>b, <2>1, <2>2 DEF ProbeInside
  <2>4. HeardInside'
    BY <1>b, <2>1, <2>2 DEF HeardInside
  <2> QED BY <2>3, <2>4
<1> QED BY <1>1, <1>2, <1>3, <1>4, <1>5 DEF TableInv

(* The tables do not change once they are built.                            *)
LEMMA TableKept ==
    ASSUME TableInv, UNCHANGED <<config, buildVars>>
    PROVE  Cursor' /\ SlotSrc' /\ EntryRight'
<1>1. \A n : Peers(n)' = Peers(n) /\ Self(n)' = Self(n) /\ Srcs(n)' = Srcs(n)
  BY SameSections
<1>2. UNCHANGED <<k, j, i, allSlots, byEntry>>
  BY DEF buildVars
<1>3. Cursor'
  BY <1>1, <1>2 DEF TableInv, Cursor
<1>4. SlotSrc' /\ EntryRight'
  BY <1>1, <1>2 DEF TableInv, SlotSrc, EntryRight, EntryKey
<1> QED BY <1>3, <1>4

LEMMA ProbeStep ==
    ASSUME TableInv, NEW n \in Nodes, Probe(n)
    PROVE  TableInv'
<1>a. Typed /\ ProbeInside /\ HeardInside
  BY DEF TableInv
<1>b. /\ UNCHANGED <<config, pc, buildVars, heard>> /\ allSlots' = allSlots
      /\ UNCHANGED <<k, j, i, byEntry>>
      /\ net' = net \cup {Datagram(n, probe[n])} /\ sent' = sent \cup {Datagram(n, probe[n])}
      /\ probe' = [probe EXCEPT ![n] = NextProbe(n)] /\ allSlots[n] # <<>>
  BY DEF Probe, buildVars
<1>c. allSlots[n] \in Seq(Slot) /\ probe[n] \in Nat
  BY <1>a DEF Typed
<1>d. Len(allSlots[n]) \in Nat /\ Len(allSlots[n]) >= 1
  BY <1>b, <1>c, EmptySeq
<1>e. probe[n] \in 1 .. Len(allSlots[n])
  BY <1>a, <1>c, <1>d DEF ProbeInside
<1>1. Datagram(n, probe[n]) \in Datagrams
  <2>1. allSlots[n][probe[n]] \in Slot
    BY <1>c, <1>e, ElementOfSeq
  <2> QED BY <2>1 DEF Datagram, Datagrams, Slot
<1>2. NextProbe(n) \in 1 .. Len(allSlots[n])
  BY <1>d, <1>e DEF NextProbe
<1>3. Typed'
  <2>1. probe' \in [Nodes -> Nat]
    BY <1>a, <1>b, <1>2 DEF Typed
  <2> QED BY <1>a, <1>b, <1>1, <2>1 DEF Typed
<1>4. ProbeInside'
  BY <1>a, <1>b, <1>d, <1>2 DEF Typed, ProbeInside
<1>5. HeardInside'
  BY <1>a, <1>b DEF HeardInside
<1> QED BY <1>b, <1>3, <1>4, <1>5, TableKept DEF TableInv

(* A stamp is for a slot of the table.                                      *)
LEMMA ReceiveStep ==
    ASSUME TableInv, NEW n \in Nodes, NEW d \in net, Receive(n, d)
    PROVE  TableInv'
<1>a. Typed /\ SlotSrc /\ EntryRight /\ ProbeInside /\ HeardInside
  BY DEF TableInv
<1>b. /\ UNCHANGED <<config, pc, buildVars, probe, sent, allSlots, k, j, i, byEntry>>
      /\ net' = net \ {d}
  BY DEF Receive, buildVars
<1>c. PICK srcIdx \in 1 .. Len(Srcs(n)) :
        heard' = [heard EXCEPT ![n] = @ \cup LookupSlot(n, srcIdx, d.src)]
  BY DEF Receive, Readers
<1>d. /\ heard'[n] = heard[n] \cup LookupSlot(n, srcIdx, d.src)
      /\ \A m \in Nodes : m # n => heard'[m] = heard[m]
  BY <1>a, <1>c DEF Typed
<1>1. LookupSlot(n, srcIdx, d.src) \subseteq 1 .. Len(allSlots[n])
  BY <1>a DEF LookupSlot, EntryRight
<1>2. Typed'
  <2>1. LookupSlot(n, srcIdx, d.src) \subseteq Nat
    BY <1>1
  <2>2. heard' \in [Nodes -> SUBSET Nat]
    BY <1>a, <1>c, <2>1 DEF Typed
  <2> QED BY <1>a, <1>b, <2>2 DEF Typed
<1>3. ProbeInside'
  BY <1>a, <1>b DEF ProbeInside
<1>4. HeardInside'
  BY <1>a, <1>b, <1>d, <1>1 DEF HeardInside
<1> QED BY <1>b, <1>2, <1>3, <1>4, TableKept DEF TableInv

LEMMA TableInvStep == TableInv /\ [Next]_vars => TableInv'
<1> SUFFICES ASSUME TableInv, [Next]_vars PROVE TableInv'
  OBVIOUS
<1>a. Typed /\ ProbeInside /\ HeardInside
  BY DEF TableInv
<1>1. ASSUME NEW n \in Nodes, Built(n) PROVE TableInv'
  <2>1. /\ UNCHANGED <<config, buildVars, k, j, i, allSlots, byEntry, probe, net, sent, heard>>
        /\ pc' = [pc EXCEPT ![n] = "run"]
    BY <1>1 DEF Built, buildVars, runVars
  <2>2. Typed'
    BY <1>a, <2>1 DEF Typed
  <2>3. ProbeInside' /\ HeardInside'
    BY <1>a, <2>1 DEF ProbeInside, HeardInside
  <2> QED BY <2>1, <2>2, <2>3, TableKept DEF TableInv
<1>2. CASE Lose \/ UNCHANGED vars
  <2>1. /\ UNCHANGED <<config, pc, buildVars, k, j, i, allSlots, byEntry, probe, sent, heard>>
        /\ net' \subseteq net
    BY <1>2 DEF Lose, vars, buildVars, runVars
  <2>2. Typed'
    BY <1>a, <2>1 DEF Typed
  <2>3. ProbeInside' /\ HeardInside'
    BY <1>a, <2>1 DEF ProbeInside, HeardInside
  <2> QED BY <2>1, <2>2, <2>3, TableKept DEF TableInv
<1> QED BY <1>1, <1>2, SkipSelfStep, AddSlotStep, ProbeStep, ReceiveStep DEF Next

-----------------------------------------------------------------------------
(* Stamps.                                                                 *)

(* A slot, once added, stays what it is.                                    *)
LEMMA SlotsKept ==
    ASSUME TableInv, NEW m \in Nodes, AddSlot(m), NEW n \in Nodes, NEW x \in 1 .. Len(allSlots[n])
    PROVE  allSlots'[n][x] = allSlots[n][x]
<1>1. allSlots \in [Nodes -> Seq(Slot)] /\ TableInv'
  BY AddSlotStep DEF TableInv, Typed
<1>2. allSlots' = [allSlots EXCEPT ![m] = Append(@, NewSlot(m, Peers(m)[k[m]]))]
  BY DEF AddSlot
<1>3. CASE n # m
  BY <1>1, <1>2, <1>3
<1>4. CASE n = m
  BY <1>1, <1>2, <1>4
<1> QED BY <1>3, <1>4

(* A stamp is evidence for its slot: the slot found has the socket of the   *)
(* datagram and the IP of its sender, and the IP tells the endpoint.        *)
LEMMA StampStep ==
    ASSUME UniqueIps, TableInv, HeardIsReverse, [Next]_vars
    PROVE  HeardIsReverse'
<1>a. Typed /\ SlotSrc /\ EntryRight /\ HeardInside
  BY DEF TableInv
<1>1. ASSUME NEW n \in Nodes, SkipSelf(n) \/ Built(n) PROVE HeardIsReverse'
  BY <1>1 DEF SkipSelf, Built, buildVars, runVars, HeardIsReverse
<1>2. ASSUME NEW n \in Nodes, Probe(n) PROVE HeardIsReverse'
  BY <1>2 DEF Probe, buildVars, HeardIsReverse
<1>3. CASE Lose \/ UNCHANGED vars
  BY <1>3 DEF Lose, vars, buildVars, runVars, HeardIsReverse
<1>4. ASSUME NEW n \in Nodes, AddSlot(n) PROVE HeardIsReverse'
  <2> SUFFICES ASSUME NEW m \in Nodes, NEW y \in heard[m]
               PROVE  [src |-> allSlots'[m][y].dst, dst |-> allSlots'[m][y].src] \in sent
    BY <1>4 DEF AddSlot, runVars, HeardIsReverse
  <2>1. y \in 1 .. Len(allSlots[m])
    BY <1>a DEF HeardInside
  <2>2. allSlots'[m][y] = allSlots[m][y]
    BY <1>4, <2>1, SlotsKept
  <2> QED BY <2>2 DEF HeardIsReverse
<1>5. ASSUME NEW n \in Nodes, NEW d \in net, Receive(n, d) PROVE HeardIsReverse'
  <2>1. UNCHANGED <<sent, allSlots>>
    BY <1>5 DEF Receive, buildVars
  <2>2. PICK srcIdx \in 1 .. Len(Srcs(n)) :
          /\ Srcs(n)[srcIdx] = d.dst
          /\ heard' = [heard EXCEPT ![n] = @ \cup LookupSlot(n, srcIdx, d.src)]
    BY <1>5 DEF Receive, Readers
  <2>3. d \in sent /\ d \in Datagrams
    BY <1>a DEF Typed
  <2>4. ASSUME NEW y \in LookupSlot(n, srcIdx, d.src)
        PROVE  [src |-> allSlots[n][y].dst, dst |-> allSlots[n][y].src] = d
    <3>1. /\ y \in 1 .. Len(allSlots[n])
          /\ EntryKey(allSlots[n][y].srcIdx, allSlots[n][y].dst) = EntryKey(srcIdx, d.src)
      BY <1>a, <2>4 DEF LookupSlot, EntryRight
    <3>2. allSlots[n][y].srcIdx = srcIdx /\ allSlots[n][y].dst.ip = d.src.ip
      BY <3>1 DEF EntryKey
    <3>3. allSlots[n][y] \in Slot
      BY <1>a, <3>1, ElementOfSeq DEF Typed
    <3>4. allSlots[n][y].dst = d.src
      BY <2>3, <3>2, <3>3 DEF UniqueIps, Datagrams, Slot
    <3>5. allSlots[n][y].src = d.dst
      BY <1>a, <2>2, <3>1, <3>2 DEF SlotSrc
    <3> QED BY <2>3, <3>4, <3>5 DEF Datagrams
  <2>5. ASSUME NEW m \in Nodes, NEW y \in heard'[m]
        PROVE  [src |-> allSlots[m][y].dst, dst |-> allSlots[m][y].src] \in sent
    <3>1. CASE y \in heard[m]
      BY <3>1 DEF HeardIsReverse
    <3>2. CASE y \notin heard[m]
      <4>1. m = n /\ y \in LookupSlot(n, srcIdx, d.src)
        BY <1>a, <2>2, <2>5, <3>2 DEF Typed
      <4> QED BY <2>3, <2>4, <4>1
    <3> QED BY <3>1, <3>2
  <2> QED BY <2>1, <2>5 DEF HeardIsReverse
<1> QED BY <1>1, <1>2, <1>3, <1>4, <1>5 DEF Next

(* In a cluster whose endpoints differ in their IPs, a slot is stamped only *)
(* after its peer sent from the slot's dst to the slot's src: lookupSlot    *)
(* finds the slot of the reverse path, whatever the order of the sections   *)
(* and whatever IntMap::insert does with a key it has.                      *)
THEOREM StampIsEvidence ==
    ASSUME UniqueIps
    PROVE  Spec => []HeardIsReverse
<1>1. Init => TableInv /\ HeardIsReverse
  BY TableInvInit DEF Init, HeardIsReverse
<1>2. TableInv /\ HeardIsReverse /\ [Next]_vars => TableInv' /\ HeardIsReverse'
  BY TableInvStep, StampStep
<1> QED BY <1>1, <1>2, PTL DEF Spec
-----------------------------------------------------------------------------
(* The grid of slots.                                                      *)

LEMMA Times ==
    ASSUME NEW W \in Nat, NEW a \in Nat, NEW b \in Nat, a <= b
    PROVE  a * W \in Nat /\ b * W \in Nat /\ a * W <= b * W /\ (a < b => a * W + W <= b * W)
<1>1. PICK d \in Nat : b = a + d
  <2>1. b - a \in Nat /\ b = a + (b - a)
    OBVIOUS
  <2> QED BY <2>1
<1>2. a * W \in Nat /\ d * W \in Nat
  OBVIOUS
<1>3. b * W = a * W + d * W
  BY <1>1
<1>4. CASE d = 0
  BY <1>1, <1>2, <1>3, <1>4
<1>5. CASE d # 0
  <2>1. PICK e \in Nat : d = e + 1
    <3>1. d - 1 \in Nat /\ d = (d - 1) + 1
      BY <1>5
    <3> QED BY <3>1
  <2>2. d * W = e * W + W /\ e * W \in Nat
    BY <2>1
  <2> QED BY <1>1, <1>2, <1>3, <2>2
<1> QED BY <1>4, <1>5

\* The place of socket ii and endpoint jj among the slots of a Conn.
Pos(W, jj, ii) == (jj - 1) * W + ii

LEMMA PosIn ==
    ASSUME NEW w \in Nat, NEW jj \in Nat \ {0}, NEW ii \in 1 .. w
    PROVE  (jj - 1) * w \in Nat /\ Pos(w, jj, ii) \in Nat \ {0}
<1>1. jj - 1 \in Nat
  OBVIOUS
<1>2. (jj - 1) * w \in Nat
  BY <1>1, Times
<1> QED BY <1>2 DEF Pos

LEMMA PosLess ==
    ASSUME NEW w \in Nat, NEW jj \in Nat \ {0}, NEW j2 \in Nat \ {0}, jj < j2,
           NEW ii \in 1 .. w, NEW i2 \in 1 .. w
    PROVE  Pos(w, jj, ii) < Pos(w, j2, i2)
<1>1. jj - 1 \in Nat /\ j2 - 1 \in Nat /\ jj - 1 < j2 - 1
  OBVIOUS
<1>2. (jj - 1) * w + w <= (j2 - 1) * w /\ (jj - 1) * w \in Nat /\ (j2 - 1) * w \in Nat
  BY <1>1, Times
<1> QED BY <1>2 DEF Pos

\* Each place is that of one socket and endpoint.
LEMMA PosOnce ==
    ASSUME NEW w \in Nat, NEW jj \in Nat \ {0}, NEW j2 \in Nat \ {0},
           NEW ii \in 1 .. w, NEW i2 \in 1 .. w, Pos(w, jj, ii) = Pos(w, j2, i2)
    PROVE  jj = j2 /\ ii = i2
<1>1. Pos(w, jj, ii) \in Nat /\ Pos(w, j2, i2) \in Nat /\ (jj - 1) * w \in Nat
  BY PosIn
<1>2. ~(jj < j2)
  <2> SUFFICES ASSUME jj < j2 PROVE FALSE
    OBVIOUS
  <2>1. Pos(w, jj, ii) < Pos(w, j2, i2)
    BY PosLess
  <2> QED BY <1>1, <2>1
<1>3. ~(j2 < jj)
  <2> SUFFICES ASSUME j2 < jj PROVE FALSE
    OBVIOUS
  <2>1. Pos(w, j2, i2) < Pos(w, jj, ii)
    BY PosLess
  <2> QED BY <1>1, <2>1
<1>4. jj = j2
  BY <1>2, <1>3
<1> QED BY <1>1, <1>4 DEF Pos

LEMMA PosFacts ==
    ASSUME NEW W \in Nat, W >= 1
    PROVE  /\ \A jj \in Nat \ {0} : Pos(W, jj + 1, 1) = Pos(W, jj, W) + 1
           /\ \A M \in Nat : \A jj \in 1 .. M, ii \in 1 .. W :
                Pos(W, jj, ii) <= Pos(W, M, W)
           /\ \A M \in Nat \ {0} : Pos(W, M, W) = W * M
<1>1. ASSUME NEW jj \in Nat \ {0} PROVE Pos(W, jj + 1, 1) = Pos(W, jj, W) + 1
  <2>1. PICK a \in Nat : jj = a + 1
    <3>1. jj - 1 \in Nat /\ jj = (jj - 1) + 1
      OBVIOUS
    <3> QED BY <3>1
  <2>2. (a + 1) * W = a * W + W /\ a * W \in Nat
    BY <2>1
  <2>3. jj - 1 = a /\ jj + 1 - 1 = a + 1
    BY <2>1
  <2> QED BY <2>2, <2>3 DEF Pos
<1>2. ASSUME NEW M \in Nat, NEW jj \in 1 .. M, NEW ii \in 1 .. W PROVE Pos(W, jj, ii) <= Pos(W, M, W)
  <2>1. CASE jj = M
    <3>1. jj \in Nat \ {0}
      OBVIOUS
    <3>2. (jj - 1) * W \in Nat
      BY <3>1, PosIn
    <3> QED BY <2>1, <3>2 DEF Pos
  <2>2. CASE jj < M
    <3>1. jj \in Nat \ {0} /\ M \in Nat \ {0} /\ W \in 1 .. W
      OBVIOUS
    <3>2. Pos(W, jj, ii) < Pos(W, M, W) /\ Pos(W, jj, ii) \in Nat /\ Pos(W, M, W) \in Nat
      BY <2>2, <3>1, PosIn, PosLess
    <3> QED BY <3>2
  <2> QED BY <2>1, <2>2
<1>3. ASSUME NEW M \in Nat \ {0} PROVE Pos(W, M, W) = W * M
  <2>1. PICK a \in Nat : M = a + 1
    <3>1. M - 1 \in Nat /\ M = (M - 1) + 1
      OBVIOUS
    <3> QED BY <3>1
  <2>2. W * (a + 1) = a * W + W
    BY <2>1
  <2>3. M - 1 = a
    BY <2>1
  <2> QED BY <2>1, <2>2, <2>3 DEF Pos
<1> QED BY <1>1, <1>2, <1>3
W(n) == Len(Srcs(n))
Row(n, x) == Peers(n)[x]
At(n, x, jj, ii) ==
    [src |-> Srcs(n)[ii], srcIdx |-> ii, dst |-> Row(n, x).dsts[jj], vip |-> Row(n, x).vip]

\* c holds the first len slots of entry x.
Filled(n, c, x, len) ==
    /\ c \in Seq(Nat) /\ Len(c) = len
    /\ \A y \in 1 .. Len(c) : c[y] \in 1 .. Len(allSlots[n])
    /\ \A jj \in 1 .. Len(Row(n, x).dsts), ii \in 1 .. W(n) :
         Pos(W(n), jj, ii) <= len => allSlots[n][c[Pos(W(n), jj, ii)]] = At(n, x, jj, ii)

\* The Conn under construction has the slots of the rounds so far, and the Conns of
\* the entries before have all of theirs.
Growing(n) ==
    /\ k[n] <= Len(Peers(n)) + 1 /\ j[n] >= 1
    /\ k[n] <= Len(Peers(n)) /\ k[n] # Self(n) =>
         Filled(n, connSlots[n], k[n], Pos(W(n), j[n], i[n]) - 1)
    /\ k[n] > Len(Peers(n)) \/ k[n] = Self(n) => connSlots[n] = <<>> /\ i[n] = 1 /\ j[n] = 1
    /\ pc[n] = "run" => k[n] > Len(Peers(n))
Grown(n) ==
    /\ \A v \in DOMAIN byVip[n] : \E x \in 1 .. k[n] - 1 : x # Self(n) /\ Row(n, x).vip = v
    /\ \A x \in 1 .. k[n] - 1 : x # Self(n) =>
         /\ Row(n, x).vip \in DOMAIN byVip[n]
         /\ Filled(n, byVip[n][Row(n, x).vip], x, W(n) * Len(Row(n, x).dsts))
GridInv ==
    /\ connSlots = [n \in Nodes |-> connSlots[n]] /\ byVip = [n \in Nodes |-> byVip[n]]
    /\ \A n \in Nodes : Growing(n) /\ Grown(n)

\* A Conn keeps its slots while others are added.
LEMMA FilledKept ==
    ASSUME NEW n, NEW c, NEW x, NEW len, Filled(n, c, x, len), config' = config,
           Len(allSlots[n]) \in Nat, Len(allSlots'[n]) \in Nat,
           Len(allSlots[n]) <= Len(allSlots'[n]), W(n) \in Nat, W(n) >= 1,
           Len(Row(n, x).dsts) \in Nat,
           \A y \in 1 .. Len(allSlots[n]) : allSlots'[n][y] = allSlots[n][y]
    PROVE  Filled(n, c, x, len)'
<1>1. Row(n, x)' = Row(n, x) /\ W(n)' = W(n) /\ Srcs(n)' = Srcs(n)
  BY SameSections DEF Row, W
<1>2. \A jj, ii : At(n, x, jj, ii)' = At(n, x, jj, ii) /\ Pos(W(n), jj, ii)' = Pos(W(n), jj, ii)
  BY <1>1 DEF At, Pos
<1>3. c \in Seq(Nat) /\ Len(c) = len /\ Len(c) \in Nat
  BY DEF Filled
<1>4. \A y \in 1 .. Len(c) : c[y] \in 1 .. Len(allSlots'[n]) /\ allSlots'[n][c[y]] = allSlots[n][c[y]]
  BY DEF Filled
<1>5. ASSUME NEW jj \in 1 .. Len(Row(n, x).dsts), NEW ii \in 1 .. W(n), Pos(W(n), jj, ii) <= len
      PROVE  allSlots'[n][c[Pos(W(n), jj, ii)]] = At(n, x, jj, ii)
  <2>1. Pos(W(n), jj, ii) \in Nat \ {0}
    <3>1. jj \in Nat \ {0}
      OBVIOUS
    <3> QED BY <3>1, PosIn
  <2>2. Pos(W(n), jj, ii) \in 1 .. Len(c)
    BY <1>3, <1>5, <2>1
  <2>3. allSlots[n][c[Pos(W(n), jj, ii)]] = At(n, x, jj, ii)
    BY <1>5 DEF Filled
  <2> QED BY <1>4, <2>2, <2>3
<1> QED BY <1>1, <1>2, <1>3, <1>4, <1>5 DEF Filled

\* What is needed of the sections.
LEMMA Sizes ==
    ASSUME TableInv, NEW n \in Nodes
    PROVE  /\ W(n) \in Nat /\ W(n) >= 1 /\ Len(Peers(n)) \in Nat
           /\ \A x \in 1 .. Len(Peers(n)) :
                Len(Row(n, x).dsts) \in Nat /\ Len(Row(n, x).dsts) >= 1
<1>1. Typed
  BY DEF TableInv
<1>2. ASSUME NEW x \in 1 .. Len(Peers(n))
      PROVE  Len(Row(n, x).dsts) \in Nat /\ Len(Row(n, x).dsts) >= 1
  <2>1. Row(n, x).dsts \in Seq(Endpoints) /\ Len(Row(n, x).dsts) >= 1
    BY <1>1, SelfFacts DEF Row
  <2> QED BY <2>1
<1>3. Srcs(n) \in Seq(Endpoints) /\ Len(Srcs(n)) >= 1 /\ Len(Peers(n)) \in Nat
  BY <1>1, SelfFacts
<1> QED BY <1>2, <1>3 DEF W

\* Slot s is added to the table at position new.
Added(n, new, s) ==
    /\ Len(allSlots[n]) \in Nat /\ new = Len(allSlots[n]) + 1 /\ Len(allSlots'[n]) = new
    /\ allSlots'[n][new] = s
    /\ \A y \in 1 .. Len(allSlots[n]) : allSlots'[n][y] = allSlots[n][y]

\* d is c and then new, at place q.
Longer(d, c, q, new) ==
    d \in Seq(Nat) /\ Len(d) = q /\ d[q] = new /\ \A y \in 1 .. q - 1 : d[y] = c[y]

LEMMA AddedKeeps ==
    ASSUME NEW n, NEW new, NEW s, Added(n, new, s)
    PROVE  /\ Len(allSlots[n]) \in Nat /\ Len(allSlots'[n]) \in Nat
           /\ Len(allSlots[n]) <= Len(allSlots'[n]) /\ new \in 1 .. Len(allSlots'[n])
           /\ allSlots'[n][new] = s
           /\ \A y \in 1 .. Len(allSlots[n]) : allSlots'[n][y] = allSlots[n][y]
<1>1. Len(allSlots[n]) \in Nat /\ new = Len(allSlots[n]) + 1 /\ Len(allSlots'[n]) = new
  BY DEF Added
<1>2. /\ Len(allSlots'[n]) \in Nat /\ Len(allSlots[n]) <= Len(allSlots'[n])
      /\ new \in 1 .. Len(allSlots'[n])
  BY ONLY <1>1
<1> QED BY <1>1, <1>2 DEF Added

\* One more slot of the round it stands for.
LEMMA FilledMore ==
    ASSUME TableInv, NEW n \in Nodes, NEW c, NEW x \in 1 .. Len(Peers(n)),
           NEW b \in 1 .. Len(Row(n, x).dsts), NEW a \in 1 .. W(n),
           NEW q, q = Pos(W(n), b, a), Filled(n, c, x, q - 1), config' = config,
           NEW new, Added(n, new, At(n, x, b, a)), NEW d, Longer(d, c, q, new)
    PROVE  Filled(n, d, x, q)'
<1>1. /\ W(n) \in Nat /\ W(n) >= 1 /\ Len(Row(n, x).dsts) \in Nat
      /\ Len(Row(n, x).dsts) >= 1
  BY Sizes
<1>2. b \in Nat \ {0}
  BY <1>1
<1>3. q \in Nat \ {0}
  BY <1>1, <1>2, PosIn
<1>4. Filled(n, c, x, q - 1)'
  <2>1. PICK r : r = q - 1
    OBVIOUS
  <2>2. Filled(n, c, x, r)
    BY <2>1
  <2>3. Filled(n, c, x, r)'
    BY <1>1, <2>2, AddedKeeps, FilledKept
  <2> QED BY <2>1, <2>3
<1>5. /\ Row(n, x)' = Row(n, x) /\ W(n)' = W(n) /\ \A jj, ii : At(n, x, jj, ii)' = At(n, x, jj, ii)
      /\ \A jj, ii : Pos(W(n), jj, ii)' = Pos(W(n), jj, ii)
  BY SameSections DEF Row, W, At, Pos
<1>6. \A y \in 1 .. q : y = q \/ y \in 1 .. q - 1
  BY <1>3
<1>7. /\ \A y \in 1 .. q - 1 : c[y] \in 1 .. Len(allSlots'[n])
      /\ \A jj \in 1 .. Len(Row(n, x).dsts), ii \in 1 .. W(n) :
           Pos(W(n), jj, ii) <= q - 1 => allSlots'[n][c[Pos(W(n), jj, ii)]] = At(n, x, jj, ii)
  <2>1. /\ Len(c) = q - 1
        /\ \A y \in 1 .. Len(c) : c[y] \in 1 .. Len(allSlots'[n])
        /\ \A jj \in 1 .. Len(Row(n, x)'.dsts), ii \in 1 .. W(n)' :
             Pos(W(n), jj, ii)' <= q - 1 => allSlots'[n][c[Pos(W(n), jj, ii)']] = At(n, x, jj, ii)'
    BY <1>4 DEF Filled
  <2> QED BY ONLY <1>5, <2>1
<1>8. \A y \in 1 .. q : d[y] \in 1 .. Len(allSlots'[n])
  BY <1>6, <1>7, AddedKeeps DEF Longer
<1>9. ASSUME NEW jj \in 1 .. Len(Row(n, x).dsts), NEW ii \in 1 .. W(n), Pos(W(n), jj, ii) <= q
      PROVE  allSlots'[n][d[Pos(W(n), jj, ii)]] = At(n, x, jj, ii)
  <2>1. jj \in Nat \ {0}
    BY <1>1
  <2>2. Pos(W(n), jj, ii) \in Nat \ {0}
    BY <1>1, <2>1, PosIn
  <2>3. CASE Pos(W(n), jj, ii) = q
    <3>1. Pos(W(n), jj, ii) = Pos(W(n), b, a)
      BY <2>3
    <3>2. jj = b /\ ii = a
      BY <1>1, <1>2, <2>1, <3>1, PosOnce
    <3>3. d[q] = new /\ allSlots'[n][new] = At(n, x, b, a)
      BY AddedKeeps DEF Longer
    <3> QED BY <2>3, <3>2, <3>3
  <2>4. CASE Pos(W(n), jj, ii) # q
    <3>1. PICK z \in Nat \ {0} : z = Pos(W(n), jj, ii)
      BY <2>2
    <3>a. z <= q /\ z # q
      BY <1>9, <2>4, <3>1
    <3>2. z \in 1 .. q - 1 /\ z <= q - 1
      BY ONLY <1>3, <3>1, <3>a
    <3>3. d[z] = c[z]
      BY <3>2 DEF Longer
    <3>4. allSlots'[n][c[z]] = At(n, x, jj, ii)
      BY <1>7, <3>1, <3>2
    <3> QED BY <3>1, <3>3, <3>4
  <2> QED BY <2>3, <2>4
<1>10. d \in Seq(Nat) /\ Len(d) = q
  BY DEF Longer
<1>11. /\ \A y \in 1 .. Len(d) : d[y] \in 1 .. Len(allSlots'[n])
       /\ \A jj \in 1 .. Len(Row(n, x)'.dsts), ii \in 1 .. W(n)' :
            Pos(W(n), jj, ii)' <= q => allSlots'[n][d[Pos(W(n), jj, ii)']] = At(n, x, jj, ii)'
  <2>1. \A y \in 1 .. Len(d) : d[y] \in 1 .. Len(allSlots'[n])
    BY ONLY <1>8, <1>10
  <2>2. ASSUME NEW jj \in 1 .. Len(Row(n, x)'.dsts), NEW ii \in 1 .. W(n)',
               Pos(W(n), jj, ii)' <= q
        PROVE  allSlots'[n][d[Pos(W(n), jj, ii)']] = At(n, x, jj, ii)'
    <3>1. Pos(W(n), jj, ii)' = Pos(W(n), jj, ii) /\ At(n, x, jj, ii)' = At(n, x, jj, ii)
      BY ONLY <1>5
    <3>2. jj \in 1 .. Len(Row(n, x).dsts) /\ ii \in 1 .. W(n) /\ Pos(W(n), jj, ii) <= q
      BY ONLY <1>5, <2>2, <3>1
    <3>3. allSlots'[n][d[Pos(W(n), jj, ii)]] = At(n, x, jj, ii)
      BY ONLY <1>9, <3>2
    <3> QED BY ONLY <3>1, <3>3
  <2> QED BY ONLY <2>1, <2>2
<1> QED BY ONLY <1>10, <1>11 DEF Filled
LEMMA FilledNone ==
    ASSUME TableInv, NEW n \in Nodes, NEW x \in 1 .. Len(Peers(n))
    PROVE  Filled(n, <<>>, x, 0)
<1>1. W(n) \in Nat /\ Len(Row(n, x).dsts) \in Nat
  BY Sizes
<1>2. ASSUME NEW jj \in 1 .. Len(Row(n, x).dsts), NEW ii \in 1 .. W(n) PROVE ~(Pos(W(n), jj, ii) <= 0)
  <2>1. jj \in Nat \ {0}
    BY <1>1
  <2>2. PICK z \in Nat \ {0} : z = Pos(W(n), jj, ii)
    BY <1>1, <2>1, PosIn
  <2>3. ~(z <= 0)
    OBVIOUS
  <2> QED BY <2>2, <2>3
<1>3. <<>> \in Seq(Nat) /\ Len(<<>>) = 0 /\ 1 .. 0 = {}
  OBVIOUS
<1> QED BY <1>2, <1>3 DEF Filled

\* Nothing happens to the table of node m.
LEMMA GridSame ==
    ASSUME TableInv, NEW m \in Nodes, Growing(m), Grown(m), config' = config,
           k'[m] = k[m], j'[m] = j[m], i'[m] = i[m], connSlots'[m] = connSlots[m],
           byVip'[m] = byVip[m], allSlots'[m] = allSlots[m],
           pc'[m] = "run" => k[m] > Len(Peers(m))
    PROVE  Growing(m)' /\ Grown(m)'
<1>1. /\ Peers(m)' = Peers(m) /\ Self(m)' = Self(m) /\ W(m)' = W(m)
      /\ \A x : Row(m, x)' = Row(m, x)
      /\ \A a, b : Pos(W(m), a, b)' = Pos(W(m), a, b)
  BY SameSections DEF W, Row, Pos
<1>2. \A x, a, b : At(m, x, a, b)' = At(m, x, a, b)
  BY SameSections DEF At, Row
<1>3. ASSUME NEW c, NEW x, NEW len, Filled(m, c, x, len) PROVE Filled(m, c, x, len)'
  BY <1>1, <1>2, <1>3 DEF Filled
<1>4. Growing(m)'
  <2>1. Pos(W(m), j[m], i[m])' = Pos(W(m), j[m], i[m])
    BY <1>1 DEF Pos
  <2>2. k[m] <= Len(Peers(m)) /\ k[m] # Self(m) =>
          Filled(m, connSlots[m], k[m], Pos(W(m), j[m], i[m]) - 1)'
    <3> SUFFICES ASSUME k[m] <= Len(Peers(m)), k[m] # Self(m)
                 PROVE  Filled(m, connSlots[m], k[m], Pos(W(m), j[m], i[m]) - 1)'
      OBVIOUS
    <3>1. PICK c, x, len : c = connSlots[m] /\ x = k[m] /\ len = Pos(W(m), j[m], i[m]) - 1
      OBVIOUS
    <3>2. Filled(m, c, x, len)
      BY <3>1 DEF Growing
    <3>3. Filled(m, c, x, len)'
      BY <1>3, <3>2
    <3>4. c = connSlots'[m] /\ x = k'[m] /\ len = Pos(W(m), j[m], i[m])' - 1
      BY <2>1, <3>1
    <3> QED BY <3>3, <3>4
  <2> QED BY <1>1, <2>2 DEF Growing
<1>5. Grown(m)'
  <2>1. ASSUME NEW x \in 1 .. k[m] - 1, x # Self(m)
        PROVE  /\ Row(m, x).vip \in DOMAIN byVip[m]
               /\ Filled(m, byVip[m][Row(m, x).vip], x, W(m) * Len(Row(m, x).dsts))'
    <3>1. PICK c, len : c = byVip[m][Row(m, x).vip] /\ len = W(m) * Len(Row(m, x).dsts)
      OBVIOUS
    <3>2. Filled(m, c, x, len) /\ Row(m, x).vip \in DOMAIN byVip[m]
      BY <2>1, <3>1 DEF Grown
    <3>3. Filled(m, c, x, len)'
      BY <1>3, <3>2
    <3>4. c = byVip'[m][Row(m, x)'.vip] /\ len = W(m)' * Len(Row(m, x)'.dsts)
      BY <1>1, <3>1
    <3> QED BY <3>2, <3>3, <3>4
  <2> QED BY <1>1, <2>1 DEF Grown
<1> QED BY <1>4, <1>5

LEMMA GridInit == Init => TableInv /\ GridInv
<1> SUFFICES ASSUME Init PROVE TableInv /\ GridInv
  OBVIOUS
<1>1. TableInv
  BY TableInvInit
<1>2. ASSUME NEW n \in Nodes PROVE Growing(n) /\ Grown(n)
  <2>1. /\ k[n] = 1 /\ i[n] = 1 /\ j[n] = 1 /\ connSlots[n] = <<>> /\ byVip[n] = <<>>
        /\ pc[n] = "build"
    BY DEF Init
  <2>2. Len(Peers(n)) \in Nat /\ W(n) \in Nat /\ W(n) >= 1
    BY <1>1, Sizes
  <2>3. Pos(W(n), 1, 1) - 1 = 0
    BY <2>2 DEF Pos
  <2>4. 1 <= Len(Peers(n)) => Filled(n, <<>>, 1, 0)
    BY <1>1, <2>2, FilledNone
  <2>5. Growing(n)
    BY <2>1, <2>2, <2>3, <2>4 DEF Growing
  <2> QED BY <2>1, <2>5 DEF Grown
<1>3. connSlots = [n \in Nodes |-> connSlots[n]] /\ byVip = [n \in Nodes |-> byVip[n]]
  BY DEF Init
<1> QED BY <1>1, <1>2, <1>3 DEF GridInv

LEMMA GridSkips ==
    ASSUME TableInv, GridInv, NEW n \in Nodes, SkipSelf(n)
    PROVE  GridInv'
<1>1. /\ UNCHANGED <<config, pc, j, i, allSlots, connSlots, byVip>>
      /\ k' = [k EXCEPT ![n] = @ + 1] /\ k[n] <= Len(Peers(n)) /\ k[n] = Self(n)
      /\ pc[n] = "build" /\ k \in [Nodes -> Nat]
  BY DEF SkipSelf, runVars, TableInv, Typed
<1>2. ASSUME NEW m \in Nodes, m # n PROVE Growing(m)' /\ Grown(m)'
  <2>1. k'[m] = k[m] /\ (pc'[m] = "run" => k[m] > Len(Peers(m))) /\ Growing(m) /\ Grown(m)
    BY <1>1, <1>2 DEF GridInv, Growing
  <2> QED BY <1>1, <2>1, GridSame
<1>3. /\ Peers(n)' = Peers(n) /\ Self(n)' = Self(n) /\ W(n)' = W(n)
      /\ \A x : Row(n, x)' = Row(n, x)
  BY <1>1, SameSections DEF W, Row
<1>4. /\ k'[n] = k[n] + 1 /\ k[n] \in Nat /\ k[n] >= 1 /\ connSlots[n] = <<>> /\ i[n] = 1 /\ j[n] = 1
      /\ Len(Peers(n)) \in Nat /\ W(n) \in Nat
  BY <1>1, Sizes DEF GridInv, Growing, TableInv, Cursor
<1>5. Growing(n)'
  <2>1. Pos(W(n), 1, 1) - 1 = 0
    BY <1>4 DEF Pos
  <2>2. ASSUME k'[n] <= Len(Peers(n)) PROVE Filled(n, <<>>, k[n], 0)'
    <3>1. PICK x : x = k'[n]
      OBVIOUS
    <3>2. x \in 1 .. Len(Peers(n))
      BY <1>4, <2>2, <3>1
    <3>3. Filled(n, <<>>, x, 0)
      BY <3>2, FilledNone
    <3>4. \A a, b : At(n, x, a, b)' = At(n, x, a, b) /\ Pos(W(n), a, b)' = Pos(W(n), a, b)
      BY <1>1, <1>3, SameSections DEF At, Row, Pos
    <3>5. Filled(n, <<>>, x, 0)'
      BY <1>1, <1>3, <3>3, <3>4 DEF Filled
    <3> QED BY <3>1, <3>5
  <2>3. (Pos(W(n), j[n], i[n]) - 1)' = 0
    BY <1>1, <1>3, <1>4, <2>1 DEF Pos
  <2>4. k'[n] <= Len(Peers(n)) + 1 /\ j'[n] >= 1 /\ connSlots'[n] = <<>> /\ i'[n] = 1 /\ j'[n] = 1
        /\ pc'[n] # "run"
    BY <1>1, <1>4
  <2> QED BY <1>3, <2>2, <2>3, <2>4 DEF Growing
<1>6. Grown(n)'
  <2>1. \A x \in 1 .. k'[n] - 1 : x # Self(n) => x \in 1 .. k[n] - 1
    BY <1>1, <1>4
  <2>2. 1 .. k[n] - 1 \subseteq 1 .. k'[n] - 1
    BY <1>4
  <2>3. ASSUME NEW x \in 1 .. k[n] - 1, x # Self(n)
        PROVE  /\ Row(n, x).vip \in DOMAIN byVip[n]
               /\ Filled(n, byVip[n][Row(n, x).vip], x, W(n) * Len(Row(n, x).dsts))'
    <3>1. /\ Row(n, x).vip \in DOMAIN byVip[n]
          /\ Filled(n, byVip[n][Row(n, x).vip], x, W(n) * Len(Row(n, x).dsts))
      BY <2>3 DEF GridInv, Grown
    <3>2. \A a, b : At(n, x, a, b)' = At(n, x, a, b) /\ Pos(W(n), a, b)' = Pos(W(n), a, b)
      BY <1>1, <1>3, SameSections DEF At, Row, Pos
    <3>3. PICK c, len : c = byVip[n][Row(n, x).vip] /\ len = W(n) * Len(Row(n, x).dsts)
      OBVIOUS
    <3>4. Filled(n, c, x, len)
      BY <3>1, <3>3
    <3>5. Filled(n, c, x, len)'
      BY <1>1, <1>3, <3>2, <3>4 DEF Filled
    <3>6. c = byVip'[n][Row(n, x)'.vip] /\ len = W(n)' * Len(Row(n, x)'.dsts)
      BY <1>1, <1>3, <3>3
    <3> QED BY <3>1, <3>5, <3>6
  <2>4. \A v \in DOMAIN byVip[n] : \E x \in 1 .. k[n] - 1 : x # Self(n) /\ Row(n, x).vip = v
    BY DEF GridInv, Grown
  <2> QED BY <1>1, <1>3, <2>1, <2>2, <2>3, <2>4 DEF Grown
<1>7. connSlots' = [m \in Nodes |-> connSlots'[m]] /\ byVip' = [m \in Nodes |-> byVip'[m]]
  BY <1>1 DEF GridInv
<1> QED BY <1>2, <1>5, <1>6, <1>7 DEF GridInv
\* What a round of the constructor's loops does to the node it is of.
LEMMA AddFacts ==
    ASSUME TableInv, GridInv, NEW n \in Nodes, AddSlot(n)
    PROVE  /\ config' = config /\ pc' = pc /\ pc[n] = "build" /\ k[n] # Self(n)
           /\ k[n] \in 1 .. Len(Peers(n)) /\ i[n] \in 1 .. W(n)
           /\ j[n] \in 1 .. Len(Row(n, k[n]).dsts)
           /\ Added(n, Len(allSlots[n]) + 1, At(n, k[n], j[n], i[n]))
           /\ Filled(n, connSlots[n], k[n], Pos(W(n), j[n], i[n]) - 1)
           /\ Longer(Append(connSlots[n], Len(allSlots[n]) + 1), connSlots[n],
                     Pos(W(n), j[n], i[n]), Len(allSlots[n]) + 1)
<1>1. /\ config' = config /\ pc' = pc /\ pc[n] = "build" /\ k[n] # Self(n)
      /\ k[n] <= Len(Peers(n))
      /\ allSlots' = [allSlots EXCEPT ![n] = Append(@, NewSlot(n, Peers(n)[k[n]]))]
  BY DEF AddSlot
<1>2. /\ k[n] \in 1 .. Len(Peers(n)) /\ i[n] \in 1 .. W(n)
      /\ j[n] \in 1 .. Len(Row(n, k[n]).dsts)
  <2>1. k[n] \in Nat /\ k[n] >= 1 /\ Len(Peers(n)) \in Nat
    BY Sizes DEF TableInv, Typed, Cursor
  <2> QED BY <1>1, <2>1 DEF TableInv, Cursor, W, Row
<1>3. NewSlot(n, Peers(n)[k[n]]) = At(n, k[n], j[n], i[n])
  BY DEF NewSlot, At, Row
<1>4. allSlots[n] \in Seq(Slot) /\ allSlots \in [Nodes -> Seq(Slot)]
  BY DEF TableInv, Typed
<1>5. Len(allSlots[n]) \in Nat
  BY <1>4
<1>6. Added(n, Len(allSlots[n]) + 1, At(n, k[n], j[n], i[n]))
  <2>1. PICK s : s = At(n, k[n], j[n], i[n])
    OBVIOUS
  <2>2. allSlots'[n] = Append(allSlots[n], s)
    BY <1>1, <1>3, <1>4, <2>1
  <2>3. s \in Slot
    <3>1. TableInv'
      BY AddSlotStep
    <3>2. allSlots'[n] \in Seq(Slot)
      BY <3>1 DEF TableInv, Typed
    <3>3. Len(allSlots'[n]) = Len(allSlots[n]) + 1 /\ allSlots'[n][Len(allSlots[n]) + 1] = s
      BY <1>4, <2>2
    <3>4. Len(allSlots[n]) + 1 \in 1 .. Len(allSlots'[n])
      BY <1>5, <3>3
    <3> QED BY <3>2, <3>3, <3>4, ElementOfSeq
  <2>4. /\ Len(allSlots'[n]) = Len(allSlots[n]) + 1 /\ allSlots'[n][Len(allSlots[n]) + 1] = s
        /\ \A y \in 1 .. Len(allSlots[n]) : allSlots'[n][y] = allSlots[n][y]
    BY <1>4, <2>2, <2>3
  <2> QED BY <1>5, <2>1, <2>4 DEF Added
<1>7. Filled(n, connSlots[n], k[n], Pos(W(n), j[n], i[n]) - 1)
  BY <1>1, <1>2 DEF GridInv, Growing
<1>8. Longer(Append(connSlots[n], Len(allSlots[n]) + 1), connSlots[n],
             Pos(W(n), j[n], i[n]), Len(allSlots[n]) + 1)
  <2>1. PICK c, q, new : c = connSlots[n] /\ q = Pos(W(n), j[n], i[n]) /\ new = Len(allSlots[n]) + 1
    OBVIOUS
  <2>2. c \in Seq(Nat) /\ Len(c) = q - 1 /\ new \in Nat
    BY <1>5, <1>7, <2>1 DEF Filled
  <2>3. q \in Nat \ {0}
    <3>1. j[n] \in Nat \ {0} /\ W(n) \in Nat
      BY <1>2, Sizes
    <3> QED BY <1>2, <2>1, <3>1, PosIn
  <2>4. /\ Append(c, new) \in Seq(Nat) /\ Len(Append(c, new)) = Len(c) + 1
        /\ Append(c, new)[Len(c) + 1] = new
        /\ \A y \in 1 .. Len(c) : Append(c, new)[y] = c[y]
    BY ONLY <2>2
  <2>5. Len(c) + 1 = q
    BY ONLY <2>2, <2>3
  <2>6. Longer(Append(c, new), c, q, new)
    BY <2>2, <2>4, <2>5 DEF Longer
  <2> QED BY <2>1, <2>6
<1> QED BY <1>1, <1>2, <1>6, <1>7, <1>8

\* The loops' counters go to the next place of the Conn, or to the next entry.
LEMMA CursorMoves ==
    ASSUME TableInv, GridInv, NEW n \in Nodes, AddSlot(n)
    PROVE  IF i[n] = W(n) /\ j[n] = Len(Row(n, k[n]).dsts)
           THEN k'[n] = k[n] + 1
           ELSE /\ k'[n] = k[n] /\ j'[n] >= 1 /\ Pos(W(n), j[n], i[n]) \in Nat
                /\ Pos(W(n), j'[n], i'[n]) - 1 = Pos(W(n), j[n], i[n])
                /\ Pos(W(n), j'[n], i'[n]) = Pos(W(n), j[n], i[n]) + 1
<1> DEFINE lastSrc == i[n] = W(n)
           last == lastSrc /\ j[n] = Len(Row(n, k[n]).dsts)
<1>1. PICK a, b, q : a = i[n] /\ b = j[n] /\ q = Pos(W(n), j[n], i[n])
  OBVIOUS
<1>2. /\ i[n] \in 1 .. W(n) /\ k[n] \in 1 .. Len(Peers(n))
      /\ j[n] \in 1 .. Len(Row(n, k[n]).dsts)
  BY AddFacts
<1>3. W(n) \in Nat /\ W(n) >= 1 /\ Len(Row(n, k[n]).dsts) \in Nat
  BY <1>2, Sizes
<1>4. b \in Nat \ {0} /\ a \in Nat /\ a \in 1 .. W(n)
  BY <1>1, <1>2, <1>3
<1>5. (b - 1) * W(n) \in Nat /\ q \in Nat
  BY <1>1, <1>3, <1>4, PosIn
<1>6. /\ i' = [i EXCEPT ![n] = IF lastSrc THEN 1 ELSE @ + 1]
      /\ j' = [j EXCEPT ![n] = IF last THEN 1 ELSE IF lastSrc THEN @ + 1 ELSE @]
      /\ k' = [k EXCEPT ![n] = IF last THEN @ + 1 ELSE @]
  BY DEF AddSlot, W, Row
<1>7. i \in [Nodes -> Nat] /\ j \in [Nodes -> Nat] /\ k \in [Nodes -> Nat]
  BY DEF TableInv, Typed
<1>8. /\ i'[n] = IF lastSrc THEN 1 ELSE a + 1
      /\ j'[n] = IF last THEN 1 ELSE IF lastSrc THEN b + 1 ELSE b
      /\ k'[n] = IF last THEN k[n] + 1 ELSE k[n]
  BY <1>1, <1>6, <1>7
<1>9. ASSUME ~last PROVE j'[n] >= 1 /\ Pos(W(n), j'[n], i'[n]) = q + 1
  <2>1. CASE lastSrc
    <3>1. j'[n] = b + 1 /\ i'[n] = 1 /\ a = W(n)
      BY <1>1, <1>8, <1>9, <2>1
    <3>2. Pos(W(n), b + 1, 1) = Pos(W(n), b, W(n)) + 1
      BY <1>3, <1>4, PosFacts
    <3> QED BY <1>1, <1>4, <3>1, <3>2
  <2>2. CASE ~lastSrc
    <3>1. j'[n] = b /\ i'[n] = a + 1
      BY <1>8, <1>9, <2>2
    <3> QED BY <1>1, <1>4, <1>5, <3>1 DEF Pos
  <2> QED BY <2>1, <2>2
<1> QED BY <1>1, <1>5, <1>8, <1>9

\* The Conns of a node's earlier entries keep their slots while a slot is added.
LEMMA GrownKept ==
    ASSUME TableInv, GridInv, NEW n \in Nodes, AddSlot(n), NEW x \in 1 .. k[n] - 1, x # Self(n)
    PROVE  /\ Row(n, x).vip \in DOMAIN byVip[n]
           /\ Filled(n, byVip[n][Row(n, x).vip], x, W(n) * Len(Row(n, x).dsts))
           /\ \A c, len : c = byVip[n][Row(n, x).vip] /\ len = W(n) * Len(Row(n, x).dsts)
                => Filled(n, c, x, len)'
<1>1. /\ Row(n, x).vip \in DOMAIN byVip[n]
      /\ Filled(n, byVip[n][Row(n, x).vip], x, W(n) * Len(Row(n, x).dsts))
  BY DEF GridInv, Grown
<1>2. PICK c, len : c = byVip[n][Row(n, x).vip] /\ len = W(n) * Len(Row(n, x).dsts)
  OBVIOUS
<1>3. x \in 1 .. Len(Peers(n))
  <2>1. k[n] \in 1 .. Len(Peers(n)) /\ Len(Peers(n)) \in Nat
    BY AddFacts, Sizes
  <2> QED BY <2>1
<1>4. /\ W(n) \in Nat /\ W(n) >= 1 /\ Len(Row(n, x).dsts) \in Nat
  BY <1>3, Sizes
<1>5. /\ config' = config /\ Added(n, Len(allSlots[n]) + 1, At(n, k[n], j[n], i[n]))
  BY AddFacts
<1>6. PICK new, s : Added(n, new, s)
  BY <1>5
<1>7. Filled(n, c, x, len)
  BY <1>1, <1>2
<1>8. Filled(n, c, x, len)'
  BY <1>4, <1>5, <1>6, <1>7, AddedKeeps, FilledKept
<1> QED BY <1>1, <1>2, <1>8

LEMMA GridAdds ==
    ASSUME TableInv, GridInv, NEW n \in Nodes, AddSlot(n)
    PROVE  GridInv'
<1> DEFINE lastSrc == i[n] = W(n)
           last == lastSrc /\ j[n] = Len(Row(n, k[n]).dsts)
<1>1. /\ config' = config /\ pc' = pc /\ pc[n] = "build" /\ k[n] # Self(n)
      /\ k[n] \in 1 .. Len(Peers(n)) /\ i[n] \in 1 .. W(n)
      /\ j[n] \in 1 .. Len(Row(n, k[n]).dsts)
  BY AddFacts
<1>2. PICK c, new, q, a, b, x, d :
        /\ c = connSlots[n] /\ new = Len(allSlots[n]) + 1 /\ q = Pos(W(n), j[n], i[n])
        /\ a = i[n] /\ b = j[n] /\ x = k[n] /\ d = Append(c, new)
  OBVIOUS
<1>3. /\ x \in 1 .. Len(Peers(n)) /\ a \in 1 .. W(n) /\ b \in 1 .. Len(Row(n, x).dsts)
      /\ q = Pos(W(n), b, a)
  BY <1>1, <1>2
<1>4. Added(n, new, At(n, x, b, a)) /\ Filled(n, c, x, q - 1) /\ Longer(d, c, q, new)
  BY <1>2, AddFacts
<1>5. Filled(n, d, x, q)'
  BY <1>1, <1>3, <1>4, FilledMore
<1>6. /\ W(n) \in Nat /\ W(n) >= 1 /\ Len(Peers(n)) \in Nat /\ Len(Row(n, x).dsts) \in Nat
      /\ Len(Row(n, x).dsts) >= 1
  BY <1>3, Sizes
<1>7. /\ Peers(n)' = Peers(n) /\ Self(n)' = Self(n) /\ W(n)' = W(n)
      /\ \A y : Row(n, y)' = Row(n, y)
  BY <1>1, SameSections DEF W, Row
<1>8. /\ i' = [i EXCEPT ![n] = IF lastSrc THEN 1 ELSE @ + 1]
      /\ j' = [j EXCEPT ![n] = IF last THEN 1 ELSE IF lastSrc THEN @ + 1 ELSE @]
      /\ k' = [k EXCEPT ![n] = IF last THEN @ + 1 ELSE @]
      /\ connSlots' = [connSlots EXCEPT ![n] = IF last THEN <<>> ELSE d]
      /\ last => \E f \in Inserted(byVip[n], Row(n, x).vip, d) : byVip' = [byVip EXCEPT ![n] = f]
      /\ ~last => byVip' = byVip
      /\ allSlots' = [allSlots EXCEPT ![n] = Append(@, NewSlot(n, Peers(n)[k[n]]))]
  BY <1>2 DEF AddSlot, W, Row
<1>9. /\ i \in [Nodes -> Nat] /\ j \in [Nodes -> Nat] /\ k \in [Nodes -> Nat]
      /\ allSlots \in [Nodes -> Seq(Slot)]
      /\ connSlots = [m \in Nodes |-> connSlots[m]] /\ byVip = [m \in Nodes |-> byVip[m]]
  BY DEF TableInv, Typed, GridInv
<1>10. /\ i'[n] = IF lastSrc THEN 1 ELSE a + 1
       /\ j'[n] = IF last THEN 1 ELSE IF lastSrc THEN b + 1 ELSE b
       /\ k'[n] = IF last THEN x + 1 ELSE x
       /\ connSlots'[n] = IF last THEN <<>> ELSE d
  BY <1>2, <1>8, <1>9
<1>11. ASSUME NEW m \in Nodes, m # n PROVE Growing(m)' /\ Grown(m)'
  <2>1. /\ i'[m] = i[m] /\ j'[m] = j[m] /\ k'[m] = k[m] /\ connSlots'[m] = connSlots[m]
        /\ byVip'[m] = byVip[m] /\ allSlots'[m] = allSlots[m]
    BY <1>8, <1>9, <1>11
  <2>2. Growing(m) /\ Grown(m) /\ (pc'[m] = "run" => k[m] > Len(Peers(m)))
    BY <1>1 DEF GridInv, Growing
  <2> QED BY <1>1, <2>1, <2>2, GridSame
<1>12. connSlots' = [m \in Nodes |-> connSlots'[m]] /\ byVip' = [m \in Nodes |-> byVip'[m]]
  BY <1>8, <1>9
<1>13. CASE ~last
  <2>1. k'[n] = x /\ connSlots'[n] = d /\ byVip' = byVip
    BY <1>8, <1>10, <1>13
  <2>2. Pos(W(n), j'[n], i'[n]) - 1 = q /\ j'[n] >= 1
    BY <1>2, <1>13, CursorMoves
  <2>3. Growing(n)'
    <3>1. Filled(n, d, x, q)' /\ (Pos(W(n), j[n], i[n]) - 1)' = q
      BY <1>5, <1>7, <2>2 DEF Pos
    <3>2. k'[n] = x /\ k'[n] # Self(n) /\ x <= Len(Peers(n)) /\ pc'[n] # "run"
      BY <1>1, <1>2, <1>3, <1>6, <2>1
    <3>3. Filled(n, connSlots[n], k[n], Pos(W(n), j[n], i[n]) - 1)'
      BY <2>1, <3>1, <3>2
    <3>4. k'[n] <= Len(Peers(n)) + 1 /\ ~(k'[n] > Len(Peers(n)))
      BY <1>3, <1>6, <3>2
    <3> QED BY <1>7, <2>2, <3>2, <3>3, <3>4 DEF Growing
  <2>4. Grown(n)'
    <3>1. ASSUME NEW y \in 1 .. x - 1, y # Self(n)
          PROVE  /\ Row(n, y).vip \in DOMAIN byVip[n]
                 /\ Filled(n, byVip[n][Row(n, y).vip], y, W(n) * Len(Row(n, y).dsts))'
      <4>1. PICK cc, len : cc = byVip[n][Row(n, y).vip] /\ len = W(n) * Len(Row(n, y).dsts)
        OBVIOUS
      <4>2. Filled(n, cc, y, len)' /\ Row(n, y).vip \in DOMAIN byVip[n]
        BY <1>2, <3>1, <4>1, GrownKept
      <4>3. cc = byVip'[n][Row(n, y)'.vip] /\ len = W(n)' * Len(Row(n, y)'.dsts)
        BY <1>7, <2>1, <4>1
      <4> QED BY <4>2, <4>3
    <3>2. \A v \in DOMAIN byVip[n] : \E y \in 1 .. x - 1 : y # Self(n) /\ Row(n, y).vip = v
      BY <1>2 DEF GridInv, Grown
    <3> QED BY <1>7, <2>1, <3>1, <3>2 DEF Grown
  <2> QED BY <1>11, <1>12, <2>3, <2>4 DEF GridInv
<1>14. CASE last
  <2>1. k'[n] = x + 1 /\ connSlots'[n] = <<>> /\ j'[n] = 1 /\ i'[n] = 1
    BY <1>10, <1>14
  <2>2. q = W(n) * Len(Row(n, x).dsts)
    <3>1. b = Len(Row(n, x).dsts) /\ a = W(n) /\ Len(Row(n, x).dsts) \in Nat \ {0}
      BY <1>2, <1>6, <1>14
    <3> QED BY <1>3, <1>6, <3>1, PosFacts
  <2>3. Growing(n)'
    <3>1. Pos(W(n), 1, 1) - 1 = 0
      BY <1>6 DEF Pos
    <3>2. (Pos(W(n), j[n], i[n]) - 1)' = 0
      BY <1>7, <2>1, <3>1 DEF Pos
    <3>3. ASSUME k'[n] <= Len(Peers(n)) PROVE Filled(n, <<>>, k[n], 0)'
      <4>1. PICK y : y = x + 1
        OBVIOUS
      <4>2. y \in 1 .. Len(Peers(n))
        BY <1>3, <1>6, <2>1, <3>3, <4>1
      <4>3. Filled(n, <<>>, y, 0) /\ Len(Row(n, y).dsts) \in Nat
        BY <4>2, FilledNone, Sizes
      <4>4. PICK e, z : e = <<>> /\ z = 0
        OBVIOUS
      <4>5. Filled(n, e, y, z)
        BY <4>3, <4>4
      <4>6. Filled(n, e, y, z)'
        BY <1>1, <1>4, <1>6, <4>3, <4>5, AddedKeeps, FilledKept
      <4> QED BY <2>1, <4>1, <4>4, <4>6
    <3>4. k'[n] <= Len(Peers(n)) + 1 /\ pc'[n] # "run"
      BY <1>1, <1>3, <1>6, <2>1
    <3> QED BY <1>7, <2>1, <3>2, <3>3, <3>4 DEF Growing
  <2>4. Grown(n)'
    <3>1. PICK v : v = Row(n, x).vip
      OBVIOUS
    <3>2. PICK f \in Inserted(byVip[n], v, d) : byVip' = [byVip EXCEPT ![n] = f]
      BY <1>8, <1>14, <3>1
    <3>3. byVip'[n] = f
      BY <1>9, <3>2
    <3>4. \A y, z \in 1 .. Len(Peers(n)) : Row(n, y).vip = Row(n, z).vip => y = z
      <4>1. config \in Configs
        BY DEF TableInv, Typed
      <4> QED BY <4>1, SectionsAssumption DEF Row, Peers, SectionOk, OneEntry
    <3>5. \A y \in 1 .. x - 1 : y \in 1 .. Len(Peers(n)) /\ y # x
      BY <1>3, <1>6
    <3>6. v \notin DOMAIN byVip[n]
      <4> SUFFICES ASSUME v \in DOMAIN byVip[n] PROVE FALSE
        OBVIOUS
      <4>1. PICK y \in 1 .. x - 1 : Row(n, y).vip = v
        BY <1>2 DEF GridInv, Grown
      <4> QED BY <1>3, <3>1, <3>4, <3>5, <4>1
    <3>7. /\ DOMAIN f = DOMAIN byVip[n] \cup {v} /\ f[v] = d
          /\ \A u \in DOMAIN byVip[n] : f[u] = byVip[n][u]
      BY <3>2, <3>6 DEF Inserted
    <3>8. \A y \in 1 .. k'[n] - 1 : y = x \/ y \in 1 .. x - 1
      BY <1>3, <2>1
    <3>9. 1 .. x - 1 \subseteq 1 .. k'[n] - 1 /\ x \in 1 .. k'[n] - 1
      BY <1>3, <2>1
    <3>10. ASSUME NEW y \in 1 .. k'[n] - 1, y # Self(n)
           PROVE  /\ Row(n, y).vip \in DOMAIN f
                  /\ Filled(n, byVip[n][Row(n, y).vip], y, W(n) * Len(Row(n, y).dsts))'
      <4>1. CASE y = x
        <5>1. byVip'[n][Row(n, y)'.vip] = d /\ q = W(n)' * Len(Row(n, y)'.dsts)
          BY <1>7, <2>2, <3>1, <3>3, <3>7, <4>1
        <5> QED BY <1>5, <3>1, <3>7, <4>1, <5>1
      <4>2. CASE y \in 1 .. x - 1
        <5>1. PICK cc, len : cc = byVip[n][Row(n, y).vip] /\ len = W(n) * Len(Row(n, y).dsts)
          OBVIOUS
        <5>2. Filled(n, cc, y, len)' /\ Row(n, y).vip \in DOMAIN byVip[n]
          BY <1>2, <3>10, <4>2, <5>1, GrownKept
        <5>3. cc = byVip'[n][Row(n, y)'.vip] /\ len = W(n)' * Len(Row(n, y)'.dsts)
          BY <1>7, <3>3, <3>7, <5>1, <5>2
        <5> QED BY <3>7, <5>2, <5>3
      <4> QED BY <3>8, <4>1, <4>2
    <3>11. ASSUME NEW u \in DOMAIN f
           PROVE  \E y \in 1 .. k'[n] - 1 : y # Self(n) /\ Row(n, y).vip = u
      <4>1. CASE u = v
        BY <1>1, <1>2, <3>1, <3>9, <4>1
      <4>2. CASE u # v
        <5>1. PICK y \in 1 .. x - 1 : y # Self(n) /\ Row(n, y).vip = u
          BY <1>2, <3>7, <3>11, <4>2 DEF GridInv, Grown
        <5> QED BY <3>9, <5>1
      <4> QED BY <4>1, <4>2
    <3> QED BY <1>7, <3>3, <3>10, <3>11 DEF Grown
  <2> QED BY <1>11, <1>12, <2>3, <2>4 DEF GridInv
<1> QED BY <1>13, <1>14
\* Nothing is probed before the table is built.
Idle == \A n \in Nodes : pc[n] = "build" => probe[n] = 1

LEMMA IdleStep == TableInv /\ Idle /\ [Next]_vars => Idle'
<1> SUFFICES ASSUME TableInv, Idle, [Next]_vars PROVE Idle'
  OBVIOUS
<1>a. pc \in [Nodes -> {"build", "run"}] /\ probe \in [Nodes -> Nat]
  BY DEF TableInv, Typed
<1>1. ASSUME NEW n \in Nodes, SkipSelf(n) \/ AddSlot(n) \/ Built(n) \/ Probe(n) PROVE Idle'
  BY <1>a, <1>1 DEF SkipSelf, AddSlot, Built, Probe, runVars, Idle
<1>2. ASSUME NEW n \in Nodes, NEW d \in net, Receive(n, d) PROVE Idle'
  BY <1>2 DEF Receive, Idle
<1>3. CASE Lose \/ UNCHANGED vars
  BY <1>3 DEF Lose, vars, runVars, Idle
<1> QED BY <1>1, <1>2, <1>3 DEF Next

LEMMA GridStep == TableInv /\ GridInv /\ [Next]_vars => TableInv' /\ GridInv'
<1> SUFFICES ASSUME TableInv, GridInv, [Next]_vars PROVE GridInv'
  BY TableInvStep
<1>1. ASSUME NEW n \in Nodes, Built(n) PROVE GridInv'
  <2>1. /\ UNCHANGED <<config, k, j, i, connSlots, byVip, allSlots>>
        /\ pc' = [pc EXCEPT ![n] = "run"] /\ k[n] > Len(Peers(n))
    BY <1>1 DEF Built, buildVars
  <2>2. ASSUME NEW m \in Nodes PROVE Growing(m)' /\ Grown(m)'
    <3>1. pc \in [Nodes -> {"build", "run"}]
      BY DEF TableInv, Typed
    <3>2. Growing(m) /\ Grown(m) /\ (pc'[m] = "run" => k[m] > Len(Peers(m)))
      BY <2>1, <3>1 DEF GridInv, Growing
    <3> QED BY <2>1, <3>2, GridSame
  <2> QED BY <2>1, <2>2 DEF GridInv
<1>2. CASE UNCHANGED <<config, pc, buildVars>>
  <2>1. UNCHANGED <<config, pc, k, j, i, connSlots, byVip, allSlots>>
    BY <1>2 DEF buildVars
  <2>2. ASSUME NEW m \in Nodes PROVE Growing(m)' /\ Grown(m)'
    <3>1. Growing(m) /\ Grown(m) /\ (pc'[m] = "run" => k[m] > Len(Peers(m)))
      BY <2>1 DEF GridInv, Growing
    <3> QED BY <2>1, <3>1, GridSame
  <2> QED BY <2>1, <2>2 DEF GridInv
<1>3. ASSUME NEW n \in Nodes, Probe(n) PROVE GridInv'
  BY <1>2, <1>3 DEF Probe
<1>4. ASSUME NEW n \in Nodes, NEW d \in net, Receive(n, d) PROVE GridInv'
  BY <1>2, <1>4 DEF Receive
<1>5. CASE Lose \/ UNCHANGED vars
  BY <1>2, <1>5 DEF Lose, vars
<1> QED BY <1>1, <1>3, <1>4, <1>5, GridSkips, GridAdds DEF Next

\* The sequences of byVip_ are those of the grid.
LEMMA ConnsTyped ==
    ASSUME TableInv, GridInv, NEW n \in Nodes, NEW v \in DOMAIN byVip[n]
    PROVE  byVip[n][v] \in Seq(1 .. Len(allSlots[n]))
<1>1. PICK x \in 1 .. k[n] - 1 : x # Self(n) /\ Row(n, x).vip = v
  BY DEF GridInv, Grown
<1>2. PICK c, len : c = byVip[n][v] /\ len = W(n) * Len(Row(n, x).dsts)
  OBVIOUS
<1>3. Filled(n, c, x, len)
  BY <1>1, <1>2 DEF GridInv, Grown
<1>4. c \in Seq(Nat) /\ \A y \in 1 .. Len(c) : c[y] \in 1 .. Len(allSlots[n])
  BY <1>3 DEF Filled
<1>5. c \in [1 .. Len(c) -> Nat] /\ Len(c) \in Nat
  BY <1>4, LenProperties
<1>6. c \in [1 .. Len(c) -> 1 .. Len(allSlots[n])]
  BY <1>4, <1>5
<1> QED BY <1>2, <1>5, <1>6, SeqDef

LEMMA TypesHold == TableInv /\ GridInv /\ Idle => TypeOK
<1> SUFFICES ASSUME TableInv, GridInv, Idle PROVE TypeOK
  OBVIOUS
<1>1. ASSUME NEW n \in Nodes
      PROVE  /\ k[n] \in 1 .. Len(Peers(n)) + 1
             /\ i[n] \in 1 .. Len(Srcs(n)) /\ j[n] \in Nat \ {0}
             /\ \A x \in DOMAIN byEntry[n] : byEntry[n][x] \in 1 .. Len(allSlots[n])
             /\ \A v \in DOMAIN byVip[n] : byVip[n][v] \in Seq(1 .. Len(allSlots[n]))
             /\ probe[n] \in IF pc[n] = "run" /\ allSlots[n] # <<>>
                             THEN 1 .. Len(allSlots[n]) ELSE {1}
             /\ heard[n] \subseteq 1 .. Len(allSlots[n])
  <2>1. /\ k[n] \in Nat /\ j[n] \in Nat /\ allSlots[n] \in Seq(Slot) /\ probe[n] \in Nat
        /\ pc[n] \in {"build", "run"}
    BY DEF TableInv, Typed
  <2>2. Len(Peers(n)) \in Nat /\ Len(allSlots[n]) \in Nat
    BY <2>1, Sizes
  <2>3. k[n] \in 1 .. Len(Peers(n)) + 1
    BY <2>1, <2>2 DEF TableInv, Cursor, GridInv, Growing
  <2>4. i[n] \in 1 .. Len(Srcs(n)) /\ j[n] \in Nat \ {0}
    BY <2>1 DEF TableInv, Cursor, GridInv, Growing
  <2>5. probe[n] \in IF pc[n] = "run" /\ allSlots[n] # <<>> THEN 1 .. Len(allSlots[n]) ELSE {1}
    <3>1. allSlots[n] # <<>> => Len(allSlots[n]) >= 1
      BY <2>1, <2>2, EmptySeq
    <3>2. allSlots[n] = <<>> => Len(allSlots[n]) = 0
      OBVIOUS
    <3>3. probe[n] >= 1 /\ (probe[n] = 1 \/ probe[n] <= Len(allSlots[n]))
      BY DEF TableInv, ProbeInside
    <3>4. pc[n] = "build" => probe[n] = 1
      BY DEF Idle
    <3> QED BY <2>1, <2>2, <3>1, <3>2, <3>3, <3>4
  <2>6. /\ \A x \in DOMAIN byEntry[n] : byEntry[n][x] \in 1 .. Len(allSlots[n])
        /\ heard[n] \subseteq 1 .. Len(allSlots[n])
    BY DEF TableInv, EntryRight, HeardInside
  <2> QED BY <2>3, <2>4, <2>5, <2>6, ConnsTyped
<1>2. /\ config \in Configs /\ pc \in [Nodes -> {"build", "run"}]
      /\ allSlots \in [Nodes -> Seq(Slot)] /\ net \subseteq sent
  BY DEF TableInv, Typed
<1> QED BY <1>1, <1>2 DEF TypeOK

\* A running node's Conns are complete.
LEMMA GridComplete ==
    ASSUME TableInv, GridInv, NEW n \in Nodes, pc[n] = "run",
           NEW x \in 1 .. Len(Peers(n)), x # Self(n)
    PROVE  /\ Row(n, x).vip \in DOMAIN byVip[n]
           /\ Filled(n, byVip[n][Row(n, x).vip], x, W(n) * Len(Row(n, x).dsts))
<1>1. x \in 1 .. k[n] - 1
  <2>1. k[n] > Len(Peers(n)) /\ k[n] \in Nat /\ Len(Peers(n)) \in Nat
    BY Sizes DEF GridInv, Growing, TableInv, Typed
  <2> QED BY <2>1
<1> QED BY <1>1 DEF GridInv, Grown

LEMMA GridMeans == TableInv /\ GridInv /\ Idle => SlotGrid
<1> SUFFICES ASSUME TableInv, GridInv, Idle PROVE SlotGrid
  OBVIOUS
<1>1. TypeOK
  BY TypesHold
<1>2. ASSUME NEW n \in Nodes, pc[n] = "run", NEW x \in 1 .. Len(Peers(n)), x # Self(n)
      PROVE  /\ Len(byVip[n][Peers(n)[x].vip]) = Len(Srcs(n)) * Len(Peers(n)[x].dsts)
             /\ \A jj \in 1 .. Len(Peers(n)[x].dsts), ii \in 1 .. Len(Srcs(n)) :
                  allSlots[n][byVip[n][Peers(n)[x].vip][(jj - 1) * Len(Srcs(n)) + ii]] =
                    [src |-> Srcs(n)[ii], srcIdx |-> ii, dst |-> Peers(n)[x].dsts[jj],
                     vip |-> Peers(n)[x].vip]
  <2>1. PICK c, M, w, len :
          /\ c = byVip[n][Peers(n)[x].vip] /\ M = Len(Peers(n)[x].dsts)
          /\ w = Len(Srcs(n)) /\ len = w * M
    OBVIOUS
  <2>2. Filled(n, c, x, len)
    BY <1>2, <2>1, GridComplete DEF Row, W
  <2>3. w \in Nat /\ w >= 1 /\ M \in Nat /\ M >= 1
    BY <1>2, <2>1, Sizes DEF W, Row
  <2>4. ASSUME NEW jj \in 1 .. M, NEW ii \in 1 .. w PROVE Pos(w, jj, ii) <= len
    <3>1. M \in Nat \ {0}
      BY <2>3
    <3>2. Pos(w, jj, ii) <= Pos(w, M, w) /\ Pos(w, M, w) = w * M
      BY <2>3, <3>1, PosFacts
    <3> QED BY <2>1, <3>2
  <2>5. \A jj \in 1 .. M, ii \in 1 .. w : allSlots[n][c[Pos(w, jj, ii)]] = At(n, x, jj, ii)
    BY <1>2, <2>1, <2>2, <2>4 DEF Filled, W, Row
  <2>6. Len(c) = len
    BY <2>2 DEF Filled
  <2>7. \A jj \in 1 .. M, ii \in 1 .. w :
          allSlots[n][c[(jj - 1) * w + ii]] =
            [src |-> Srcs(n)[ii], srcIdx |-> ii, dst |-> Peers(n)[x].dsts[jj],
             vip |-> Peers(n)[x].vip]
    BY <2>5 DEF Pos, At, Row
  <2> QED BY <2>1, <2>6, <2>7
<1> QED BY <1>1, <1>2 DEF SlotGrid

(* Types are kept and the slots of every Conn are the grid of sockets and   *)
(* endpoints in the order next() and sendUso count on ("Slots [j*N + i]",   *)
(* conn.cpp), whatever the sections list and in whatever order.             *)
THEOREM GridIsBuilt == Spec => []SlotGrid
<1>1. Init => TableInv /\ GridInv /\ Idle
  BY GridInit DEF Init, Idle
<1>2. TableInv /\ GridInv /\ Idle /\ [Next]_vars => TableInv' /\ GridInv' /\ Idle'
  BY GridStep, IdleStep
<1> QED BY <1>1, <1>2, GridMeans, PTL DEF Spec
-----------------------------------------------------------------------------
(* Reach.                                                                   *)

\* Socket ii and endpoint jj of entry x have had their round.
Done(n, x, jj, ii) ==
    /\ x \in 1 .. Len(Peers(n)) /\ x # Self(n)
    /\ jj \in 1 .. Len(Row(n, x).dsts) /\ ii \in 1 .. W(n)
    /\ \/ x < k[n]
       \/ x = k[n] /\ Pos(W(n), jj, ii) < Pos(W(n), j[n], i[n])

\* Slot y comes from a round, and byEntry_ has its key and leads to it.
Origin(n, y) == \E x, jj, ii : Done(n, x, jj, ii) /\ allSlots[n][y] = At(n, x, jj, ii)

Found(n, y) ==
    LET s == allSlots[n][y]
        key == EntryKey(s.srcIdx, s.dst)
    IN  key \in DOMAIN byEntry[n] /\ byEntry[n][key] = y

Reach == \A n \in Nodes : \A y \in 1 .. Len(allSlots[n]) : Origin(n, y) /\ Found(n, y)

\* What has been done stays done.
LEMMA ReachSame ==
    ASSUME TableInv, Reach, NEW m \in Nodes, config' = config,
           k'[m] = k[m], j'[m] = j[m], i'[m] = i[m], allSlots'[m] = allSlots[m],
           byEntry'[m] = byEntry[m], NEW y \in 1 .. Len(allSlots'[m])
    PROVE  Origin(m, y)' /\ Found(m, y)'
<1>1. Origin(m, y) /\ Found(m, y)
  BY DEF Reach
<1>2. PICK x, jj, ii : Done(m, x, jj, ii) /\ allSlots[m][y] = At(m, x, jj, ii)
  BY <1>1 DEF Origin
<1>3. Done(m, x, jj, ii)' /\ At(m, x, jj, ii)' = At(m, x, jj, ii)
  BY <1>2, SameSections DEF Done, At, Row, W, Pos
<1>4. Origin(m, y)'
  BY <1>2, <1>3 DEF Origin
<1>5. Found(m, y)'
  BY <1>1 DEF Found, EntryKey
<1> QED BY <1>4, <1>5

LEMMA ReachSkips ==
    ASSUME TableInv, Reach, NEW n \in Nodes, SkipSelf(n)
    PROVE  Reach'
<1>1. /\ config' = config /\ j' = j /\ i' = i /\ allSlots' = allSlots /\ byEntry' = byEntry
      /\ k' = [k EXCEPT ![n] = @ + 1] /\ k[n] = Self(n) /\ k \in [Nodes -> Nat]
  BY DEF SkipSelf, TableInv, Typed
<1>2. ASSUME NEW m \in Nodes, m # n, NEW y \in 1 .. Len(allSlots'[m])
      PROVE  Origin(m, y)' /\ Found(m, y)'
  <2>1. k'[m] = k[m]
    BY <1>1, <1>2
  <2> QED BY <1>1, <1>2, <2>1, ReachSame
<1>3. ASSUME NEW y \in 1 .. Len(allSlots'[n]) PROVE Origin(n, y)' /\ Found(n, y)'
  <2>1. Origin(n, y) /\ Found(n, y)
    BY <1>1, <1>3 DEF Reach
  <2>2. PICK x, jj, ii : Done(n, x, jj, ii) /\ allSlots[n][y] = At(n, x, jj, ii)
    BY <2>1 DEF Origin
  <2>3. x < k'[n]
    <3>1. x < k[n] /\ k'[n] = k[n] + 1 /\ k[n] \in Nat
      BY <1>1, <2>2 DEF Done
    <3>2. x \in Nat
      BY <2>2, Sizes DEF Done
    <3> QED BY <3>1, <3>2
  <2>4. Done(n, x, jj, ii)' /\ At(n, x, jj, ii)' = At(n, x, jj, ii)
    BY <1>1, <2>2, <2>3, SameSections DEF Done, At, Row, W
  <2>5. Origin(n, y)'
    BY <1>1, <2>2, <2>4 DEF Origin
  <2>6. Found(n, y)'
    BY <1>1, <2>1 DEF Found, EntryKey
  <2> QED BY <2>5, <2>6
<1> QED BY <1>2, <1>3 DEF Reach

\* No slot so far has the key of the slot of this round.
LEMMA KeyIsNew ==
    ASSUME UniqueIps, OneCluster, TableInv, GridInv, Reach, NEW n \in Nodes, AddSlot(n)
    PROVE  EntryKey(i[n], Row(n, k[n]).dsts[j[n]]) \notin DOMAIN byEntry[n]
<1> SUFFICES ASSUME EntryKey(i[n], Row(n, k[n]).dsts[j[n]]) \in DOMAIN byEntry[n] PROVE FALSE
  OBVIOUS
<1>1. /\ k[n] \in 1 .. Len(Peers(n)) /\ i[n] \in 1 .. W(n)
      /\ j[n] \in 1 .. Len(Row(n, k[n]).dsts)
  BY AddFacts
<1>2. PICK y \in 1 .. Len(allSlots[n]) :
        EntryKey(allSlots[n][y].srcIdx, allSlots[n][y].dst)
          = EntryKey(i[n], Row(n, k[n]).dsts[j[n]])
  BY DEF TableInv, EntryRight
<1>3. PICK x, jj, ii : Done(n, x, jj, ii) /\ allSlots[n][y] = At(n, x, jj, ii)
  BY DEF Reach, Origin
<1>4. /\ x \in 1 .. Len(Peers(n)) /\ jj \in 1 .. Len(Row(n, x).dsts)
      /\ (x < k[n] \/ (x = k[n] /\ Pos(W(n), jj, ii) < Pos(W(n), j[n], i[n])))
  BY <1>3 DEF Done
<1>5. ii = i[n] /\ Row(n, x).dsts[jj].ip = Row(n, k[n]).dsts[j[n]].ip
  BY <1>2, <1>3 DEF At, EntryKey
<1>6. Row(n, x).dsts[jj] \in Endpoints /\ Row(n, k[n]).dsts[j[n]] \in Endpoints
  <2>1. Typed
    BY DEF TableInv
  <2>2. Row(n, x).dsts \in Seq(Endpoints) /\ Row(n, k[n]).dsts \in Seq(Endpoints)
    BY <1>1, <1>4, <2>1, SelfFacts DEF Row
  <2> QED BY <1>1, <1>4, <2>2, ElementOfSeq
<1>7. Row(n, x).dsts[jj] = Row(n, k[n]).dsts[j[n]]
  BY <1>5, <1>6 DEF UniqueIps
<1>8. config \in Configs
  BY DEF TableInv, Typed
<1>9. x = k[n] /\ jj = j[n]
  <2>1. \A z, w \in 1 .. Len(Peers(n)) :
          \A a \in 1 .. Len(Peers(n)[z].dsts), b \in 1 .. Len(Peers(n)[w].dsts) :
            Peers(n)[z].dsts[a] = Peers(n)[w].dsts[b] => z = w /\ a = b
    BY <1>8 DEF OneCluster, Peers
  <2> QED BY <1>1, <1>4, <1>7, <2>1 DEF Row
<1>10. Pos(W(n), j[n], i[n]) \in Nat /\ k[n] \in Nat
  <2>1. W(n) \in Nat /\ Len(Row(n, k[n]).dsts) \in Nat
    BY <1>1, Sizes
  <2>2. j[n] \in Nat \ {0}
    BY <1>1, <2>1
  <2>3. k[n] \in Nat
    BY DEF TableInv, Typed
  <2> QED BY <1>1, <2>1, <2>2, <2>3, PosIn
<1> QED BY <1>4, <1>5, <1>9, <1>10

LEMMA ReachAdds ==
    ASSUME UniqueIps, OneCluster, TableInv, GridInv, Reach, NEW n \in Nodes, AddSlot(n)
    PROVE  Reach'
<1>1. PICK new, a, b, x, s, key :
        /\ new = Len(allSlots[n]) + 1 /\ a = i[n] /\ b = j[n] /\ x = k[n]
        /\ s = At(n, x, b, a) /\ key = EntryKey(a, Row(n, x).dsts[b])
  OBVIOUS
<1>2. /\ config' = config /\ x # Self(n) /\ x \in 1 .. Len(Peers(n)) /\ a \in 1 .. W(n)
      /\ b \in 1 .. Len(Row(n, x).dsts) /\ Added(n, new, s)
  BY <1>1, AddFacts
<1>3. s.srcIdx = a /\ s.dst = Row(n, x).dsts[b]
  BY <1>1 DEF At
<1>4. NewSlot(n, Peers(n)[k[n]]) = s
  BY <1>1 DEF NewSlot, At, Row
<1>5. /\ allSlots' = [allSlots EXCEPT ![n] = Append(@, s)]
      /\ \E f \in Inserted(byEntry[n], EntryKey(s.srcIdx, s.dst), new) :
            byEntry' = [byEntry EXCEPT ![n] = f]
      /\ \A m \in Nodes : m # n => k'[m] = k[m] /\ j'[m] = j[m] /\ i'[m] = i[m]
  <2>1. i \in [Nodes -> Nat] /\ j \in [Nodes -> Nat] /\ k \in [Nodes -> Nat]
    BY DEF TableInv, Typed
  <2> QED BY <1>1, <1>4, <2>1 DEF AddSlot
<1>6. PICK f \in Inserted(byEntry[n], key, new) : byEntry' = [byEntry EXCEPT ![n] = f]
  BY <1>1, <1>3, <1>5
<1>7. /\ allSlots \in [Nodes -> Seq(Slot)] /\ byEntry = [m \in Nodes |-> byEntry[m]]
  BY DEF TableInv, Typed
<1>8. byEntry'[n] = f /\ \A m \in Nodes : m # n => byEntry'[m] = byEntry[m]
  BY <1>6, <1>7
<1>9. /\ key \notin DOMAIN byEntry[n] /\ DOMAIN f = DOMAIN byEntry[n] \cup {key} /\ f[key] = new
      /\ \A z \in DOMAIN byEntry[n] : f[z] = byEntry[n][z]
  BY <1>1, <1>6, KeyIsNew DEF Inserted
<1>10. ASSUME NEW m \in Nodes, m # n, NEW y \in 1 .. Len(allSlots'[m])
       PROVE  Origin(m, y)' /\ Found(m, y)'
  <2>1. allSlots'[m] = allSlots[m]
    BY <1>5, <1>7, <1>10
  <2> QED BY <1>2, <1>5, <1>8, <1>10, <2>1, ReachSame
<1>11. ASSUME NEW e, NEW jj, NEW ii, Done(n, e, jj, ii) \/ (e = x /\ jj = b /\ ii = a)
       PROVE  Done(n, e, jj, ii)' /\ At(n, e, jj, ii)' = At(n, e, jj, ii)
  <2>1. /\ e \in 1 .. Len(Peers(n)) /\ e # Self(n)
        /\ jj \in 1 .. Len(Row(n, e).dsts) /\ ii \in 1 .. W(n)
        /\ e < k[n] \/ (e = k[n] /\ Pos(W(n), jj, ii) <= Pos(W(n), j[n], i[n]))
    <3>1. Pos(W(n), b, a) \in Nat
      <4>1. W(n) \in Nat /\ Len(Row(n, x).dsts) \in Nat
        BY <1>2, Sizes
      <4>2. b \in Nat \ {0}
        BY <1>2, <4>1
      <4> QED BY <1>2, <4>1, <4>2, PosIn
    <3>2. CASE e = x /\ jj = b /\ ii = a
      BY <1>1, <1>2, <3>1, <3>2
    <3>3. CASE Done(n, e, jj, ii)
      <4>1. W(n) \in Nat /\ Len(Row(n, e).dsts) \in Nat
        BY <3>3, Sizes DEF Done
      <4>2. jj \in Nat \ {0} /\ ii \in 1 .. W(n)
        BY <3>3, <4>1 DEF Done
      <4>3. Pos(W(n), jj, ii) \in Nat
        BY <4>1, <4>2, PosIn
      <4> QED BY <1>1, <3>1, <3>3, <4>3 DEF Done
    <3> QED BY <1>11, <3>2, <3>3
  <2>2. /\ e \in Nat /\ k[n] \in Nat
    BY <1>1, <1>2, <2>1, Sizes
  <2>3. e < k'[n] \/ (e = k'[n] /\ Pos(W(n), jj, ii) < Pos(W(n), j'[n], i'[n]))
    <3>1. Pos(W(n), jj, ii) \in Nat
      <4>1. W(n) \in Nat /\ Len(Row(n, e).dsts) \in Nat
        BY <2>1, Sizes
      <4>2. jj \in Nat \ {0}
        BY <2>1, <4>1
      <4> QED BY <2>1, <4>1, <4>2, PosIn
    <3>2. CASE a = W(n) /\ b = Len(Row(n, x).dsts)
      <4>1. k'[n] = k[n] + 1
        BY <1>1, <3>2, CursorMoves
      <4> QED BY <2>1, <2>2, <4>1
    <3>3. CASE ~(a = W(n) /\ b = Len(Row(n, x).dsts))
      <4>1. /\ k'[n] = k[n] /\ Pos(W(n), j[n], i[n]) \in Nat
            /\ Pos(W(n), j'[n], i'[n]) = Pos(W(n), j[n], i[n]) + 1
        BY <1>1, <3>3, CursorMoves
      <4> QED BY <2>1, <2>2, <3>1, <4>1
    <3> QED BY <3>2, <3>3
  <2> QED BY <1>2, <2>1, <2>3, SameSections DEF Done, At, Row, W, Pos
<1>12. ASSUME NEW y \in 1 .. Len(allSlots'[n]) PROVE Origin(n, y)' /\ Found(n, y)'
  <2>0. Len(allSlots[n]) \in Nat /\ Len(allSlots'[n]) = new
    BY <1>2 DEF Added
  <2>1. CASE y = new
    <3>1. allSlots'[n][y] = s
      BY <1>2, <2>1 DEF Added
    <3>2. Origin(n, y)'
      BY <1>1, <1>11, <3>1 DEF Origin
    <3>3. Found(n, y)'
      BY <1>1, <1>3, <1>8, <1>9, <2>1, <3>1 DEF Found, EntryKey
    <3> QED BY <3>2, <3>3
  <2>2. CASE y # new
    <3>1. y \in 1 .. Len(allSlots[n])
      BY <1>1, <2>0, <2>2
    <3>2. allSlots'[n][y] = allSlots[n][y]
      BY <1>2, <3>1 DEF Added
    <3>3. Origin(n, y) /\ Found(n, y)
      BY <3>1 DEF Reach
    <3>4. Origin(n, y)'
      <4>1. PICK e, jj, ii : Done(n, e, jj, ii) /\ allSlots[n][y] = At(n, e, jj, ii)
        BY <3>3 DEF Origin
      <4> QED BY <1>11, <3>2, <4>1 DEF Origin
    <3>5. Found(n, y)'
      BY <1>8, <1>9, <3>2, <3>3 DEF Found, EntryKey
    <3> QED BY <3>4, <3>5
  <2> QED BY <2>1, <2>2
<1> QED BY <1>10, <1>12 DEF Reach
LEMMA ReachStep ==
    ASSUME UniqueIps, OneCluster, TableInv, GridInv, Reach, [Next]_vars
    PROVE  Reach'
<1>1. ASSUME UNCHANGED <<config, buildVars>> PROVE Reach'
  <2>1. UNCHANGED <<config, k, j, i, allSlots, byEntry>>
    BY <1>1 DEF buildVars
  <2> SUFFICES ASSUME NEW m \in Nodes, NEW y \in 1 .. Len(allSlots'[m])
               PROVE  Origin(m, y)' /\ Found(m, y)'
    BY DEF Reach
  <2> QED BY <2>1, ReachSame
<1>2. ASSUME NEW n \in Nodes, Built(n) \/ Probe(n) PROVE Reach'
  BY <1>1, <1>2 DEF Built, Probe
<1>3. ASSUME NEW n \in Nodes, NEW d \in net, Receive(n, d) PROVE Reach'
  BY <1>1, <1>3 DEF Receive
<1>4. CASE Lose \/ UNCHANGED vars
  BY <1>1, <1>4 DEF Lose, vars
<1> QED BY <1>2, <1>3, <1>4, ReachSkips, ReachAdds DEF Next

(* The peer's table has the slot of the reverse path: its section lists the *)
(* same two endpoints, one of them its own, and its grid is complete.       *)
LEMMA ReverseSlot ==
    ASSUME OneCluster, TableInv, GridInv, Reach, NEW n \in Nodes, NEW m \in Nodes,
           pc[m] = "run", NEW x \in 1 .. Len(allSlots[n]), allSlots[n][x].vip = m
    PROVE  \E y \in 1 .. Len(allSlots[m]) :
             allSlots[m][y].src = allSlots[n][x].dst /\ allSlots[m][y].dst = allSlots[n][x].src
<1>1. PICK e, jj, ii : Done(n, e, jj, ii) /\ allSlots[n][x] = At(n, e, jj, ii)
  BY DEF Reach, Origin
<1>2. /\ e \in 1 .. Len(Peers(n)) /\ e # Self(n) /\ jj \in 1 .. Len(Row(n, e).dsts)
      /\ ii \in 1 .. W(n) /\ Row(n, e).vip = m
      /\ allSlots[n][x].dst = Row(n, e).dsts[jj] /\ allSlots[n][x].src = Srcs(n)[ii]
  BY <1>1 DEF Done, At
<1>3. config \in Configs /\ Typed
  BY DEF TableInv, Typed
<1>4. \A u \in Nodes :
        /\ Self(u) \in 1 .. Len(Peers(u)) /\ Peers(u)[Self(u)].vip = u
        /\ \A z, w \in 1 .. Len(Peers(u)) : Peers(u)[z].vip = Peers(u)[w].vip => z = w
  <2> TAKE u \in Nodes
  <2>1. /\ \E z \in 1 .. Len(Peers(u)) : Peers(u)[z].vip = u
        /\ \A z, w \in 1 .. Len(Peers(u)) : Peers(u)[z].vip = Peers(u)[w].vip => z = w
    BY <1>3, SectionsAssumption DEF Peers, SectionOk, HasSelf, OneEntry
  <2> QED BY <2>1 DEF Self
<1>5. m # n
  BY <1>2, <1>4 DEF Row
<1>6. allSlots[n][x].dst \in Endpoints /\ allSlots[n][x].src \in Endpoints
  <2>1. Row(n, e).dsts \in Seq(Endpoints) /\ Srcs(n) \in Seq(Endpoints)
    BY <1>2, <1>3, SelfFacts DEF Row
  <2> QED BY <1>2, <2>1, ElementOfSeq DEF W
<1>7. m \in Vips /\ n \in Vips
  BY ConfigsAssumption
<1>8. Lists(Peers(m), m, allSlots[n][x].dst)
  <2>1. Lists(Peers(n), m, allSlots[n][x].dst)
    BY <1>2 DEF Lists, Row
  <2> QED BY <1>3, <1>6, <1>7, <2>1 DEF OneCluster, Peers
<1>9. Lists(Peers(m), n, allSlots[n][x].src)
  <2>1. Lists(Peers(n), n, allSlots[n][x].src)
    BY <1>2, <1>4 DEF Lists, Srcs, W
  <2> QED BY <1>3, <1>6, <1>7, <2>1 DEF OneCluster, Peers
<1>10. PICK a \in 1 .. W(m) : Srcs(m)[a] = allSlots[n][x].dst
  <2>1. PICK z \in 1 .. Len(Peers(m)) : /\ Peers(m)[z].vip = m
                                       /\ \E a \in 1 .. Len(Peers(m)[z].dsts) :
                                            Peers(m)[z].dsts[a] = allSlots[n][x].dst
    BY <1>8 DEF Lists
  <2>2. z = Self(m)
    BY <1>4, <2>1
  <2> QED BY <2>1, <2>2 DEF Srcs, W
<1>11. PICK z \in 1 .. Len(Peers(m)) :
          Row(m, z).vip = n /\ \E b \in 1 .. Len(Row(m, z).dsts) : Row(m, z).dsts[b] = allSlots[n][x].src
  BY <1>9 DEF Lists, Row
<1>12. PICK b \in 1 .. Len(Row(m, z).dsts) : Row(m, z).dsts[b] = allSlots[n][x].src
  BY <1>11
<1>13. z # Self(m)
  BY <1>4, <1>5, <1>11 DEF Row
<1>14. PICK c, len : c = byVip[m][Row(m, z).vip] /\ len = W(m) * Len(Row(m, z).dsts)
  OBVIOUS
<1>15. Filled(m, c, z, len)
  BY <1>13, <1>14, GridComplete
<1>16. /\ W(m) \in Nat /\ W(m) >= 1 /\ Len(Row(m, z).dsts) \in Nat \ {0}
       /\ b \in Nat \ {0} /\ len \in Nat
  <2>1. W(m) \in Nat /\ W(m) >= 1 /\ Len(Row(m, z).dsts) \in Nat /\ Len(Row(m, z).dsts) >= 1
    BY Sizes
  <2>2. PICK M : M = Len(Row(m, z).dsts)
    OBVIOUS
  <2>3. M \in Nat \ {0} /\ b \in Nat \ {0}
    BY <2>1, <2>2
  <2>4. W(m) * M \in Nat
    BY <2>1, <2>3
  <2> QED BY <1>14, <2>1, <2>2, <2>3, <2>4
<1>17. PICK q : q = Pos(W(m), b, a)
  OBVIOUS
<1>18. q \in Nat \ {0} /\ q <= len
  <2>1. Pos(W(m), b, a) <= Pos(W(m), Len(Row(m, z).dsts), W(m))
    BY <1>16, PosFacts
  <2>2. Pos(W(m), Len(Row(m, z).dsts), W(m)) = len
    BY <1>14, <1>16, PosFacts
  <2> QED BY <1>16, <1>17, <2>1, <2>2, PosIn
<1>19. c[q] \in 1 .. Len(allSlots[m]) /\ allSlots[m][c[q]] = At(m, z, b, a)
  <2>1. q \in 1 .. Len(c)
    BY <1>15, <1>16, <1>18 DEF Filled
  <2> QED BY <1>15, <1>17, <1>18, <2>1 DEF Filled
<1>20. At(m, z, b, a).src = allSlots[n][x].dst /\ At(m, z, b, a).dst = allSlots[n][x].src
  BY <1>10, <1>12 DEF At
<1> QED BY <1>19, <1>20

LEMMA ReachMeans ==
    ASSUME OneCluster, TableInv, GridInv, Reach
    PROVE  EverySlotReached
<1> SUFFICES ASSUME NEW n \in Nodes, NEW m \in Nodes, pc[n] = "run", pc[m] = "run",
                    NEW x \in 1 .. Len(allSlots[n]), allSlots[n][x].vip = m
             PROVE  \E y \in 1 .. Len(allSlots[m]) :
                      /\ Srcs(n)[allSlots[n][x].srcIdx] = Datagram(m, y).dst
                      /\ LookupSlot(n, allSlots[n][x].srcIdx, Datagram(m, y).src) = {x}
  BY DEF EverySlotReached
<1>1. PICK y \in 1 .. Len(allSlots[m]) :
        allSlots[m][y].src = allSlots[n][x].dst /\ allSlots[m][y].dst = allSlots[n][x].src
  BY ReverseSlot
<1>2. Datagram(m, y).src = allSlots[n][x].dst /\ Datagram(m, y).dst = allSlots[n][x].src
  BY <1>1 DEF Datagram
<1>3. Srcs(n)[allSlots[n][x].srcIdx] = allSlots[n][x].src
  BY DEF TableInv, SlotSrc
<1>4. LookupSlot(n, allSlots[n][x].srcIdx, allSlots[n][x].dst) = {x}
  BY DEF Reach, Found, LookupSlot
<1> QED BY <1>2, <1>3, <1>4

(* In a cluster whose endpoints differ in their IPs and whose nodes list    *)
(* the same table, no slot is beyond the reach of the peer's probes: there  *)
(* is a slot on the peer whose datagrams lookupSlot takes back to just this *)
(* slot, in whatever order either section lists the entries.                *)
THEOREM SlotsAreReached ==
    ASSUME UniqueIps, OneCluster
    PROVE  Spec => []EverySlotReached
<1>1. Init => TableInv /\ GridInv /\ Reach
  <2> SUFFICES ASSUME Init PROVE Reach
    BY GridInit
  <2> QED BY DEF Init, Reach
<1>2. TableInv /\ GridInv /\ Reach /\ [Next]_vars => TableInv' /\ GridInv' /\ Reach'
  BY GridStep, ReachStep
<1>3. TableInv /\ GridInv /\ Reach => EverySlotReached
  BY ReachMeans
<1> QED BY <1>1, <1>2, <1>3, PTL DEF Spec

=============================================================================
