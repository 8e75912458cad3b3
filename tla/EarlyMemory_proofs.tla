-------------------------- MODULE EarlyMemory_proofs --------------------------
(***************************************************************************)
(* For any memory, firmware device, frame buffer, carveouts and windows:   *)
(* the hand-off blocks stay disjoint, describe every page of memory and    *)
(* nothing else, and a region that is asked for is reserved unless         *)
(* something is in its way.                                                *)
(*                                                                         *)
(* The argument: every region of memory that neither the firmware device   *)
(* nor a region asked for so far collides with lies in one block of system *)
(* memory (CoveredBy), since a block is only ever cut at the edges of      *)
(* those.  A page is a region of length one that nothing can cut, so the   *)
(* lemmas of that argument also say that no page is lost.                  *)
(***************************************************************************)
EXTENDS EarlyMemory, TLAPS, WellFoundedInduction, SequenceTheorems

Hobs == [type : {"system", "reserved"}, base : Nat, len : Nat]

Disjoint(l) == \A i, j \in DOMAIN l : i # j => ~Meets(l[i], l[j])

LEMMA HobFacts ==
  ASSUME NEW t \in {"system", "reserved"}, NEW b \in Nat, NEW n \in Nat
  PROVE  /\ Hob(t, b, n) \in Hobs
         /\ Hob(t, b, n).type = t /\ Hob(t, b, n).base = b /\ Hob(t, b, n).len = n
  BY DEF Hob, Hobs

LEMMA ListFacts ==
  ASSUME NEW l \in Seq(Hobs), NEW k \in DOMAIN l
  PROVE  /\ l[k] \in Hobs /\ l[k].type \in {"system", "reserved"}
         /\ l[k].base \in Nat /\ l[k].len \in Nat /\ Within(l[k], l[k])
  <1>1. l[k] \in Hobs
    OBVIOUS
  <1>2. l[k].type \in {"system", "reserved"} /\ l[k].base \in Nat /\ l[k].len \in Nat
    BY <1>1 DEF Hobs
  <1> QED BY <1>1, <1>2 DEF Within, Top

\* The search finds a block if there is one.
LEMMA HolderFound ==
  ASSUME NEW l \in Seq(Hobs), NEW r \in Regions, Holders(l, r) # {}
  PROVE  Holder(l, r) \in Holders(l, r)
  <1>1. Holders(l, r) \subseteq Nat
    BY DEF Holders
  <1>w. IsWellFoundedOn(OpToRel(<, Nat), Nat)
    BY NatLessThanWellFounded
  <1>2. PICK x \in Holders(l, r) : \A y \in Holders(l, r) : ~(<<y, x>> \in OpToRel(<, Nat))
    BY <1>1, <1>w, WFMin
  <1>3. \A y \in Holders(l, r) : x =< y
    <2> SUFFICES ASSUME NEW y \in Holders(l, r), y < x
                 PROVE  FALSE
      BY <1>1
    <2>1. <<y, x>> \in OpToRel(<, Nat)
      <3>1. <<y, x>> \in Nat \X Nat /\ <<y, x>>[1] < <<y, x>>[2]
        BY <1>1
      <3> QED BY <3>1 DEF OpToRel
    <2> QED BY <1>2, <2>1
  <1> QED BY <1>2, <1>3 DEF Holder

\* Cutting r out of block i: the parts of the block are disjoint, lie inside it and
\* leave r alone, the other blocks stay.
LEMMA PunchedFacts ==
  ASSUME NEW l \in Seq(Hobs), NEW i \in DOMAIN l, NEW r \in Regions, Within(r, l[i]),
         l[i].type = "system"
  PROVE  LET p == Punched(l, i, r) IN
         /\ p \in Seq(Hobs) /\ Len(p) \in {Len(l), Len(l) + 1}
         /\ \A k \in DOMAIN l : k # i => p[k] = l[k]
         /\ \A k \in DOMAIN p \ DOMAIN l : p[k].type = "system"
         /\ p[i].type = "system"
         /\ \A k \in {i} \cup (DOMAIN p \ DOMAIN l) : Within(p[k], l[i]) /\ ~Meets(p[k], r)
         /\ \A k \in DOMAIN p \ DOMAIN l : ~Meets(p[k], p[i]) /\ ~Meets(p[i], p[k])
         /\ \A q \in Regions : q.len > 0 /\ Within(q, l[i]) /\ ~Meets(r, q) /\ ~Cuts(r, q)
              => \E k \in {i} \cup (DOMAIN p \ DOMAIN l) : Within(q, p[k])
  <1> DEFINE h == l[i]  p == Punched(l, i, r)
  <1>a. i \in 1..Len(l) /\ h \in Hobs
    OBVIOUS
  <1>b. h.base \in Nat /\ h.len \in Nat /\ r.base \in Nat /\ r.len \in Nat
    BY <1>a DEF Hobs, Regions
  <1>c. h.base <= r.base /\ r.base + r.len <= h.base + h.len
    BY <1>b DEF Within, Top
  <1>1. /\ i \in 1..Len(l) /\ h \in Hobs /\ h.base \in Nat /\ h.len \in Nat
        /\ r.base \in Nat /\ r.len \in Nat
        /\ h.base <= r.base /\ r.base + r.len <= h.base + h.len
    BY <1>a, <1>b, <1>c
  <1>2. CASE r.base = h.base
    <2>1. p = [l EXCEPT ![i] = Hob("system", Top(r), h.len - r.len)]
      BY <1>2 DEF Punched
    <2>2. Top(r) \in Nat /\ h.len - r.len \in Nat
      BY <1>1, <1>2 DEF Top
    <2>3. Hob("system", Top(r), h.len - r.len) \in Hobs
      BY <2>2, HobFacts
    <2>4. p \in Seq(Hobs) /\ Len(p) = Len(l) /\ DOMAIN p = DOMAIN l
          /\ p[i] = Hob("system", Top(r), h.len - r.len)
          /\ \A k \in DOMAIN l : k # i => p[k] = l[k]
      BY <2>1, <2>3, <1>1
    <2>5. p[i].type = "system" /\ p[i].base = Top(r) /\ p[i].len = h.len - r.len
      BY <2>2, <2>4, HobFacts
    <2> HIDE DEF h, p
    <2>6. Within(p[i], h) /\ ~Meets(p[i], r)
      BY <1>1, <1>2, <2>5 DEF Within, Meets, Top
    <2>7. ASSUME NEW q \in Regions, q.len > 0, Within(q, h), ~Meets(r, q), ~Cuts(r, q)
          PROVE  Within(q, p[i])
      <3>1. q.base \in Nat /\ q.len \in Nat
        BY DEF Regions
      <3> QED BY <1>1, <1>2, <2>5, <2>7, <3>1 DEF Within, Meets, Top, Cuts
    <2> QED BY <1>a, <2>4, <2>5, <2>6, <2>7 DEF h, p
  <1>3. CASE r.base # h.base /\ Top(h) = Top(r)
    <2>1. p = [l EXCEPT ![i] = Hob("system", h.base, h.len - r.len)]
      BY <1>3 DEF Punched
    <2>2. h.base \in Nat /\ h.len - r.len \in Nat
      BY <1>1, <1>3 DEF Top
    <2>3. Hob("system", h.base, h.len - r.len) \in Hobs
      BY <2>2, HobFacts
    <2>4. p \in Seq(Hobs) /\ Len(p) = Len(l) /\ DOMAIN p = DOMAIN l
          /\ p[i] = Hob("system", h.base, h.len - r.len)
          /\ \A k \in DOMAIN l : k # i => p[k] = l[k]
      BY <2>1, <2>3, <1>1
    <2>5. p[i].type = "system" /\ p[i].base = h.base /\ p[i].len = h.len - r.len
      BY <2>2, <2>4, HobFacts
    <2> HIDE DEF h, p
    <2>6. Within(p[i], h) /\ ~Meets(p[i], r)
      BY <1>1, <1>3, <2>5 DEF Within, Meets, Top
    <2>7. ASSUME NEW q \in Regions, q.len > 0, Within(q, h), ~Meets(r, q), ~Cuts(r, q)
          PROVE  Within(q, p[i])
      <3>1. q.base \in Nat /\ q.len \in Nat
        BY DEF Regions
      <3> QED BY <1>1, <1>3, <2>5, <2>7, <3>1, SMTT(30) DEF Within, Meets, Top, Cuts
    <2> QED BY <1>a, <2>4, <2>5, <2>6, <2>7 DEF h, p
  <1>4. CASE r.base # h.base /\ Top(h) # Top(r)
    <2> DEFINE low == Hob("system", h.base, r.base - h.base)
               high == Hob("system", Top(r), Top(h) - Top(r))
    <2>1. p = Append([l EXCEPT ![i] = low], high)
      BY <1>4 DEF Punched
    <2>2. r.base - h.base \in Nat /\ Top(r) \in Nat /\ Top(h) - Top(r) \in Nat
      BY <1>1, <1>4 DEF Top
    <2>3. low \in Hobs /\ high \in Hobs
      BY <1>1, <2>2, HobFacts
    <2>4. p \in Seq(Hobs) /\ Len(p) = Len(l) + 1 /\ DOMAIN p \ DOMAIN l = {Len(l) + 1}
          /\ p[i] = low /\ p[Len(l) + 1] = high
          /\ \A k \in DOMAIN l : k # i => p[k] = l[k]
      <3> HIDE DEF low, high
      <3> DEFINE m == [l EXCEPT ![i] = low]
      <3>1. m \in Seq(Hobs) /\ Len(m) = Len(l) /\ m[i] = low
            /\ \A k \in DOMAIN l : k # i => m[k] = l[k]
        BY <1>1, <2>3
      <3> HIDE DEF m
      <3> QED BY <1>1, <2>1, <2>3, <3>1 DEF m
    <2>5. /\ p[i].type = "system" /\ p[i].base = h.base /\ p[i].len = r.base - h.base
          /\ p[Len(l) + 1].type = "system" /\ p[Len(l) + 1].base = Top(r)
          /\ p[Len(l) + 1].len = Top(h) - Top(r)
      <3>1. /\ low.type = "system" /\ low.base = h.base /\ low.len = r.base - h.base
            /\ high.type = "system" /\ high.base = Top(r) /\ high.len = Top(h) - Top(r)
        BY DEF Hob
      <3> HIDE DEF h, p, low, high
      <3> QED BY <2>4, <3>1
    <2> HIDE DEF h, p, low, high
    <2> DEFINE n == Len(l) + 1
    <2>6. /\ Within(p[i], h) /\ ~Meets(p[i], r) /\ Within(p[n], h) /\ ~Meets(p[n], r)
          /\ ~Meets(p[n], p[i]) /\ ~Meets(p[i], p[n])
      BY <1>1, <1>4, <2>5 DEF Within, Meets, Top
    <2>7. ASSUME NEW q \in Regions, q.len > 0, Within(q, h), ~Meets(r, q), ~Cuts(r, q)
          PROVE  Within(q, p[i]) \/ Within(q, p[n])
      <3>1. q.base \in Nat /\ q.len \in Nat
        BY DEF Regions
      <3> QED BY <1>1, <1>4, <2>5, <2>7, <3>1, SMTT(30) DEF Within, Meets, Top, Cuts
    <2> HIDE DEF n
    <2> QED BY <1>a, <2>4, <2>5, <2>6, <2>7 DEF h, p, n
  <1> QED BY <1>2, <1>3, <1>4

\* A part of a block is as far from any other as the block itself.
LEMMA PartApart ==
  ASSUME NEW b, NEW h, NEW c, {b.base, b.len, h.base, h.len, c.base, c.len} \subseteq Nat,
         Within(b, h), ~Meets(h, c) \/ ~Meets(c, h)
  PROVE  ~Meets(b, c) /\ ~Meets(c, b)
  BY DEF Within, Meets, Top

LEMMA WithinPart ==
  ASSUME NEW b, NEW h, NEW c, {b.base, b.len, h.base, h.len, c.base, c.len} \subseteq Nat,
         Within(b, h), Within(h, c)
  PROVE  Within(b, c)
  BY DEF Within, Top

\* What reserving a region does to the list: it stays disjoint and inside the memory it
\* described, what was reserved stays so, and a region out of r's way keeps its block.
LEMMA ReserveKeeps ==
  ASSUME NEW l \in Seq(Hobs), Disjoint(l), NEW r \in Regions
  PROVE  LET n == ReserveMemoryRegion(l, r) IN
         /\ n \in Seq(Hobs) /\ Disjoint(n) /\ Len(l) <= Len(n)
         /\ \A k \in DOMAIN n : \E m \in DOMAIN l : Within(n[k], l[m])
         /\ \A k \in DOMAIN l : l[k].type = "reserved" => k \in DOMAIN n /\ n[k] = l[k]
         /\ Holders(l, r) # {} =>
               \E k \in DOMAIN n : n[k].type = "reserved" /\ Within(r, n[k])
         /\ \A q \in Regions : q.len > 0 /\ Holders(l, q) # {} /\ ~Meets(r, q) /\ ~Cuts(r, q)
               => Holders(n, q) # {}
  <1> DEFINE n == ReserveMemoryRegion(l, r)
  <1>0. \A k \in DOMAIN l : l[k] \in Hobs /\ l[k].base \in Nat /\ l[k].len \in Nat
                            /\ Within(l[k], l[k])
    BY ListFacts
  <1>1. CASE Holders(l, r) = {}
    <2>1. n = l
      BY <1>1 DEF ReserveMemoryRegion
    <2>2. Len(l) <= Len(l)
      OBVIOUS
    <2> QED BY <1>0, <1>1, <2>1, <2>2
  <1>2. CASE Holders(l, r) # {}
    <2> DEFINE i == Holder(l, r)
               p == Punched(l, i, r)
               h == l[i]
               new == Hob("reserved", r.base, r.len)
               Parts == {i} \cup (DOMAIN p \ DOMAIN l)
    <2>1. i \in DOMAIN l /\ h.type = "system" /\ Within(r, h)
      BY <1>2, HolderFound DEF Holders
    <2>2. /\ p \in Seq(Hobs) /\ Len(p) \in {Len(l), Len(l) + 1}
          /\ \A k \in DOMAIN l : k # i => p[k] = l[k]
          /\ \A k \in DOMAIN p \ DOMAIN l : p[k].type = "system"
          /\ p[i].type = "system"
          /\ \A k \in Parts : Within(p[k], h) /\ ~Meets(p[k], r)
          /\ \A k \in DOMAIN p \ DOMAIN l : ~Meets(p[k], p[i]) /\ ~Meets(p[i], p[k])
          /\ \A q \in Regions : q.len > 0 /\ Within(q, h) /\ ~Meets(r, q) /\ ~Cuts(r, q)
               => \E k \in Parts : Within(q, p[k])
      BY <2>1, PunchedFacts
    <2>3. r.base \in Nat /\ r.len \in Nat /\ new \in Hobs
          /\ new.type = "reserved" /\ new.base = r.base /\ new.len = r.len
      BY HobFacts DEF Regions
    <2>4. n = Append(p, new)
      BY <1>2 DEF ReserveMemoryRegion
    <2> HIDE DEF i, p, h, new
    <2>5. /\ n \in Seq(Hobs) /\ Len(n) = Len(p) + 1 /\ n[Len(p) + 1] = new
          /\ \A k \in DOMAIN p : n[k] = p[k]
      BY <2>2, <2>3, <2>4
    <2> HIDE DEF n
    <2>6. /\ DOMAIN l \subseteq DOMAIN p /\ DOMAIN n = DOMAIN p \cup {Len(p) + 1}
          /\ i \in DOMAIN p /\ Len(p) + 1 \notin DOMAIN p
          /\ \A j, k \in DOMAIN p \ DOMAIN l : j = k
      BY <2>1, <2>2, <2>5
    <2>7. /\ h.base \in Nat /\ h.len \in Nat /\ h = l[i]
          /\ \A k \in DOMAIN p : p[k].base \in Nat /\ p[k].len \in Nat
      BY <1>0, <2>1, <2>2, ListFacts DEF h
    <2>8. \A k \in Parts, m \in DOMAIN l \ {i} : ~Meets(p[k], l[m]) /\ ~Meets(l[m], p[k])
      <3> SUFFICES ASSUME NEW k \in Parts, NEW m \in DOMAIN l \ {i}
                   PROVE  ~Meets(p[k], l[m]) /\ ~Meets(l[m], p[k])
        OBVIOUS
      <3>1. ~Meets(h, l[m])
        BY <2>1, <2>7 DEF Disjoint
      <3> QED BY <1>0, <2>2, <2>6, <2>7, <3>1, PartApart
    <2>9. Disjoint(p)
      <3> SUFFICES ASSUME NEW j \in DOMAIN p, NEW k \in DOMAIN p, j # k
                   PROVE  ~Meets(p[j], p[k])
        BY DEF Disjoint
      <3>1. CASE j \in Parts /\ k \in Parts
        BY <2>2, <2>6, <3>1
      <3>2. CASE j \in Parts /\ k \notin Parts
        BY <2>2, <2>8, <3>2
      <3>3. CASE j \notin Parts /\ k \in Parts
        BY <2>2, <2>8, <3>3
      <3>4. CASE j \notin Parts /\ k \notin Parts
        BY <2>2, <3>4 DEF Disjoint
      <3> QED BY <3>1, <3>2, <3>3, <3>4
    <2>10. \A k \in DOMAIN p : ~Meets(p[k], new) /\ ~Meets(new, p[k])
      <3> SUFFICES ASSUME NEW k \in DOMAIN p
                   PROVE  ~Meets(p[k], new) /\ ~Meets(new, p[k])
        OBVIOUS
      <3>1. CASE k \in Parts
        BY <2>2, <2>3, <3>1 DEF Meets, Top
      <3>2. CASE k \notin Parts
        <4>1. p[k] = l[k] /\ ~Meets(h, l[k])
          BY <2>1, <2>2, <2>7, <3>2 DEF Disjoint
        <4>2. Within(new, h)
          BY <2>1, <2>3 DEF Within, Top
        <4> QED BY <2>3, <2>7, <4>1, <4>2, PartApart
      <3> QED BY <3>1, <3>2
    <2>11. Disjoint(n)
      <3> SUFFICES ASSUME NEW j \in DOMAIN n, NEW k \in DOMAIN n, j # k
                   PROVE  ~Meets(n[j], n[k])
        BY DEF Disjoint
      <3>1. CASE j \in DOMAIN p /\ k \in DOMAIN p
        BY <2>5, <2>9, <3>1 DEF Disjoint
      <3>2. CASE j = Len(p) + 1 \/ k = Len(p) + 1
        BY <2>5, <2>6, <2>10, <3>2
      <3> QED BY <2>6, <3>1, <3>2
    <2>12. \A k \in DOMAIN n : \E m \in DOMAIN l : Within(n[k], l[m])
      <3> SUFFICES ASSUME NEW k \in DOMAIN n
                   PROVE  \E m \in DOMAIN l : Within(n[k], l[m])
        OBVIOUS
      <3>1. CASE k = Len(p) + 1
        BY <2>1, <2>3, <2>5, <2>7, <3>1 DEF Within, Top
      <3>2. CASE k \in Parts
        BY <2>1, <2>2, <2>5, <2>6, <2>7, <3>2
      <3>3. CASE k \in DOMAIN p \ Parts
        BY <1>0, <2>2, <2>5, <3>3
      <3> QED BY <2>6, <3>1, <3>2, <3>3
    <2>13. \A k \in DOMAIN l : l[k].type = "reserved" => k \in DOMAIN n /\ n[k] = l[k]
      BY <2>1, <2>2, <2>5, <2>6, <2>7
    <2>14. n[Len(p) + 1].type = "reserved" /\ Within(r, n[Len(p) + 1])
      BY <2>3, <2>5 DEF Within, Top
    <2>15. ASSUME NEW q \in Regions, q.len > 0, Holders(l, q) # {}, ~Meets(r, q), ~Cuts(r, q)
           PROVE  Holders(n, q) # {}
      <3>1. PICK m \in DOMAIN l : l[m].type = "system" /\ Within(q, l[m])
        BY <2>15 DEF Holders
      <3>2. CASE m = i
        <4>1. PICK k \in Parts : Within(q, p[k])
          BY <2>2, <2>7, <2>15, <3>1, <3>2
        <4>2. k \in DOMAIN n /\ n[k].type = "system" /\ Within(q, n[k])
          BY <2>2, <2>5, <2>6, <4>1
        <4> QED BY <4>2 DEF Holders
      <3>3. CASE m # i
        <4>1. m \in DOMAIN n /\ n[m] = l[m]
          BY <2>2, <2>5, <2>6, <3>3
        <4> QED BY <3>1, <4>1 DEF Holders
      <3> QED BY <3>2, <3>3
    <2>16. Len(l) <= Len(n)
      BY <2>2, <2>5
    <2> QED BY <2>5, <2>6, <2>11, <2>12, <2>13, <2>14, <2>15, <2>16 DEF n
  <1> QED BY <1>1, <1>2

\* Splitting the firmware device out of the one block there is: the parts are disjoint
\* system memory, and what does not meet the device lies in one of them, as the device
\* does.
LEMMA SplitKeeps ==
  ASSUME NEW m \in Regions, NEW fd \in Regions, fd.len > 0, Within(fd, m)
  PROVE  LET l == <<Hob("system", m.base, m.len)>>
             n == SplitFirmware(l, fd, m)
         IN  /\ n \in Seq(Hobs) /\ Disjoint(n)
             /\ \A k \in DOMAIN n : Within(n[k], m)
             /\ \A q \in Regions : q.len > 0 /\ Within(q, m) /\ ~Meets(q, fd)
                  => Holders(n, q) # {}
             /\ Holders(n, fd) # {}
  <1> DEFINE block == Hob("system", m.base, m.len)
             l == <<block>>
             n == SplitFirmware(l, fd, m)
             firmware == Hob("system", fd.base, fd.len)
             below == Hob("system", m.base, fd.base - m.base)
             above == Hob("system", Top(fd), Top(m) - Top(fd))
  <1>1. /\ m.base \in Nat /\ m.len \in Nat /\ fd.base \in Nat /\ fd.len \in Nat
        /\ m.base <= fd.base /\ fd.base + fd.len <= m.base + m.len
    BY DEF Regions, Within, Top
  <1>2. /\ block \in Hobs /\ block.type = "system" /\ block.base = m.base /\ block.len = m.len
        /\ Top(block) = Top(m)
    BY <1>1, HobFacts DEF Top
  <1>3. /\ firmware \in Hobs /\ firmware.type = "system"
        /\ firmware.base = fd.base /\ firmware.len = fd.len
    BY <1>1, HobFacts
  <1>4. /\ below \in Hobs /\ below.type = "system"
        /\ below.base = m.base /\ below.len = fd.base - m.base
    <2>1. fd.base - m.base \in Nat
      BY <1>1
    <2> QED BY <1>1, <2>1, HobFacts
  <1>5. /\ above \in Hobs /\ above.type = "system"
        /\ above.base = Top(fd) /\ above.len = Top(m) - Top(fd)
    <2>1. Top(fd) \in Nat /\ Top(m) - Top(fd) \in Nat
      BY <1>1 DEF Top
    <2> QED BY <2>1, HobFacts
  <1>6. Holder(l, fd) = 1
    <2>1. Holders(l, fd) # {}
      <3> HIDE DEF block
      <3>1. 1 \in DOMAIN l /\ l[1].type = "system" /\ Within(fd, l[1])
        BY <1>1, <1>2 DEF Within, Top
      <3> QED BY <3>1 DEF Holders
    <2>2. l \in Seq(Hobs)
      BY <1>2
    <2>3. Holders(l, fd) \subseteq {1}
      BY DEF Holders
    <2> QED BY <2>1, <2>2, <2>3, HolderFound
  <1>7. \/ fd.base = m.base /\ Top(m) = Top(fd) /\ n = <<block>>
        \/ fd.base = m.base /\ Top(fd) < Top(m) /\ n = <<above, firmware>>
        \/ fd.base # m.base /\ Top(fd) < Top(m) /\ n = <<below, firmware, above>>
        \/ fd.base # m.base /\ Top(fd) = Top(m) /\ n = <<below, firmware>>
    <2>0. Top(fd) \in Nat /\ Top(m) \in Nat /\ Top(fd) <= Top(m)
      BY <1>1 DEF Top
    <2>1. CASE fd.base = m.base /\ Top(m) = Top(fd)
      BY <1>2, <1>6, <2>1 DEF SplitFirmware
    <2>2. CASE fd.base = m.base /\ Top(m) # Top(fd)
      <3>1. above = Hob("system", Top(fd), m.len - fd.len)
        BY <1>1, <2>2 DEF Top
      <3>2. n = Append([l EXCEPT ![1] = Hob("system", Top(fd), block.len - fd.len)], firmware)
        BY <1>2, <1>6, <2>2 DEF SplitFirmware
      <3>3. [l EXCEPT ![1] = above] = <<above>>
        OBVIOUS
      <3> QED BY <1>2, <2>0, <2>2, <3>1, <3>2, <3>3
    <2>3. [l EXCEPT ![1] = below] = <<below>>
      OBVIOUS
    <2>4. CASE fd.base # m.base /\ Top(fd) # Top(m)
      <3>1. n = Append(Append([l EXCEPT ![1] = below], firmware), above)
        BY <1>2, <1>6, <2>0, <2>4 DEF SplitFirmware
      <3> QED BY <2>0, <2>3, <2>4, <3>1
    <2>5. CASE fd.base # m.base /\ Top(fd) = Top(m)
      <3>1. n = Append([l EXCEPT ![1] = below], firmware)
        BY <1>2, <1>6, <2>0, <2>5 DEF SplitFirmware
      <3> QED BY <2>3, <2>5, <3>1
    <2> QED BY <2>1, <2>2, <2>4, <2>5
  <1> HIDE DEF block, firmware, below, above, n
  <1>8. n \in Seq(Hobs)
    <2>1. /\ <<block>> \in Seq(Hobs) /\ <<above, firmware>> \in Seq(Hobs)
          /\ <<below, firmware, above>> \in Seq(Hobs) /\ <<below, firmware>> \in Seq(Hobs)
      BY <1>2, <1>3, <1>4, <1>5
    <2> QED BY <1>7, <2>1
  <1>9. /\ ~Meets(below, firmware) /\ ~Meets(firmware, below)
        /\ ~Meets(above, firmware) /\ ~Meets(firmware, above)
        /\ ~Meets(below, above) /\ ~Meets(above, below)
    BY <1>1, <1>3, <1>4, <1>5 DEF Meets, Top
  <1>10. Disjoint(n)
    BY <1>7, <1>9 DEF Disjoint
  <1>11. Within(block, m) /\ Within(firmware, m) /\ Within(below, m) /\ Within(above, m)
    BY <1>1, <1>2, <1>3, <1>4, <1>5 DEF Within, Top
  <1>12. \A k \in DOMAIN n : Within(n[k], m)
    BY <1>7, <1>11
  <1>13. ASSUME NEW q \in Regions, q.len > 0, Within(q, m), ~Meets(q, fd)
         PROVE  Holders(n, q) # {}
    <2>0. q.base \in Nat /\ q.len \in Nat
      BY DEF Regions
    <2>1. \/ fd.base # m.base /\ Within(q, below)
          \/ Top(fd) < Top(m) /\ Within(q, above)
      BY <1>1, <1>4, <1>5, <1>13, <2>0 DEF Within, Meets, Top
    <2>2. \E k \in DOMAIN n : n[k].type = "system" /\ Within(q, n[k])
      <3>1. CASE Within(q, below) /\ fd.base # m.base
        <4>1. 1 \in DOMAIN n /\ n[1] = below
          BY <1>7, <3>1
        <4> QED BY <1>4, <3>1, <4>1
      <3>2. CASE Within(q, above) /\ Top(fd) < Top(m)
        <4>0. Top(fd) \in Nat /\ Top(m) \in Nat
          BY <1>1 DEF Top
        <4>1. n = <<above, firmware>> \/ n = <<below, firmware, above>>
          BY <1>7, <3>2, <4>0
        <4>2. (1 \in DOMAIN n /\ n[1] = above) \/ (3 \in DOMAIN n /\ n[3] = above)
          BY <4>1
        <4> QED BY <1>5, <3>2, <4>2
      <3> QED BY <2>1, <3>1, <3>2
    <2> QED BY <2>2 DEF Holders
  <1>14. Holders(n, fd) # {}
    <2>1. Within(fd, block) /\ Within(fd, firmware)
      BY <1>1, <1>2, <1>3 DEF Within, Top
    <2>2. \/ 1 \in DOMAIN n /\ n[1] = block
          \/ 2 \in DOMAIN n /\ n[2] = firmware
      BY <1>7
    <2>3. \E k \in DOMAIN n : n[k].type = "system" /\ Within(fd, n[k])
      BY <1>2, <1>3, <2>1, <2>2
    <2> QED BY <2>3 DEF Holders
  <1> QED BY <1>8, <1>10, <1>12, <1>13, <1>14 DEF n, block

(***************************************************************************)
(* The order of the steps                                                  *)
(***************************************************************************)
Before == {"EarlySetup", "Memory", "Firmware"}
Reserving == {"FrameBuffer", "Carveouts", "Ramdisk", "LowMemory"}
After == {"Mmu", "Core", "Dxe", "end", "hung"}

LEMMA MachineFacts ==
  ASSUME hw \in Machines
  PROVE  /\ Family \in {"T810X", "T600X", "T602X"}
         /\ hw.memory \in Regions /\ hw.fd \in Regions /\ hw.fb \in Regions
         /\ hw.window \in Regions /\ hw.low \in Regions
         /\ hw.fd.len > 0 /\ ~Meets(hw.memory, hw.low)
         /\ hw.backing \in Nat /\ hw.cpus \in Seq(Carveouts) /\ hw.image \in Int
  BY MachinesAssumption DEF Family

LEMMA CarveoutIsRegion ==
  ASSUME hw \in Machines, NEW k \in DOMAIN hw.cpus
  PROVE  Carveout(hw.cpus[k]) \in Regions
  <1>1. hw.cpus[k] \in Carveouts
    BY MachineFacts
  <1>2. /\ hw.cpus[k].region.base \in Nat /\ hw.cpus[k].region.len \in Nat
    BY <1>1 DEF Carveouts, Regions
  <1>3. hw.cpus[k].region.len % \h100000 \in Nat
    BY <1>2
  <1> QED BY <1>2, <1>3 DEF Carveout, Region, Regions

LEMMA StepsOfFamily ==
  ASSUME hw \in Machines
  PROVE  \/ /\ Family = "T810X" /\ Len(Steps) = 11
            /\ Steps[1] = "EarlySetup" /\ Steps[2] = "Memory" /\ Steps[3] = "Firmware"
            /\ Steps[4] = "FrameBuffer" /\ Steps[5] = "Carveouts" /\ Steps[6] = "Ramdisk"
            /\ Steps[7] = "LowMemory" /\ Steps[8] = "Mmu" /\ Steps[9] = "Core"
            /\ Steps[10] = "Dxe" /\ Steps[11] = "end"
         \/ /\ Family = "T600X" /\ Len(Steps) = 7
            /\ Steps[1] = "EarlySetup" /\ Steps[2] = "Memory" /\ Steps[3] = "Firmware"
            /\ Steps[4] = "Mmu" /\ Steps[5] = "Core" /\ Steps[6] = "Dxe" /\ Steps[7] = "end"
         \/ /\ Family = "T602X" /\ Len(Steps) = 8
            /\ Steps[1] = "EarlySetup" /\ Steps[2] = "Memory" /\ Steps[3] = "Firmware"
            /\ Steps[4] = "Carveouts" /\ Steps[5] = "Mmu" /\ Steps[6] = "Core"
            /\ Steps[7] = "Dxe" /\ Steps[8] = "end"
  <1>1. CASE Family = "T810X"
    <2>1. MemoryPeim[Family] = T810XSteps
      BY <1>1 DEF MemoryPeim
    <2> QED BY <1>1, <2>1 DEF Steps, T810XSteps
  <1>2. CASE Family = "T600X"
    <2>1. MemoryPeim[Family] = T600XSteps
      BY <1>2 DEF MemoryPeim
    <2> QED BY <1>2, <2>1 DEF Steps, T600XSteps
  <1>3. CASE Family = "T602X"
    <2>1. MemoryPeim[Family] = T602XSteps
      BY <1>3 DEF MemoryPeim
    <2> QED BY <1>3, <2>1 DEF Steps, T602XSteps
  <1> QED BY <1>1, <1>2, <1>3, MachineFacts

LEMMA StepOrder ==
  ASSUME hw \in Machines, NEW s, Finish(s)
  PROVE  /\ s = "EarlySetup" => pc' = "Memory"
         /\ s = "Memory" => pc' = "Firmware"
         /\ s = "Firmware" => pc' \in {"FrameBuffer", "Carveouts", "Mmu"}
         /\ s = "FrameBuffer" => pc' = "Carveouts"
         /\ s = "Carveouts" => pc' \in {"Ramdisk", "Mmu"}
         /\ s = "Ramdisk" => pc' = "LowMemory"
         /\ s = "LowMemory" => pc' = "Mmu"
         /\ s = "Mmu" => pc' = "Core"
         /\ s = "Core" => pc' = "Dxe"
         /\ s = "Dxe" => pc' = "end"
         /\ s = "Carveouts" /\ Family = "T810X" => pc' = "Ramdisk"
         /\ s = "Firmware" /\ Family = "T810X" => pc' = "FrameBuffer"
  <1>1. PICK i \in 1..(Len(Steps) - 1) : Steps[i] = s /\ pc' = Steps[i + 1]
    BY DEF Finish
  <1>2. CASE Family = "T810X"
    <2>0. Len(Steps) = 11
      BY <1>2, StepsOfFamily
    <2>1. i \in 1..10
      BY <2>0
    <2>2. i = 1 \/ i = 2 \/ i = 3 \/ i = 4 \/ i = 5 \/ i = 6 \/ i = 7 \/ i = 8 \/ i = 9
          \/ i = 10
      BY <2>1
    <2> QED BY <1>1, <1>2, <2>2, StepsOfFamily
  <1>3. CASE Family = "T600X"
    <2>0. Len(Steps) = 7
      BY <1>3, StepsOfFamily
    <2>1. i \in 1..6
      BY <2>0
    <2>2. i = 1 \/ i = 2 \/ i = 3 \/ i = 4 \/ i = 5 \/ i = 6
      BY <2>1
    <2> QED BY <1>1, <1>3, <2>2, StepsOfFamily
  <1>4. CASE Family = "T602X"
    <2>0. Len(Steps) = 8
      BY <1>4, StepsOfFamily
    <2>1. i \in 1..7
      BY <2>0
    <2>2. i = 1 \/ i = 2 \/ i = 3 \/ i = 4 \/ i = 5 \/ i = 6 \/ i = 7
      BY <2>1
    <2> QED BY <1>1, <1>4, <2>2, StepsOfFamily
  <1> QED BY <1>2, <1>3, <1>4, MachineFacts

(***************************************************************************)
(* The invariant                                                           *)
(***************************************************************************)
ReservedIn(l, r) == \E i \in DOMAIN l : l[i].type = "reserved" /\ Within(r, l[i])

\* ApartIsReserved of a list and the regions asked for.
ApartIn(l, a) ==
    \A k \in DOMAIN a :
        \/ ReservedIn(l, a[k])
        \/ a[k].len = 0 \/ ~Within(a[k], hw.memory)
        \/ Meets(a[k], hw.fd)
        \/ \E j \in 1..(k - 1) : Collide(a[j], a[k])

\* What nothing is in the way of lies in one block of system memory.
CoveredBy(l, a) ==
    \A q \in Regions :
        /\ q.len > 0 /\ Within(q, hw.memory) /\ ~Meets(q, hw.fd)
        /\ \A j \in DOMAIN a : ~Collide(a[j], q)
        => Holders(l, q) # {}

InMemory(l) == \A k \in DOMAIN l : Within(l[k], hw.memory)

Types ==
    /\ hw \in Machines /\ pc \in Before \cup Reserving \cup After
    /\ cpu \in 1..(Len(hw.cpus) + 1) /\ mmu \in {"off", "on", "refused"}
    /\ list \in Seq(Hobs) /\ asked \in Seq(Regions)

Beginning ==
    /\ pc \in {"EarlySetup", "Memory"} => list = <<>>
    /\ pc = "Firmware" => list = <<Hob("system", hw.memory.base, hw.memory.len)>>
    /\ pc \in Before => asked = <<>>

Inv ==
    /\ Types /\ Beginning
    /\ HobsDisjoint /\ ApartIsReserved
    /\ pc \in Before \cup Reserving => InMemory(list)
    /\ pc \in Reserving => CoveredBy(list, asked)

LEMMA Restated ==
  /\ HobsDisjoint <=> Disjoint(list)
  /\ ApartIsReserved <=> ApartIn(list, asked)
  BY DEF HobsDisjoint, Disjoint, ApartIsReserved, ApartIn, Reserved, ReservedIn

LEMMA ReserveApart ==
  ASSUME hw \in Machines, NEW l \in Seq(Hobs), NEW a \in Seq(Regions), NEW r \in Regions,
         Disjoint(l), ApartIn(l, a), InMemory(l), CoveredBy(l, a)
  PROVE  LET n == ReserveMemoryRegion(l, r)
             b == Append(a, r)
         IN  /\ n \in Seq(Hobs) /\ b \in Seq(Regions)
             /\ Disjoint(n) /\ ApartIn(n, b) /\ InMemory(n) /\ CoveredBy(n, b)
  <1> DEFINE n == ReserveMemoryRegion(l, r)
             b == Append(a, r)
  <1>1. /\ n \in Seq(Hobs) /\ Disjoint(n)
        /\ \A k \in DOMAIN n : \E m \in DOMAIN l : Within(n[k], l[m])
        /\ \A k \in DOMAIN l : l[k].type = "reserved" => k \in DOMAIN n /\ n[k] = l[k]
        /\ Holders(l, r) # {} =>
              \E k \in DOMAIN n : n[k].type = "reserved" /\ Within(r, n[k])
        /\ \A q \in Regions : q.len > 0 /\ Holders(l, q) # {} /\ ~Meets(r, q) /\ ~Cuts(r, q)
              => Holders(n, q) # {}
    BY ReserveKeeps
  <1>2. /\ b \in Seq(Regions) /\ Len(b) = Len(a) + 1 /\ b[Len(b)] = r
        /\ \A k \in DOMAIN a : b[k] = a[k]
    OBVIOUS
  <1> HIDE DEF n, b
  <1>3. InMemory(n)
    <2> SUFFICES ASSUME NEW k \in DOMAIN n
                 PROVE  Within(n[k], hw.memory)
      BY DEF InMemory
    <2>1. PICK m \in DOMAIN l : Within(n[k], l[m])
      BY <1>1
    <2>2. Within(l[m], hw.memory)
      BY DEF InMemory
    <2>3. hw.memory.base \in Nat /\ hw.memory.len \in Nat
      BY MachineFacts DEF Regions
    <2>4. {n[k].base, n[k].len, l[m].base, l[m].len} \subseteq Nat
      BY <1>1, ListFacts
    <2> QED BY <2>1, <2>2, <2>3, <2>4, WithinPart
  <1>4. CoveredBy(n, b)
    <2> SUFFICES ASSUME NEW q \in Regions, q.len > 0, Within(q, hw.memory),
                        ~Meets(q, hw.fd), \A j \in DOMAIN b : ~Collide(b[j], q)
                 PROVE  Holders(n, q) # {}
      BY DEF CoveredBy
    <2>1. \A j \in DOMAIN a : ~Collide(a[j], q)
      BY <1>2
    <2>2. Holders(l, q) # {}
      BY <2>1 DEF CoveredBy
    <2>3. ~Collide(r, q)
      BY <1>2
    <2> QED BY <1>1, <2>2, <2>3 DEF Collide
  <1>5. ApartIn(n, b)
    <2> SUFFICES ASSUME NEW k \in DOMAIN b, b[k].len # 0, Within(b[k], hw.memory),
                        ~Meets(b[k], hw.fd), \A j \in 1..(k - 1) : ~Collide(b[j], b[k])
                 PROVE  ReservedIn(n, b[k])
      BY DEF ApartIn
    <2>1. CASE k \in DOMAIN a
      <3>1. \A j \in 1..(k - 1) : ~Collide(a[j], a[k])
        BY <1>2, <2>1
      <3>2. ReservedIn(l, a[k])
        BY <1>2, <2>1, <3>1 DEF ApartIn
      <3>3. PICK m \in DOMAIN l : l[m].type = "reserved" /\ Within(a[k], l[m])
        BY <3>2 DEF ReservedIn
      <3> QED BY <1>1, <1>2, <2>1, <3>3 DEF ReservedIn
    <2>2. CASE k = Len(b)
      <3>1. \A j \in DOMAIN a : ~Collide(a[j], r)
        BY <1>2, <2>2
      <3>2. r.len > 0
        BY <1>2, <2>2 DEF Regions
      <3>3. Holders(l, r) # {}
        BY <1>2, <2>2, <3>1, <3>2 DEF CoveredBy
      <3> QED BY <1>1, <1>2, <2>2, <3>3 DEF ReservedIn
    <2> QED BY <1>2, <2>1, <2>2
  <1> QED BY <1>1, <1>2, <1>3, <1>4, <1>5 DEF n, b

\* A block that meets no other may follow.
LEMMA AppendApart ==
  ASSUME hw \in Machines, NEW l \in Seq(Hobs), NEW a \in Seq(Regions), NEW x \in Hobs,
         Disjoint(l), ApartIn(l, a),
         \A k \in DOMAIN l : ~Meets(l[k], x) /\ ~Meets(x, l[k])
  PROVE  LET n == Append(l, x) IN n \in Seq(Hobs) /\ Disjoint(n) /\ ApartIn(n, a)
  <1> DEFINE n == Append(l, x)
  <1>1. /\ n \in Seq(Hobs) /\ Len(n) = Len(l) + 1 /\ n[Len(l) + 1] = x
        /\ \A k \in DOMAIN l : k \in DOMAIN n /\ n[k] = l[k]
        /\ \A k \in DOMAIN n : k \in DOMAIN l \/ k = Len(l) + 1
    OBVIOUS
  <1> HIDE DEF n
  <1>2. Disjoint(n)
    <2> SUFFICES ASSUME NEW j \in DOMAIN n, NEW k \in DOMAIN n, j # k
                 PROVE  ~Meets(n[j], n[k])
      BY DEF Disjoint
    <2>1. CASE j \in DOMAIN l /\ k \in DOMAIN l
      BY <1>1, <2>1 DEF Disjoint
    <2>2. CASE j = Len(l) + 1 \/ k = Len(l) + 1
      BY <1>1, <2>2
    <2> QED BY <1>1, <2>1, <2>2
  <1>3. \A r : ReservedIn(l, r) => ReservedIn(n, r)
    BY <1>1 DEF ReservedIn
  <1>4. ApartIn(n, a)
    BY <1>3 DEF ApartIn
  <1> QED BY <1>1, <1>2, <1>4 DEF n

(***************************************************************************)
(* Its preservation                                                        *)
(***************************************************************************)
LEMMA InitInv ==
  ASSUME Init
  PROVE  Inv
  <1>1. Types
    BY MachineFacts DEF Init, Types, Before
  <1>2. Beginning
    BY DEF Init, Beginning, Before
  <1>3. HobsDisjoint /\ ApartIsReserved /\ InMemory(list)
    BY DEF Init, HobsDisjoint, ApartIsReserved, InMemory
  <1>4. pc \notin Reserving
    BY DEF Init, Reserving
  <1> QED BY <1>1, <1>2, <1>3, <1>4 DEF Inv

\* What is to be shown of the step of a machine that stays the same.
LEMMA InvFromParts ==
  ASSUME hw' = hw, hw \in Machines, pc' \in Before \cup Reserving \cup After,
         cpu' \in 1..(Len(hw.cpus) + 1), mmu' \in {"off", "on", "refused"},
         list' \in Seq(Hobs), asked' \in Seq(Regions), Beginning',
         Disjoint(list'), ApartIn(list', asked'),
         pc' \in Before \cup Reserving => InMemory(list'),
         pc' \in Reserving => CoveredBy(list', asked')
  PROVE  Inv'
  <1>1. Types'
    BY DEF Types
  <1>2. HobsDisjoint'
    BY DEF HobsDisjoint, Disjoint
  <1>3. ApartIsReserved'
    BY DEF ApartIsReserved, ApartIn, Reserved, ReservedIn
  <1>4. (pc \in Before \cup Reserving => InMemory(list))'
    BY DEF InMemory
  <1>5. (pc \in Reserving => CoveredBy(list, asked))'
    BY DEF CoveredBy
  <1> QED BY <1>1, <1>2, <1>3, <1>4, <1>5 DEF Inv

\* A step that leaves the blocks alone.
LEMMA InvIfListStays ==
  ASSUME Inv, hw' = hw, list' = list, asked' = asked,
         cpu' \in 1..(Len(hw.cpus) + 1), mmu' \in {"off", "on", "refused"},
         \/ pc = "EarlySetup" /\ pc' = "Memory"
         \/ pc' \in Reserving /\ pc \in Reserving
         \/ pc' \in After
  PROVE  Inv'
  <1>1. /\ Types /\ Beginning /\ Disjoint(list) /\ ApartIn(list, asked)
        /\ pc \in Before \cup Reserving => InMemory(list)
        /\ pc \in Reserving => CoveredBy(list, asked)
    BY Restated DEF Inv
  <1>2. Beginning'
    BY <1>1 DEF Beginning, Before, Reserving, After
  <1>3. pc' \in Before \cup Reserving \cup After
    BY DEF Before
  <1>4. pc' \in Before \cup Reserving => pc \in Before \cup Reserving
    BY DEF Before, Reserving, After
  <1>5. pc' \in Reserving => pc \in Reserving
    BY DEF Reserving, After
  <1> QED BY <1>1, <1>2, <1>3, <1>4, <1>5, InvFromParts DEF Types

\* A step that reserves one region.
LEMMA InvIfReserve ==
  ASSUME Inv, hw' = hw, NEW r \in Regions, Reserve(r), pc \in Reserving, mmu' = mmu,
         pc' \in Reserving \cup After, cpu' \in 1..(Len(hw.cpus) + 1)
  PROVE  Inv'
  <1>1. /\ Types /\ Disjoint(list) /\ ApartIn(list, asked)
        /\ InMemory(list) /\ CoveredBy(list, asked)
    BY Restated DEF Inv
  <1>2. /\ list' \in Seq(Hobs) /\ asked' \in Seq(Regions)
        /\ Disjoint(list') /\ ApartIn(list', asked')
        /\ InMemory(list') /\ CoveredBy(list', asked')
    BY <1>1, ReserveApart DEF Reserve, Types
  <1>3. Beginning'
    BY DEF Beginning, Before, Reserving, After
  <1> QED BY <1>1, <1>2, <1>3, InvFromParts DEF Types

LEMMA NextInv ==
  ASSUME Inv, [Next]_vars
  PROVE  Inv'
  <1>1. /\ Types /\ Beginning /\ Disjoint(list) /\ ApartIn(list, asked)
        /\ pc \in Before \cup Reserving => InMemory(list)
        /\ pc \in Reserving => CoveredBy(list, asked)
    BY Restated DEF Inv
  <1>2. /\ hw \in Machines /\ cpu \in 1..(Len(hw.cpus) + 1) /\ Len(hw.cpus) \in Nat
        /\ mmu \in {"off", "on", "refused"}
    BY <1>1, MachineFacts DEF Types
  <1>3. CASE EarlySetup
    <2>1. pc = "EarlySetup" /\ pc' = "Memory"
      BY <1>2, <1>3, StepOrder DEF EarlySetup, Finish
    <2> QED BY <1>2, <1>3, <2>1, InvIfListStays DEF EarlySetup
  <1>4. CASE DeclareMemory
    <2>1. CASE Len(VirtualMemoryTable) <= MaxDescriptors[Family]
      <3> DEFINE block == Hob("system", hw.memory.base, hw.memory.len)
      <3>1. pc = "Memory" /\ pc' = "Firmware"
        BY <1>2, <1>4, <2>1, StepOrder DEF DeclareMemory, Finish
      <3>2. list = <<>> /\ asked = <<>> /\ list' = <<block>> /\ asked' = <<>> /\ hw' = hw
        BY <1>1, <1>4, <2>1, <3>1 DEF Beginning, Before, DeclareMemory
      <3>3. /\ block \in Hobs /\ Within(block, hw.memory)
        <4>1. hw.memory.base \in Nat /\ hw.memory.len \in Nat
          BY <1>2, MachineFacts DEF Regions
        <4>2. /\ block \in Hobs /\ block.base = hw.memory.base /\ block.len = hw.memory.len
          BY <4>1, HobFacts
        <4> QED BY <4>1, <4>2 DEF Within, Top
      <3> HIDE DEF block
      <3>4. /\ list' \in Seq(Hobs) /\ Disjoint(list') /\ InMemory(list')
        BY <3>2, <3>3 DEF Disjoint, InMemory
      <3>5. ApartIn(list', asked') /\ asked' \in Seq(Regions)
        BY <3>2 DEF ApartIn
      <3>6. Beginning'
        BY <3>1, <3>2 DEF Beginning, block
      <3>7. pc' \in Before /\ pc' \notin Reserving
        BY <3>1 DEF Before, Reserving
      <3> QED BY <1>2, <1>4, <3>2, <3>4, <3>5, <3>6, <3>7, InvFromParts DEF DeclareMemory
    <2>2. CASE ~(Len(VirtualMemoryTable) <= MaxDescriptors[Family])
      BY <1>2, <1>4, <2>2, InvIfListStays DEF DeclareMemory, After
    <2> QED BY <2>1, <2>2
  <1>5. CASE SplitOffFirmware
    <2>1. pc = "Firmware" /\ pc' \in {"FrameBuffer", "Carveouts", "Mmu"}
      BY <1>2, <1>5, StepOrder DEF SplitOffFirmware, Finish
    <2>2. /\ list = <<Hob("system", hw.memory.base, hw.memory.len)>> /\ asked = <<>>
          /\ asked' = asked /\ hw' = hw /\ cpu' = cpu /\ mmu' = mmu
      BY <1>1, <1>5, <2>1 DEF Beginning, Before, SplitOffFirmware
    <2>3. hw.memory \in Regions /\ hw.fd \in Regions /\ hw.fd.len > 0
      BY <1>2, MachineFacts
    <2>4. Beginning' /\ pc' \in Before \cup Reserving \cup After
      BY <2>1 DEF Beginning, Before, Reserving, After
    <2>5. ApartIn(list', asked') /\ asked' \in Seq(Regions)
      BY <2>2 DEF ApartIn
    <2>6. /\ list' \in Seq(Hobs) /\ Disjoint(list') /\ InMemory(list')
          /\ CoveredBy(list', asked')
      <3>1. CASE Within(hw.fd, hw.memory)
        <4>1. list' = SplitFirmware(list, hw.fd, hw.memory)
          BY <1>5, <3>1 DEF SplitOffFirmware
        <4>2. /\ list' \in Seq(Hobs) /\ Disjoint(list')
              /\ \A k \in DOMAIN list' : Within(list'[k], hw.memory)
              /\ \A q \in Regions : q.len > 0 /\ Within(q, hw.memory) /\ ~Meets(q, hw.fd)
                   => Holders(list', q) # {}
          BY <2>2, <2>3, <3>1, <4>1, SplitKeeps
        <4> QED BY <4>2 DEF InMemory, CoveredBy
      <3>2. CASE ~Within(hw.fd, hw.memory)
        <4>1. list' = list
          BY <1>5, <3>2 DEF SplitOffFirmware
        <4>2. InMemory(list) /\ list \in Seq(Hobs)
          BY <1>1, <2>1 DEF Types, Before
        <4>3. CoveredBy(list, asked)
          <5> SUFFICES ASSUME NEW q \in Regions, Within(q, hw.memory)
                       PROVE  Holders(list, q) # {}
            BY DEF CoveredBy
          <5>1. hw.memory.base \in Nat /\ hw.memory.len \in Nat
            BY <2>3 DEF Regions
          <5> DEFINE block == Hob("system", hw.memory.base, hw.memory.len)
          <5>2. block.type = "system" /\ block.base = hw.memory.base
                /\ block.len = hw.memory.len
            BY <5>1, HobFacts
          <5>3. Within(q, block)
            BY <5>2 DEF Within, Top
          <5> HIDE DEF block
          <5>4. list = <<block>>
            BY <2>2 DEF block
          <5>5. 1 \in DOMAIN list /\ list[1].type = "system" /\ Within(q, list[1])
            BY <5>2, <5>3, <5>4
          <5> QED BY <5>5 DEF Holders
        <4> QED BY <1>1, <2>2, <4>1, <4>2, <4>3
      <3> QED BY <3>1, <3>2
    <2> QED BY <1>2, <2>2, <2>4, <2>5, <2>6, InvFromParts
  <1>6. CASE ReserveFrameBuffer
    <2>1. CASE ValidFrameBuffer
      <3>1. pc = "FrameBuffer" /\ pc' = "Carveouts"
        BY <1>2, <1>6, <2>1, StepOrder DEF ReserveFrameBuffer, Finish
      <3>2. pc \in Reserving /\ pc' \in Reserving
        BY <3>1 DEF Reserving
      <3>3. hw.fb \in Regions
        BY <1>2, MachineFacts
      <3> QED BY <1>2, <1>6, <2>1, <3>2, <3>3, InvIfReserve DEF ReserveFrameBuffer
    <2>2. CASE ~ValidFrameBuffer
      BY <1>2, <1>6, <2>2, InvIfListStays DEF ReserveFrameBuffer, After
    <2> QED BY <2>1, <2>2
  <1>7. CASE ReserveCarveout
    <2>1. pc \in Reserving /\ pc' \in Reserving /\ cpu' \in 1..(Len(hw.cpus) + 1)
      BY <1>2, <1>7 DEF ReserveCarveout, Reserving
    <2>2. Carveout(hw.cpus[cpu]) \in Regions
      BY <1>2, <1>7, CarveoutIsRegion, MachineFacts DEF ReserveCarveout
    <2> QED BY <1>2, <1>7, <2>1, <2>2, InvIfReserve DEF ReserveCarveout
  <1>8. CASE MissingCarveout
    <2>1. pc' \in After \/ (pc \in Reserving /\ pc' \in Reserving)
      BY <1>8 DEF MissingCarveout, After, Reserving
    <2>2. cpu' \in 1..(Len(hw.cpus) + 1)
      BY <1>2, <1>8 DEF MissingCarveout
    <2> QED BY <1>2, <1>8, <2>1, <2>2, InvIfListStays DEF MissingCarveout
  <1>9. CASE CarveoutsDone
    <2>1. pc = "Carveouts" /\ pc' \in {"Ramdisk", "Mmu"}
      BY <1>2, <1>9, StepOrder DEF CarveoutsDone, Finish
    <2>2. pc' \in After \/ (pc \in Reserving /\ pc' \in Reserving)
      BY <2>1 DEF After, Reserving
    <2> QED BY <1>2, <1>9, <2>2, InvIfListStays DEF CarveoutsDone
  <1>10. CASE ReserveRamdiskWindow
    <2>1. pc = "Ramdisk" /\ pc' = "LowMemory"
      BY <1>2, <1>10, StepOrder DEF ReserveRamdiskWindow, Finish
    <2>2. pc \in Reserving /\ pc' \in Reserving
      BY <2>1 DEF Reserving
    <2>3. hw.window \in Regions
      BY <1>2, MachineFacts
    <2>4. CASE hw.window.base # 0 /\ hw.window.len # 0
      BY <1>2, <1>10, <2>2, <2>3, <2>4, InvIfReserve DEF ReserveRamdiskWindow
    <2>5. CASE ~(hw.window.base # 0 /\ hw.window.len # 0)
      BY <1>2, <1>10, <2>2, <2>5, InvIfListStays DEF ReserveRamdiskWindow
    <2> QED BY <2>4, <2>5
  <1>11. CASE DeclareLowMemory
    <2>1. pc = "LowMemory" /\ pc' = "Mmu"
      BY <1>2, <1>11, StepOrder DEF DeclareLowMemory, Finish
    <2>2. CASE hw.low.len = 0
      BY <1>2, <1>11, <2>1, <2>2, InvIfListStays DEF DeclareLowMemory, After
    <2>3. CASE hw.low.len # 0
      <3> DEFINE backing == Region(hw.backing, hw.low.len)
                 n == ReserveMemoryRegion(list, backing)
                 low == Hob("system", hw.low.base, hw.low.len)
      <3>1. list' = Append(n, low) /\ asked' = Append(asked, backing)
        BY <1>11, <2>3 DEF DeclareLowMemory
      <3>2. hw.low.base \in Nat /\ hw.low.len \in Nat /\ hw.backing \in Nat
            /\ hw.memory.base \in Nat /\ hw.memory.len \in Nat /\ ~Meets(hw.memory, hw.low)
        BY <1>2, MachineFacts DEF Regions
      <3>3. backing \in Regions
        BY <3>2 DEF Region, Regions
      <3>4. low \in Hobs /\ low.base = hw.low.base /\ low.len = hw.low.len
        BY <3>2, HobFacts
      <3>5. pc \in Reserving /\ pc \in Before \cup Reserving
        BY <2>1 DEF Reserving
      <3>6. /\ n \in Seq(Hobs) /\ Append(asked, backing) \in Seq(Regions)
            /\ Disjoint(n) /\ ApartIn(n, Append(asked, backing)) /\ InMemory(n)
        BY <1>1, <1>2, <3>3, <3>5, ReserveApart DEF Types
      <3> HIDE DEF n, low, backing
      <3>7. \A k \in DOMAIN n : ~Meets(n[k], low) /\ ~Meets(low, n[k])
        <4> SUFFICES ASSUME NEW k \in DOMAIN n
                     PROVE  ~Meets(n[k], low) /\ ~Meets(low, n[k])
          OBVIOUS
        <4>1. Within(n[k], hw.memory)
          BY <3>6 DEF InMemory
        <4>2. n[k].base \in Nat /\ n[k].len \in Nat
          BY <3>6, ListFacts
        <4>3. ~Meets(hw.memory, low)
          BY <3>2, <3>4 DEF Meets, Top
        <4> QED BY <3>2, <3>4, <4>1, <4>2, <4>3, PartApart
      <3>8. /\ list' \in Seq(Hobs) /\ asked' \in Seq(Regions)
            /\ Disjoint(list') /\ ApartIn(list', asked')
        BY <1>2, <3>1, <3>4, <3>6, <3>7, AppendApart
      <3>9. Beginning' /\ pc' \in After /\ pc' \notin Before \cup Reserving
        BY <2>1 DEF Beginning, Before, After, Reserving
      <3>10. hw' = hw /\ cpu' = cpu /\ mmu' = mmu
        BY <1>11 DEF DeclareLowMemory
      <3> QED BY <1>2, <3>8, <3>9, <3>10, InvFromParts
    <2> QED BY <2>2, <2>3
  <1>12. CASE InitMmu
    <2>1. pc' = "Core"
      BY <1>2, <1>12, StepOrder DEF InitMmu, Finish
    <2>2. pc' \in After
      BY <2>1 DEF After
    <2> QED BY <1>2, <1>12, <2>2, InvIfListStays DEF InitMmu
  <1>13. CASE BootRamdiskHelperDxeInitialize
    <2>1. pc' = "end"
      BY <1>2, <1>13, StepOrder DEF BootRamdiskHelperDxeInitialize, Finish
    <2>2. pc' \in After
      BY <2>1 DEF After
    <2> QED BY <1>2, <1>13, <2>2, InvIfListStays DEF BootRamdiskHelperDxeInitialize
  <1>14. CASE LoadDxeCore
    <2>1. pc' \in After
      BY <1>2, <1>14, StepOrder DEF LoadDxeCore, Finish, After
    <2> QED BY <1>2, <1>14, <2>1, InvIfListStays DEF LoadDxeCore
  <1>15. CASE UNCHANGED vars
    <2>1. Beginning' /\ pc' \in Before \cup Reserving \cup After
      BY <1>1, <1>15 DEF vars, Beginning, Types
    <2> QED BY <1>1, <1>2, <1>15, <2>1, InvFromParts DEF vars, Types
  <1> QED BY <1>3, <1>4, <1>5, <1>6, <1>7, <1>8, <1>9, <1>10, <1>11, <1>12, <1>13, <1>14, <1>15
      DEF Next

THEOREM Invariant == Spec => []Inv
  BY InitInv, NextInv, PTL DEF Spec

\* Types: every block is system or reserved memory and no length is negative.
THEOREM TypesHold == Spec => []TypeOk
  <1>1. Inv => TypeOk
    <2> SUFFICES ASSUME Inv
                 PROVE  TypeOk
      OBVIOUS
    <2>1. \A i \in DOMAIN list :
            list[i].type \in {"system", "reserved"} /\ list[i].base \in Nat /\ list[i].len \in Nat
      BY ListFacts DEF Inv, Types
    <2> QED BY <2>1 DEF Inv, Types, TypeOk, Before, Reserving, After
  <1> QED BY <1>1, Invariant, PTL

\* No page is described twice, whatever ReserveMemoryRegion is asked for and wherever
\* the firmware device lies.
THEOREM BlocksStayDisjoint == Spec => []HobsDisjoint
  <1>1. Inv => HobsDisjoint
    BY DEF Inv
  <1> QED BY <1>1, Invariant, PTL

\* A region of memory that the firmware device does not meet, and no region asked for
\* before meets or cuts, is reserved.
THEOREM ApartStaysReserved == Spec => []ApartIsReserved
  <1>1. Inv => ApartIsReserved
    BY DEF Inv
  <1> QED BY <1>1, Invariant, PTL

(***************************************************************************)
(* The RAM disk and the frame buffer                                       *)
(***************************************************************************)
ImageFits == hw.image <= (hw.window.len - 1) % \h100000

\* The window has been asked for, and a RAM disk is what the image's header says.
RamdiskInv ==
    /\ /\ Family = "T810X" /\ pc \in {"LowMemory", "Mmu", "Core", "Dxe", "end"}
       /\ hw.window.base # 0 /\ hw.window.len # 0
       => \E k \in DOMAIN asked : asked[k] = hw.window
    /\ ramdisk # Absent =>
          /\ pc = "end" /\ ramdisk = Payload /\ hw.window.base # 0
          /\ hw.image > 0 /\ ImageFits

LEMMA AskedStays ==
  ASSUME Inv, [Next]_vars, NEW k \in DOMAIN asked
  PROVE  k \in DOMAIN asked' /\ asked'[k] = asked[k]
  <1>1. asked' = asked \/ \E r \in Regions : asked' = Append(asked, r)
    <2>1. \A r : Reserve(r) => asked' = Append(asked, r)
      BY DEF Reserve
    <2>2. hw \in Machines
      BY DEF Inv, Types
    <2>3. CASE ReserveFrameBuffer
      BY <2>1, <2>2, <2>3, MachineFacts DEF ReserveFrameBuffer
    <2>4. CASE ReserveCarveout
      <3>1. Carveout(hw.cpus[cpu]) \in Regions
        BY <2>2, <2>4, CarveoutIsRegion, MachineFacts DEF ReserveCarveout, Inv, Types
      <3> QED BY <2>1, <2>4, <3>1 DEF ReserveCarveout
    <2>5. CASE ReserveRamdiskWindow
      BY <2>1, <2>2, <2>5, MachineFacts DEF ReserveRamdiskWindow
    <2>6. CASE DeclareLowMemory
      <3>1. Region(hw.backing, hw.low.len) \in Regions
        BY <2>2, MachineFacts DEF Region, Regions
      <3> QED BY <2>6, <3>1 DEF DeclareLowMemory
    <2> QED BY <2>3, <2>4, <2>5, <2>6
        DEF Next, vars, EarlySetup, DeclareMemory, SplitOffFirmware, MissingCarveout,
            CarveoutsDone, InitMmu, LoadDxeCore, BootRamdiskHelperDxeInitialize
  <1>2. asked \in Seq(Regions)
    BY DEF Inv, Types
  <1> QED BY <1>1, <1>2

LEMMA MachineStays ==
  ASSUME [Next]_vars
  PROVE  hw' = hw
  BY DEF Next, vars, EarlySetup, DeclareMemory, SplitOffFirmware, ReserveFrameBuffer,
         ReserveCarveout, MissingCarveout, CarveoutsDone, ReserveRamdiskWindow,
         DeclareLowMemory, InitMmu, LoadDxeCore, BootRamdiskHelperDxeInitialize

LEMMA RamdiskStep ==
  ASSUME Inv, RamdiskInv, [Next]_vars
  PROVE  RamdiskInv'
  <1> DEFINE Asked == \E k \in DOMAIN asked : asked[k] = hw.window
             Owed == /\ Family = "T810X" /\ pc \in {"LowMemory", "Mmu", "Core", "Dxe", "end"}
                     /\ hw.window.base # 0 /\ hw.window.len # 0
             Given == /\ pc = "end" /\ ramdisk = Payload /\ hw.window.base # 0
                      /\ hw.image > 0 /\ ImageFits
  <1>1. hw \in Machines /\ hw' = hw /\ asked \in Seq(Regions)
    BY MachineStays DEF Inv, Types
  <1>2. Asked => Asked'
    BY <1>1, AskedStays
  <1>3. (Owed => Asked) /\ (ramdisk # Absent => Given)
    BY DEF RamdiskInv
  <1>4. Payload' = Payload /\ Family' = Family /\ ImageFits' = ImageFits
    BY <1>1, SMT DEF Payload, Family, ImageFits
  <1> SUFFICES (Owed => Asked)' /\ (ramdisk # Absent => Given)'
    BY DEF RamdiskInv
  <1>5. CASE ReserveRamdiskWindow
    <2>1. pc = "Ramdisk" /\ pc' = "LowMemory" /\ ramdisk' = ramdisk
      BY <1>1, <1>5, StepOrder DEF ReserveRamdiskWindow, Finish
    <2>2. ASSUME hw.window.base # 0, hw.window.len # 0
          PROVE  Asked'
      <3>1. asked' = Append(asked, hw.window)
        BY <1>5, <2>2 DEF ReserveRamdiskWindow, Reserve
      <3>2. hw.window \in Regions
        BY <1>1, MachineFacts
      <3>3. Len(asked) + 1 \in DOMAIN asked' /\ asked'[Len(asked) + 1] = hw.window
        BY <1>1, <3>1, <3>2
      <3> QED BY <1>1, <3>3
    <2> QED BY <1>1, <1>3, <2>1, <2>2
  <1>6. CASE DeclareLowMemory
    <2>1. pc = "LowMemory" /\ pc' = "Mmu" /\ ramdisk' = ramdisk
      BY <1>1, <1>6, StepOrder DEF DeclareLowMemory, Finish
    <2> QED BY <1>1, <1>2, <1>3, <1>4, <2>1
  <1>7. CASE InitMmu
    <2>1. pc = "Mmu" /\ pc' = "Core" /\ ramdisk' = ramdisk
      BY <1>1, <1>7, StepOrder DEF InitMmu, Finish
    <2> QED BY <1>1, <1>2, <1>3, <1>4, <2>1
  <1>8. CASE BootRamdiskHelperDxeInitialize
    <2>1. pc = "Dxe" /\ pc' = "end"
      BY <1>1, <1>8, StepOrder DEF BootRamdiskHelperDxeInitialize, Finish
    <2>2. ramdisk = Absent
      BY <1>3, <2>1
    <2>3. \/ ramdisk' = ramdisk
          \/ ramdisk' = Payload /\ hw.window.base # 0 /\ hw.image > 0 /\ ImageFits
      BY <1>8, SMT DEF BootRamdiskHelperDxeInitialize, ImageFits
    <2>4. ramdisk' # Absent => Given'
      BY <1>1, <1>4, <2>1, <2>2, <2>3 DEF Absent
    <2> QED BY <1>1, <1>2, <1>3, <1>4, <2>1, <2>4
  <1>9. CASE UNCHANGED vars
    BY <1>1, <1>2, <1>3, <1>4, <1>9 DEF vars
  <1>10. CASE \/ EarlySetup \/ DeclareMemory \/ SplitOffFirmware \/ ReserveFrameBuffer
              \/ ReserveCarveout \/ MissingCarveout \/ CarveoutsDone
    <2>1. pc \in {"EarlySetup", "Memory", "Firmware", "FrameBuffer", "Carveouts"}
          /\ ramdisk' = ramdisk
      BY <1>10 DEF EarlySetup, DeclareMemory, SplitOffFirmware, ReserveFrameBuffer,
                   ReserveCarveout, MissingCarveout, CarveoutsDone, Finish
    <2>2. \/ pc' \in {"EarlySetup", "Memory", "Firmware", "FrameBuffer", "Carveouts",
                      "Ramdisk", "hung"}
          \/ pc' = "Mmu" /\ Family # "T810X"
      <3>1. pc' = pc \/ pc' = "hung" \/ Finish(pc)
        BY <1>10 DEF EarlySetup, DeclareMemory, SplitOffFirmware, ReserveFrameBuffer,
                     ReserveCarveout, MissingCarveout, CarveoutsDone, Finish
      <3>2. CASE pc' = pc \/ pc' = "hung"
        BY <2>1, <3>2
      <3>3. CASE Finish(pc)
        BY <1>1, <2>1, <3>3, StepOrder, MachineFacts
      <3> QED BY <3>1, <3>2, <3>3
    <2>3. ramdisk = Absent
      BY <1>3, <2>1
    <2> QED BY <1>4, <2>1, <2>2, <2>3 DEF Absent
  <1>11. CASE LoadDxeCore
    <2>1. pc = "Core" /\ pc' \in {"Dxe", "hung"} /\ ramdisk' = ramdisk
      BY <1>1, <1>11, StepOrder DEF LoadDxeCore, Finish
    <2> QED BY <1>1, <1>2, <1>3, <1>4, <2>1
  <1> QED BY <1>5, <1>6, <1>7, <1>8, <1>9, <1>10, <1>11 DEF Next

\* Among equal requests, one is the first.
LEMMA FirstRequest ==
  ASSUME NEW a \in Seq(Regions), NEW w, \E k \in DOMAIN a : a[k] = w
  PROVE  \E k \in DOMAIN a : a[k] = w /\ \A j \in 1..(k - 1) : a[j] # w
  <1> DEFINE K == {k \in DOMAIN a : a[k] = w}
  <1>1. K \subseteq Nat /\ K # {}
    OBVIOUS
  <1>2. IsWellFoundedOn(OpToRel(<, Nat), Nat)
    BY NatLessThanWellFounded
  <1> HIDE DEF K
  <1>3. PICK k \in K : \A j \in K : ~(<<j, k>> \in OpToRel(<, Nat))
    BY <1>1, <1>2, WFMin
  <1>4. ASSUME NEW j \in 1..(k - 1), a[j] = w
        PROVE  FALSE
    <2>1. j \in K /\ j < k
      BY <1>1, <1>4 DEF K
    <2>2. <<j, k>> \in Nat \X Nat /\ <<j, k>>[1] < <<j, k>>[2]
      BY <1>1, <2>1
    <2>3. <<j, k>> \in OpToRel(<, Nat)
      BY <2>2 DEF OpToRel
    <2> QED BY <1>3, <2>1, <2>3
  <1> QED BY <1>3, <1>4 DEF K

LEMMA PieceOf ==
  ASSUME NEW w \in Regions, NEW h \in Hobs, Within(w, h), NEW b \in Nat, NEW n \in Nat,
         w.base <= b, b + n <= w.base + w.len
  PROVE  Within(Region(b, n), h)
  <1>1. Region(b, n).base = b /\ Region(b, n).len = n
    BY DEF Region
  <1>2. w.base \in Nat /\ w.len \in Nat /\ h.base \in Nat /\ h.len \in Nat
    BY DEF Regions, Hobs
  <1>3. h.base <= w.base /\ w.base + w.len <= h.base + h.len
    BY DEF Within, Top
  <1>4. h.base <= b /\ b + n <= h.base + h.len
    BY <1>2, <1>3
  <1> QED BY <1>1, <1>4 DEF Within, Top

LEMMA RamdiskInWindow ==
  ASSUME Inv, RamdiskInv
  PROVE  RamdiskReserved
  <1> SUFFICES ASSUME ramdisk # Absent, Family = "T810X", hw.window.len > 0,
                      Within(hw.window, hw.memory), ~Meets(hw.window, hw.fd),
                      \A k \in DOMAIN asked :
                         asked[k] # hw.window => ~Collide(asked[k], hw.window)
               PROVE  Reserved(ramdisk) /\ Reserved(Region(hw.window.base, 1))
    BY DEF RamdiskReserved
  <1>1. /\ pc = "end" /\ ramdisk = Payload /\ hw.window.base # 0
        /\ hw.image > 0 /\ ImageFits
    BY DEF RamdiskInv
  <1>2. /\ hw \in Machines /\ asked \in Seq(Regions) /\ list \in Seq(Hobs)
        /\ hw.window.base \in Nat /\ hw.window.len \in Nat /\ hw.image \in Int
    BY MachineFacts DEF Inv, Types, Regions
  <1>3. \E k \in DOMAIN asked : asked[k] = hw.window
    BY <1>1 DEF RamdiskInv
  <1>4. PICK k \in DOMAIN asked :
          asked[k] = hw.window /\ \A j \in 1..(k - 1) : asked[j] # hw.window
    BY <1>2, <1>3, FirstRequest
  <1>5. \A j \in 1..(k - 1) : ~Collide(asked[j], asked[k])
    BY <1>2, <1>4
  <1>6. Reserved(hw.window)
    BY <1>4, <1>5 DEF Inv, ApartIsReserved
  <1>7. PICK i \in DOMAIN list : list[i].type = "reserved" /\ Within(hw.window, list[i])
    BY <1>6 DEF Reserved
  <1>8. list[i] \in Hobs /\ hw.window \in Regions
    BY <1>2, ListFacts, MachineFacts
  <1>9. hw.image <= hw.window.len - 1
    <2> DEFINE n == hw.window.len - 1
               m == n % \h100000
    <2>1. \A x \in Nat : x % \h100000 \in Int /\ x % \h100000 <= x
      BY SMT
    <2>2. n \in Nat
      BY <1>2
    <2>3. hw.image <= m
      BY <1>1, SMT DEF ImageFits
    <2> HIDE DEF n
    <2>4. m \in Int /\ m <= n
      BY <2>1, <2>2, SMT
    <2> HIDE DEF m
    <2>5. hw.image <= n
      BY <1>2, <2>2, <2>3, <2>4
    <2> QED BY <2>5 DEF n
  <1>10. Within(ramdisk, list[i])
    <2>1. /\ hw.window.base + 1 \in Nat /\ hw.image \in Nat
          /\ hw.window.base <= hw.window.base + 1
          /\ (hw.window.base + 1) + hw.image <= hw.window.base + hw.window.len
      <3>1. \A b, l \in Nat, n \in Int : n > 0 /\ n <= l - 1 =>
              b + 1 \in Nat /\ n \in Nat /\ b <= b + 1 /\ (b + 1) + n <= b + l
        OBVIOUS
      <3> QED BY <1>1, <1>2, <1>9, <3>1
    <2>2. ramdisk = Region(hw.window.base + 1, hw.image)
      BY <1>1 DEF Payload
    <2> QED BY <1>7, <1>8, <2>1, <2>2, PieceOf
  <1>11. Within(Region(hw.window.base, 1), list[i])
    <2>1. /\ hw.window.base <= hw.window.base
          /\ hw.window.base + 1 <= hw.window.base + hw.window.len
      BY <1>2
    <2> QED BY <1>2, <1>7, <1>8, <2>1, PieceOf
  <1> QED BY <1>7, <1>10, <1>11 DEF Reserved

\* A RAM disk registered in place lies in memory that was reserved for it, whatever size
\* the image claims, where nothing is in the window's way.
THEOREM RamdiskStaysReserved == Spec => []RamdiskReserved
  <1>1. Init => RamdiskInv
    BY DEF Init, RamdiskInv
  <1>2. Inv /\ RamdiskInv /\ [Next]_vars => RamdiskInv'
    BY RamdiskStep
  <1>3. Inv /\ RamdiskInv => RamdiskReserved
    BY RamdiskInWindow
  <1> QED BY <1>1, <1>2, <1>3, Invariant, PTL DEF Spec

\* The MMU is only turned on with a table whose rows are aligned.
MmuInv == mmu = "on" => ~hw.unaligned \/ Family = "T600X"

LEMMA MmuStep ==
  ASSUME Inv, MmuInv, [Next]_vars
  PROVE  MmuInv'
  <1>1. hw' = hw /\ Family' = Family
    BY MachineStays DEF Family
  <1>2. mmu' = mmu \/ InitMmu
    BY DEF Next, vars, EarlySetup, DeclareMemory, SplitOffFirmware, ReserveFrameBuffer,
           ReserveCarveout, MissingCarveout, CarveoutsDone, ReserveRamdiskWindow,
           DeclareLowMemory, InitMmu, LoadDxeCore, BootRamdiskHelperDxeInitialize
  <1>3. CASE InitMmu
    BY <1>1, <1>3 DEF InitMmu, MmuInv
  <1> QED BY <1>1, <1>2, <1>3 DEF MmuInv

Rows == [base : Nat, len : Nat, attributes : {"device", "cached", "uncached", "end"}]

LEMMA DeviceRow ==
  ASSUME NEW b \in Nat, NEW n \in Nat
  PROVE  D(b, n) \in Rows
  BY DEF D, Row, Rows

LEMMA DeviceRowsAreRows ==
  ASSUME hw \in Machines
  PROVE  DeviceRows[Family] \in Seq(Rows)
  <1>1. T810XDevices \in Seq(Rows)
    BY DeviceRow DEF T810XDevices
  <1>2. T600XDie0 \in Seq(Rows)
    BY DeviceRow DEF T600XDie0
  <1>3. T600XDie1 \in Seq(Rows)
    BY DeviceRow DEF T600XDie1
  <1>4. T602XDie0 \in Seq(Rows)
    BY <1>2, DeviceRow DEF T602XDie0
  <1>5. /\ T600XDie0 \o T600XDie1 \in Seq(Rows)
        /\ T602XDie0 \o T602XDie1 \in Seq(Rows)
    BY <1>2, <1>3, <1>4 DEF T602XDie1
  <1>6. /\ DeviceRows["T810X"] = T810XDevices
        /\ DeviceRows["T600X"] = T600XDie0 \o T600XDie1
        /\ DeviceRows["T602X"] = T602XDie0 \o T602XDie1
    BY DEF DeviceRows
  <1> QED BY <1>1, <1>5, <1>6, MachineFacts

LEMMA TwoMore ==
  ASSUME NEW s \in Seq(Rows), NEW a \in Rows, NEW b \in Rows
  PROVE  LET v == s \o <<a, b>> IN
         /\ Len(s) \in Nat /\ Len(v) = Len(s) + 2 /\ v \in Seq(Rows)
         /\ v[Len(s) + 1] = a /\ v[Len(s) + 2] = b
  <1> DEFINE t == <<a, b>>
             v == s \o t
  <1>1. t \in Seq(Rows) /\ Len(t) = 2 /\ t[1] = a /\ t[2] = b /\ Len(s) \in Nat
    OBVIOUS
  <1> HIDE DEF t
  <1>2. /\ Len(v) = Len(s) + Len(t) /\ v \in Seq(Rows)
        /\ \A k \in 1..(Len(s) + Len(t)) : v[k] = IF k <= Len(s) THEN s[k] ELSE t[k - Len(s)]
    BY <1>1, ConcatProperties
  <1> HIDE DEF v
  <1>3. /\ Len(s) + 1 \in 1..(Len(s) + Len(t)) /\ Len(s) + 2 \in 1..(Len(s) + Len(t))
        /\ ~(Len(s) + 1 <= Len(s)) /\ ~(Len(s) + 2 <= Len(s))
        /\ (Len(s) + 1) - Len(s) = 1 /\ (Len(s) + 2) - Len(s) = 2
    BY <1>1
  <1>4. v[Len(s) + 1] = t[1] /\ v[Len(s) + 2] = t[2]
    BY <1>2, <1>3
  <1> QED BY <1>1, <1>2, <1>4 DEF v, t

\* The table ends with the frame buffer's row and an empty one.
LEMMA TableEnds ==
  ASSUME hw \in Machines
  PROVE  /\ Len(VirtualMemoryTable) \in Nat
         /\ DOMAIN VirtualMemoryTable = 1..Len(VirtualMemoryTable)
         /\ Len(VirtualMemoryTable) >= 2
         /\ VirtualMemoryTable[Len(VirtualMemoryTable) - 1] = FrameBufferRow
         /\ VirtualMemoryTable[Len(VirtualMemoryTable)] = Row(0, 0, "end")
  <1> DEFINE s == DeviceRows[Family] \o MemoryRows
             t == <<FrameBufferRow, Row(0, 0, "end")>>
  <1>1. FrameBufferRow \in Rows /\ Row(0, 0, "end") \in Rows
    <2>1. hw.fb.base \in Nat /\ hw.fb.len \in Nat
      BY MachineFacts DEF Regions
    <2> QED BY <2>1 DEF FrameBufferRow, Row, Rows
  <1>2. MemoryRows \in Seq(Rows)
    <2>1. /\ hw.memory.base \in Nat /\ hw.memory.len \in Nat
          /\ hw.low.base \in Nat /\ hw.low.len \in Nat
      BY MachineFacts DEF Regions
    <2>2. /\ Row(hw.memory.base, hw.memory.len, "cached") \in Rows
          /\ Row(hw.low.base, hw.low.len, "cached") \in Rows
      BY <2>1 DEF Row, Rows
    <2> QED BY <2>2 DEF MemoryRows
  <1>3. s \in Seq(Rows)
    BY <1>2, DeviceRowsAreRows
  <1> DEFINE v == VirtualMemoryTable
  <1>5. v = s \o t
    BY DEF VirtualMemoryTable
  <1> HIDE DEF s, v
  <1>6. /\ Len(s) \in Nat /\ Len(v) = Len(s) + 2 /\ v \in Seq(Rows)
        /\ v[Len(s) + 1] = FrameBufferRow /\ v[Len(s) + 2] = Row(0, 0, "end")
    BY <1>1, <1>3, <1>5, TwoMore
  <1>7. /\ Len(v) \in Nat /\ DOMAIN v = 1..Len(v) /\ Len(v) >= 2
        /\ v[Len(v) - 1] = FrameBufferRow /\ v[Len(v)] = Row(0, 0, "end")
    <2>1. Len(v) - 1 = Len(s) + 1
      BY <1>6
    <2> QED BY <1>6, <2>1
  <1> QED BY <1>7 DEF v

LEMMA FrameBufferRowCounts ==
  ASSUME Inv, MmuInv
  PROVE  FrameBufferUncached
  <1> SUFFICES ASSUME mmu = "on", Within(hw.fb, hw.memory)
               PROVE  MappedAs(FullPages(hw.fb), "uncached")
    BY DEF FrameBufferUncached
  <1>1. hw \in Machines /\ hw.fb.base \in Nat /\ hw.fb.len \in Nat
    BY MachineFacts DEF Inv, Types, Regions
  <1> DEFINE n == Len(VirtualMemoryTable)
             row == VirtualMemoryTable[n - 1]
             last == VirtualMemoryTable[n]
  <1>2. /\ n \in Nat /\ n >= 2 /\ DOMAIN VirtualMemoryTable = 1..n
        /\ row = FrameBufferRow /\ last = Row(0, 0, "end")
    BY <1>1, TableEnds
  <1>3. row.attributes = "uncached" /\ last.len = 0
    BY <1>2 DEF FrameBufferRow, Row
  <1>4. Within(FullPages(hw.fb), row)
    <2>1. CASE hw.unaligned
      <3>1. row = Row(hw.fb.base + 1, hw.fb.len, "uncached")
        BY <1>2, <2>1 DEF MmuInv, FrameBufferRow
      <3>2. FullPages(hw.fb) = Region(hw.fb.base + 1, hw.fb.len - 1)
        BY <2>1 DEF FullPages
      <3> QED BY <1>1, <3>1, <3>2 DEF Row, Region, Within, Top
    <2>2. CASE ~hw.unaligned
      <3>1. row = Row(hw.fb.base, hw.fb.len, "uncached")
        BY <1>2, <2>2 DEF FrameBufferRow
      <3>2. FullPages(hw.fb) = hw.fb
        BY <2>2 DEF FullPages
      <3> QED BY <1>1, <3>1, <3>2 DEF Row, Within, Top
    <2> QED BY <2>1, <2>2
  <1>5. \A j \in 1..n : j > n - 1 => ~Meets(FullPages(hw.fb), VirtualMemoryTable[j])
    <2> SUFFICES ASSUME NEW j \in 1..n, j > n - 1
                 PROVE  ~Meets(FullPages(hw.fb), VirtualMemoryTable[j])
      OBVIOUS
    <2>1. j = n
      <3>1. \A x \in Nat : \A y \in 1..x : y > x - 1 => y = x
        OBVIOUS
      <3> HIDE DEF n
      <3> QED BY <1>2, <3>1
    <2> QED BY <1>3, <2>1 DEF Meets
  <1>6. n - 1 \in 1..n
    BY <1>2
  <1> QED BY <1>2, <1>3, <1>4, <1>5, <1>6 DEF MappedAs

\* Once the MMU is on, every full page of a frame buffer in memory is mapped uncached,
\* whatever rows come before, on every family.
THEOREM FrameBufferStaysUncached == Spec => []FrameBufferUncached
  <1>1. Init => MmuInv
    BY DEF Init, MmuInv
  <1>2. Inv /\ MmuInv /\ [Next]_vars => MmuInv'
    BY MmuStep
  <1>3. Inv /\ MmuInv => FrameBufferUncached
    BY FrameBufferRowCounts
  <1> QED BY <1>1, <1>2, <1>3, Invariant, PTL DEF Spec

(***************************************************************************)
(* No hole in memory                                                       *)
(***************************************************************************)
HoldsIn(l, p) == \E i \in DOMAIN l : Holds(l[i], p)

LEMMA PageFacts ==
  ASSUME NEW p \in Nat, NEW r, r.base \in Nat, r.len \in Nat
  PROVE  /\ Region(p, 1) \in Regions /\ Region(p, 1).len > 0
         /\ Within(Region(p, 1), r) <=> Holds(r, p)
         /\ Meets(r, Region(p, 1)) <=> Holds(r, p)
         /\ Meets(Region(p, 1), r) <=> Holds(r, p)
         /\ ~Cuts(r, Region(p, 1))
  <1> DEFINE page == Region(p, 1)
  <1>1. page \in Regions /\ page.base = p /\ page.len = 1
    BY DEF Region, Regions
  <1> HIDE DEF page
  <1>2. /\ page.len > 0
        /\ Within(page, r) <=> Holds(r, p)
        /\ Meets(r, page) <=> Holds(r, p)
        /\ Meets(page, r) <=> Holds(r, p)
        /\ ~Cuts(r, page)
    BY <1>1 DEF Within, Meets, Holds, Cuts, Top
  <1> QED BY <1>1, <1>2 DEF page

LEMMA HoldsInPart ==
  ASSUME NEW p \in Nat, NEW r, NEW s, {r.base, r.len, s.base, s.len} \subseteq Nat,
         Within(r, s), Holds(r, p)
  PROVE  Holds(s, p)
  BY DEF Within, Holds, Top

\* A page that the search for system memory finds is described.
LEMMA FoundIsDescribed ==
  ASSUME NEW l \in Seq(Hobs), NEW p \in Nat, NEW r \in Regions, Holds(r, p),
         Holders(l, r) # {}
  PROVE  HoldsIn(l, p)
  <1>1. PICK k \in DOMAIN l : Within(r, l[k])
    BY DEF Holders
  <1>2. {r.base, r.len, l[k].base, l[k].len} \subseteq Nat
    BY ListFacts DEF Regions
  <1> QED BY <1>1, <1>2, HoldsInPart DEF HoldsIn

\* Reserving a region loses no page.
LEMMA ReserveHolds ==
  ASSUME NEW l \in Seq(Hobs), Disjoint(l), NEW r \in Regions, NEW p \in Nat, HoldsIn(l, p)
  PROVE  HoldsIn(ReserveMemoryRegion(l, r), p)
  <1> DEFINE n == ReserveMemoryRegion(l, r)
             page == Region(p, 1)
  <1>1. CASE Holders(l, r) = {}
    BY <1>1 DEF ReserveMemoryRegion
  <1>2. CASE Holders(l, r) # {}
    <2>1. /\ n \in Seq(Hobs)
          /\ \A k \in DOMAIN l : l[k].type = "reserved" => k \in DOMAIN n /\ n[k] = l[k]
          /\ \E k \in DOMAIN n : n[k].type = "reserved" /\ Within(r, n[k])
          /\ \A q \in Regions : q.len > 0 /\ Holders(l, q) # {} /\ ~Meets(r, q) /\ ~Cuts(r, q)
                => Holders(n, q) # {}
      BY <1>2, ReserveKeeps
    <2> HIDE DEF n
    <2> SUFFICES HoldsIn(n, p)
      BY DEF n
    <2>2. r.base \in Nat /\ r.len \in Nat
      BY DEF Regions
    <2>3. page \in Regions /\ page.len > 0 /\ ~Cuts(r, page) /\ (Meets(r, page) <=> Holds(r, p))
      BY <2>2, PageFacts
    <2>4. PICK m \in DOMAIN l : Holds(l[m], p)
      BY DEF HoldsIn
    <2>5. l[m].type \in {"system", "reserved"} /\ l[m].base \in Nat /\ l[m].len \in Nat
      BY ListFacts
    <2>6. CASE l[m].type = "reserved"
      BY <2>1, <2>4, <2>6 DEF HoldsIn
    <2>7. CASE Holds(r, p)
      <3>1. PICK k \in DOMAIN n : Within(r, n[k])
        BY <2>1
      <3>2. {r.base, r.len, n[k].base, n[k].len} \subseteq Nat
        BY <2>1, <2>2, ListFacts
      <3> QED BY <2>7, <3>1, <3>2, HoldsInPart DEF HoldsIn
    <2>8. CASE l[m].type = "system" /\ ~Holds(r, p)
      <3>1. Within(page, l[m])
        BY <2>4, <2>5, PageFacts
      <3>2. Holders(l, page) # {}
        BY <2>8, <3>1 DEF Holders
      <3> HIDE DEF page
      <3>3. Holders(n, page) # {}
        BY <2>1, <2>3, <2>8, <3>2
      <3>4. page.base \in Nat /\ page.base = p /\ page.len = 1
        BY DEF page, Region
      <3>5. Holds(page, p)
        BY <3>4 DEF Holds, Top
      <3> QED BY <2>1, <2>3, <3>3, <3>5, FoundIsDescribed
    <2> QED BY <2>5, <2>6, <2>7, <2>8
  <1> QED BY <1>1, <1>2

\* Nor does splitting off the firmware device.
LEMMA SplitHolds ==
  ASSUME NEW m \in Regions, NEW fd \in Regions, fd.len > 0, Within(fd, m),
         NEW p \in Nat, Holds(m, p)
  PROVE  HoldsIn(SplitFirmware(<<Hob("system", m.base, m.len)>>, fd, m), p)
  <1> DEFINE n == SplitFirmware(<<Hob("system", m.base, m.len)>>, fd, m)
             page == Region(p, 1)
  <1>1. /\ n \in Seq(Hobs)
        /\ \A q \in Regions : q.len > 0 /\ Within(q, m) /\ ~Meets(q, fd) => Holders(n, q) # {}
        /\ Holders(n, fd) # {}
    BY SplitKeeps
  <1> HIDE DEF n
  <1>2. CASE Holds(fd, p)
    BY <1>1, <1>2, FoundIsDescribed DEF n
  <1>3. CASE ~Holds(fd, p)
    <2>1. m.base \in Nat /\ m.len \in Nat /\ fd.base \in Nat /\ fd.len \in Nat
      BY DEF Regions
    <2>2. page \in Regions /\ page.len > 0 /\ Within(page, m) /\ ~Meets(page, fd)
      BY <1>3, <2>1, PageFacts
    <2>3. page.base = p /\ page.len = 1
      BY DEF Region
    <2> HIDE DEF page
    <2>4. Holds(page, p)
      BY <2>3 DEF Holds, Top
    <2> QED BY <1>1, <2>2, <2>4, FoundIsDescribed DEF n
  <1> QED BY <1>2, <1>3

LEMMA AppendHolds ==
  ASSUME NEW l \in Seq(Hobs), NEW x \in Hobs, NEW p
  PROVE  HoldsIn(Append(l, x), p) <=> HoldsIn(l, p) \/ Holds(x, p)
  <1> DEFINE n == Append(l, x)
  <1>1. /\ Len(n) = Len(l) + 1 /\ n[Len(l) + 1] = x /\ n \in Seq(Hobs)
        /\ \A k \in DOMAIN l : k \in DOMAIN n /\ n[k] = l[k]
        /\ \A k \in DOMAIN n : k \in DOMAIN l \/ k = Len(l) + 1
    OBVIOUS
  <1>2. Len(l) + 1 \in DOMAIN n
    BY <1>1
  <1> HIDE DEF n
  <1> QED BY <1>1, <1>2 DEF HoldsIn, n

\* Every page of a window is described by some block.
NoHole(l, window) == \A p \in Nat : Holds(window, p) => HoldsIn(l, p)

\* No block describes anything else.
Inside(l) == \A i \in DOMAIN l : Within(l[i], hw.memory) \/ Within(l[i], hw.low)

KeptInv ==
    /\ pc \in Reserving => list # <<>>
    /\ list # <<>> =>
         /\ NoHole(list, hw.memory)
         /\ LowMemoryDeclared => NoHole(list, hw.low)
         /\ Inside(list)

\* What is to be shown of a step.
LEMMA KeptFromParts ==
  ASSUME hw' = hw, pc' \in Reserving => list' # <<>>,
         list' # <<>> =>
            /\ NoHole(list', hw.memory) /\ Inside(list')
            /\ LowMemoryDeclared' => NoHole(list', hw.low)
  PROVE  KeptInv'
  <1>1. list' # <<>> => (NoHole(list, hw.memory) /\ Inside(list)
                         /\ (LowMemoryDeclared => NoHole(list, hw.low)))'
    BY DEF NoHole, HoldsIn, Inside
  <1> QED BY <1>1 DEF KeptInv

\* A step that leaves the blocks alone.
LEMMA KeptIfListStays ==
  ASSUME KeptInv, hw' = hw, list' = list, LowMemoryDeclared' => LowMemoryDeclared,
         pc' \in Reserving => pc \in Reserving
  PROVE  KeptInv'
  BY KeptFromParts DEF KeptInv

\* A step before the low window is declared, after which the blocks describe all of
\* memory and nothing more.
LEMMA KeptIfMemoryIs ==
  ASSUME hw' = hw, ~LowMemoryDeclared', NoHole(list', hw.memory), InMemory(list'),
         list' # <<>>
  PROVE  KeptInv'
  BY KeptFromParts DEF Inside, InMemory

\* Reserving a region in a list of blocks that describe all of memory.
LEMMA ReserveKeepsMemory ==
  ASSUME Inv, KeptInv, pc \in Reserving, NEW r \in Regions
  PROVE  LET n == ReserveMemoryRegion(list, r) IN
         /\ n \in Seq(Hobs) /\ n # <<>> /\ InMemory(n) /\ NoHole(n, hw.memory)
  <1> DEFINE n == ReserveMemoryRegion(list, r)
  <1>1. /\ hw \in Machines /\ list \in Seq(Hobs) /\ asked \in Seq(Regions)
        /\ Disjoint(list) /\ ApartIn(list, asked)
        /\ InMemory(list) /\ CoveredBy(list, asked)
    BY Restated DEF Inv, Types
  <1>2. list # <<>> /\ NoHole(list, hw.memory)
    BY DEF KeptInv
  <1>3. n \in Seq(Hobs) /\ InMemory(n)
    BY <1>1, ReserveApart
  <1>4. Len(list) <= Len(n)
    BY <1>1, ReserveKeeps
  <1>5. NoHole(n, hw.memory)
    BY <1>1, <1>2, ReserveHolds DEF NoHole
  <1> HIDE DEF n
  <1>6. n # <<>>
    BY <1>1, <1>2, <1>3, <1>4
  <1> QED BY <1>3, <1>5, <1>6 DEF n

LEMMA KeptIfReserve ==
  ASSUME Inv, KeptInv, hw' = hw, NEW r \in Regions, Reserve(r), pc \in Reserving,
         pc' \in Reserving
  PROVE  KeptInv'
  <1>1. list' # <<>> /\ InMemory(list') /\ NoHole(list', hw.memory)
    BY ReserveKeepsMemory DEF Reserve
  <1>2. ~LowMemoryDeclared'
    BY DEF LowMemoryDeclared, Reserving
  <1> QED BY <1>1, <1>2, KeptIfMemoryIs

LEMMA KeptStep ==
  ASSUME Inv, KeptInv, [Next]_vars
  PROVE  KeptInv'
  <1>1. hw' = hw /\ hw \in Machines /\ Family' = Family /\ pc \in Before \cup Reserving \cup After
    BY MachineStays DEF Inv, Types, Family
  <1>2. ASSUME list' = list, pc' \notin Reserving, pc' \notin {"Mmu", "Core", "Dxe", "end"}
        PROVE  KeptInv'
    BY <1>1, <1>2, KeptIfListStays DEF LowMemoryDeclared
  <1>3. CASE EarlySetup
    <2>1. pc' = "Memory" /\ list' = list
      BY <1>1, <1>3, StepOrder DEF EarlySetup, Finish
    <2> QED BY <1>2, <2>1 DEF Reserving
  <1>4. CASE DeclareMemory
    <2>1. CASE Len(VirtualMemoryTable) <= MaxDescriptors[Family]
      <3> DEFINE block == Hob("system", hw.memory.base, hw.memory.len)
      <3>1. pc = "Memory" /\ pc' = "Firmware"
        BY <1>1, <1>4, <2>1, StepOrder DEF DeclareMemory, Finish
      <3>2. list = <<>> /\ list' = <<block>>
        BY <1>4, <2>1, <3>1 DEF Inv, Beginning, DeclareMemory
      <3>3. hw.memory.base \in Nat /\ hw.memory.len \in Nat
        BY <1>1, MachineFacts DEF Regions
      <3>4. block.base = hw.memory.base /\ block.len = hw.memory.len
        BY DEF Hob
      <3> HIDE DEF block
      <3>5. Within(block, hw.memory) /\ \A p \in Nat : Holds(hw.memory, p) => Holds(block, p)
        BY <3>3, <3>4 DEF Within, Holds, Top
      <3>6. InMemory(list') /\ NoHole(list', hw.memory) /\ list' # <<>>
        BY <3>2, <3>5 DEF InMemory, NoHole, HoldsIn
      <3>7. ~LowMemoryDeclared'
        BY <3>1 DEF LowMemoryDeclared
      <3> QED BY <1>1, <3>6, <3>7, KeptIfMemoryIs
    <2>2. CASE ~(Len(VirtualMemoryTable) <= MaxDescriptors[Family])
      <3>1. pc' = "hung" /\ list' = list
        BY <1>4, <2>2 DEF DeclareMemory
      <3> QED BY <1>2, <3>1 DEF Reserving
    <2> QED BY <2>1, <2>2
  <1>5. CASE SplitOffFirmware
    <2>1. /\ pc = "Firmware" /\ pc' \in {"FrameBuffer", "Carveouts", "Mmu"}
          /\ Family = "T810X" => pc' = "FrameBuffer"
      BY <1>1, <1>5, StepOrder DEF SplitOffFirmware, Finish
    <2>2. /\ list = <<Hob("system", hw.memory.base, hw.memory.len)>>
          /\ InMemory(list) /\ NoHole(list, hw.memory)
      <3>1. list = <<Hob("system", hw.memory.base, hw.memory.len)>>
        BY <2>1 DEF Inv, Beginning
      <3>2. list # <<>>
        BY <3>1
      <3> QED BY <2>1, <3>1, <3>2 DEF Inv, KeptInv, Before
    <2>3. hw.memory \in Regions /\ hw.fd \in Regions /\ hw.fd.len > 0
      BY <1>1, MachineFacts
    <2>4. InMemory(list') /\ NoHole(list', hw.memory) /\ list' # <<>>
      <3>1. CASE Within(hw.fd, hw.memory)
        <4>1. list' = SplitFirmware(list, hw.fd, hw.memory)
          BY <1>5, <3>1 DEF SplitOffFirmware
        <4>2. /\ \A k \in DOMAIN list' : Within(list'[k], hw.memory)
              /\ Holders(list', hw.fd) # {}
          BY <2>2, <2>3, <3>1, <4>1, SplitKeeps
        <4>3. NoHole(list', hw.memory)
          BY <2>2, <2>3, <3>1, <4>1, SplitHolds DEF NoHole
        <4> QED BY <4>2, <4>3 DEF InMemory, Holders
      <3>2. CASE ~Within(hw.fd, hw.memory)
        <4>1. list' = list
          BY <1>5, <3>2 DEF SplitOffFirmware
        <4> QED BY <2>2, <4>1
      <3> QED BY <3>1, <3>2
    <2>5. ~LowMemoryDeclared'
      BY <1>1, <2>1 DEF LowMemoryDeclared
    <2> QED BY <1>1, <2>4, <2>5, KeptIfMemoryIs
  <1>6. CASE ReserveFrameBuffer
    <2>1. CASE ValidFrameBuffer
      <3>1. pc = "FrameBuffer" /\ pc' = "Carveouts"
        BY <1>1, <1>6, <2>1, StepOrder DEF ReserveFrameBuffer, Finish
      <3>2. pc \in Reserving /\ pc' \in Reserving /\ hw.fb \in Regions
        BY <1>1, <3>1, MachineFacts DEF Reserving
      <3> QED BY <1>1, <1>6, <2>1, <3>2, KeptIfReserve DEF ReserveFrameBuffer
    <2>2. CASE ~ValidFrameBuffer
      <3>1. pc' = "hung" /\ list' = list
        BY <1>6, <2>2 DEF ReserveFrameBuffer
      <3> QED BY <1>2, <3>1 DEF Reserving
    <2> QED BY <2>1, <2>2
  <1>7. CASE ReserveCarveout
    <2>1. pc \in Reserving /\ pc' \in Reserving
      BY <1>7 DEF ReserveCarveout, Reserving
    <2>2. Carveout(hw.cpus[cpu]) \in Regions
      BY <1>1, <1>7, CarveoutIsRegion DEF ReserveCarveout, Inv, Types
    <2> QED BY <1>1, <1>7, <2>1, <2>2, KeptIfReserve DEF ReserveCarveout
  <1>8. CASE MissingCarveout
    <2>1. list' = list /\ (pc' = "hung" \/ (pc' = pc /\ pc = "Carveouts"))
      BY <1>8 DEF MissingCarveout
    <2> QED BY <1>1, <2>1, KeptIfListStays DEF LowMemoryDeclared, Reserving
  <1>9. CASE CarveoutsDone
    <2>1. /\ pc = "Carveouts" /\ pc' \in {"Ramdisk", "Mmu"} /\ list' = list
          /\ Family = "T810X" => pc' = "Ramdisk"
      BY <1>1, <1>9, StepOrder DEF CarveoutsDone, Finish
    <2> QED BY <1>1, <2>1, KeptIfListStays DEF LowMemoryDeclared, Reserving
  <1>10. CASE ReserveRamdiskWindow
    <2>1. pc = "Ramdisk" /\ pc' = "LowMemory"
      BY <1>1, <1>10, StepOrder DEF ReserveRamdiskWindow, Finish
    <2>2. pc \in Reserving /\ pc' \in Reserving /\ hw.window \in Regions
      BY <1>1, <2>1, MachineFacts DEF Reserving
    <2>3. CASE hw.window.base # 0 /\ hw.window.len # 0
      BY <1>1, <1>10, <2>2, <2>3, KeptIfReserve DEF ReserveRamdiskWindow
    <2>4. CASE ~(hw.window.base # 0 /\ hw.window.len # 0)
      <3>1. list' = list
        BY <1>10, <2>4 DEF ReserveRamdiskWindow
      <3> QED BY <1>1, <2>1, <2>2, <3>1, KeptIfListStays DEF LowMemoryDeclared
    <2> QED BY <2>3, <2>4
  <1>11. CASE DeclareLowMemory
    <2>1. pc = "LowMemory" /\ pc' = "Mmu" /\ pc' \notin Reserving /\ pc \in Reserving
      BY <1>1, <1>11, StepOrder DEF DeclareLowMemory, Finish, Reserving
    <2>2. hw.low.base \in Nat /\ hw.low.len \in Nat /\ hw.backing \in Nat
      BY <1>1, MachineFacts DEF Regions
    <2>3. CASE hw.low.len = 0
      <3>1. list' = list /\ list # <<>>
        BY <1>11, <2>1, <2>3 DEF DeclareLowMemory, KeptInv
      <3>2. NoHole(list', hw.memory) /\ Inside(list')
        BY <3>1 DEF KeptInv
      <3>3. NoHole(list', hw.low)
        BY <2>2, <2>3 DEF NoHole, Holds, Top
      <3> QED BY <1>1, <2>1, <3>2, <3>3, KeptFromParts
    <2>4. CASE hw.low.len # 0
      <3> DEFINE backing == Region(hw.backing, hw.low.len)
                 n == ReserveMemoryRegion(list, backing)
                 low == Hob("system", hw.low.base, hw.low.len)
      <3>1. list' = Append(n, low)
        BY <1>11, <2>4 DEF DeclareLowMemory
      <3>2. backing \in Regions
        BY <2>2 DEF Region, Regions
      <3>3. low \in Hobs /\ low.base = hw.low.base /\ low.len = hw.low.len
        BY <2>2, HobFacts
      <3>4. n \in Seq(Hobs) /\ InMemory(n) /\ NoHole(n, hw.memory)
        BY <2>1, <3>2, ReserveKeepsMemory
      <3> HIDE DEF n, low
      <3>5. NoHole(list', hw.memory)
        BY <3>1, <3>3, <3>4, AppendHolds DEF NoHole
      <3>6. \A p \in Nat : Holds(hw.low, p) => Holds(low, p)
        BY <2>2, <3>3 DEF Holds, Top
      <3>7. NoHole(list', hw.low)
        BY <3>1, <3>3, <3>4, <3>6, AppendHolds DEF NoHole
      <3>8. Inside(list')
        <4>1. Within(low, hw.low)
          BY <2>2, <3>3 DEF Within, Top
        <4>2. /\ \A k \in DOMAIN n : list'[k] = n[k]
              /\ \A k \in DOMAIN list' : k \in DOMAIN n \/ list'[k] = low
          BY <3>1, <3>3, <3>4
        <4> QED BY <3>4, <4>1, <4>2 DEF Inside, InMemory
      <3> QED BY <1>1, <2>1, <3>5, <3>7, <3>8, KeptFromParts
    <2> QED BY <2>3, <2>4
  <1>12. CASE InitMmu
    <2>1. pc = "Mmu" /\ pc' = "Core" /\ list' = list
      BY <1>1, <1>12, StepOrder DEF InitMmu, Finish
    <2> QED BY <1>1, <2>1, KeptIfListStays DEF LowMemoryDeclared, Reserving
  <1>13. CASE BootRamdiskHelperDxeInitialize
    <2>1. pc = "Dxe" /\ pc' = "end" /\ list' = list
      BY <1>1, <1>13, StepOrder DEF BootRamdiskHelperDxeInitialize, Finish
    <2> QED BY <1>1, <2>1, KeptIfListStays DEF LowMemoryDeclared, Reserving
  <1>14. CASE LoadDxeCore
    <2>1. pc = "Core" /\ pc' \in {"Dxe", "hung"} /\ list' = list
      BY <1>1, <1>14, StepOrder DEF LoadDxeCore, Finish
    <2> QED BY <1>1, <2>1, KeptIfListStays DEF LowMemoryDeclared, Reserving
  <1>15. CASE UNCHANGED vars
    BY <1>1, <1>15, KeptIfListStays DEF vars, LowMemoryDeclared
  <1> QED BY <1>3, <1>4, <1>5, <1>6, <1>7, <1>8, <1>9, <1>10, <1>11, <1>12, <1>13, <1>14, <1>15
      DEF Next

\* Every page of memory is described by some block, however often memory is punched and
\* wherever the cuts lie; so is every page of the low window once it is declared; and no
\* block describes anything else.
EveryPageDescribed ==
    list # <<>> =>
        /\ \A p \in Nat : Holds(hw.memory, p) => Described(p)
        /\ LowMemoryDeclared => \A p \in Nat : Holds(hw.low, p) => Described(p)
        /\ Inside(list)

LEMMA KeptHolds == Spec => []KeptInv
  <1>1. Init => KeptInv
    BY DEF Init, KeptInv, Reserving
  <1>2. Inv /\ KeptInv /\ [Next]_vars => KeptInv'
    BY KeptStep
  <1> QED BY <1>1, <1>2, Invariant, PTL DEF Spec

\* For every page, not only the ones a hole would begin with: memory is described
\* without a hole, so is the low window, and nothing else is.
THEOREM NoPageIsLost == Spec => []EveryPageDescribed
  <1>1. KeptInv => EveryPageDescribed
    BY DEF KeptInv, EveryPageDescribed, NoHole, HoldsIn, Described
  <1> QED BY <1>1, KeptHolds, PTL

\* What the run checks at the edges follows.
THEOREM MemoryStaysWhole == Spec => []MemoryKept
  <1>1. ASSUME Inv, KeptInv
        PROVE  MemoryKept
    <2>0. hw \in Machines /\ list \in Seq(Hobs)
      BY <1>1 DEF Inv, Types
    <2>1. Edges \subseteq Nat
      <3>1. hw.memory.base \in Nat /\ hw.low.base \in Nat
        BY <2>0, MachineFacts DEF Regions
      <3>2. ASSUME NEW i \in DOMAIN list
            PROVE  Top(list[i]) \in Nat
        <4>1. list[i].base \in Nat /\ list[i].len \in Nat
          BY <2>0, ListFacts
        <4> QED BY <4>1 DEF Top
      <3> QED BY <3>1, <3>2 DEF Edges
    <2> QED BY <1>1, <2>1 DEF KeptInv, MemoryKept, NoHole, HoldsIn, Described, Inside
  <1> QED BY <1>1, Invariant, KeptHolds, PTL
=============================================================================
