--------------------------- MODULE PageSwap_proofs ---------------------------
(***************************************************************************)
(* Proofs about PageSwap, for any number of pages, slots, buckets and page *)
(* frames, any memory that programs ask for and every way to the disk.     *)
(* Handles that move are left out (~Moves): PSC_Move_Loop loses their      *)
(* pages.                                                                  *)
(***************************************************************************)
EXTENDS PageSwap, FiniteSetTheorems, TLAPS

(***************************************************************************)
(* The least of some natural numbers.                                      *)
(***************************************************************************)
LEMMA LeastNat ==
  ASSUME NEW T \in SUBSET Nat, T # {}
  PROVE  \E x \in T : \A y \in T : x <= y
  <1> DEFINE R == OpToRel(<, Nat)
  <1>1. IsWellFoundedOn(R, Nat)
    BY NatLessThanWellFounded
  <1>2. \A m, n \in Nat : m < n => <<m, n>> \in R
    BY DEF OpToRel
  <1> HIDE DEF R
  <1>3. \E x \in T : \A y \in T : <<y, x>> \notin R
    BY <1>1, WFMin
  <1>4. PICK x \in T : \A y \in T : <<y, x>> \notin R
    BY <1>3
  <1>5. \A y \in T : y \in Nat /\ x \in Nat
    OBVIOUS
  <1>6. \A y \in T : ~(y < x)
    BY <1>2, <1>4, <1>5
  <1>7. \A y \in T : x <= y
    BY <1>5, <1>6
  <1> QED
    BY <1>7

(***************************************************************************)
(* Chains.  From(next, s) is the least set that holds s and is closed      *)
(* under the links; Chain also covers the empty list.                      *)
(***************************************************************************)
Link == Slots \cup {Nil}
Links == [Slots -> Link]
Closed(next, C) == \A c \in C : next[c] \in C \cup {Nil}
Chain(next, h) == IF h = Nil THEN {} ELSE From(next, h)

LEMMA NilNoSlot == Nil \notin Slots
  BY DEF Nil, Slots

LEMMA FromIs ==
  ASSUME NEW next \in Links, NEW s \in Slots
  PROVE  /\ From(next, s) \in SUBSET Slots /\ s \in From(next, s)
         /\ Closed(next, From(next, s))
  <1>1. From(next, s) \in SUBSET Slots /\ s \in From(next, s)
    BY DEF From
  <1>2. ASSUME NEW t \in From(next, s), next[t] # Nil PROVE next[t] \in From(next, s)
    <2>1. next[t] \in Slots
      BY <1>1, <1>2 DEF Links, Link
    <2>2. ASSUME NEW C \in SUBSET Slots, s \in C, Closed(next, C) PROVE next[t] \in C
      <3>1. t \in C
        BY <2>2 DEF From, Closed
      <3> QED
        BY <3>1, <2>2, <1>2 DEF Closed
    <2> QED
      BY <2>1, <2>2 DEF From, Closed
  <1> QED
    BY <1>1, <1>2 DEF Closed

LEMMA FromLeast ==
  ASSUME NEW next, NEW s, NEW C \in SUBSET Slots, s \in C, Closed(next, C)
  PROVE  From(next, s) \subseteq C
  BY DEF From, Closed

\* The first slot, and the chain of the others.
LEMMA FromStep ==
  ASSUME NEW next \in Links, NEW s \in Slots
  PROVE  From(next, s) = {s} \cup Chain(next, next[s])
  <1>0. next[s] \in Link
    BY DEF Links
  <1>1. CASE next[s] = Nil
    <2>1. {s} \in SUBSET Slots /\ s \in {s} /\ Closed(next, {s})
      BY <1>1 DEF Closed
    <2>2. From(next, s) \subseteq {s}
      BY <2>1, FromLeast
    <2> QED
      BY <2>2, <1>1, FromIs DEF Chain
  <1>2. CASE next[s] # Nil
    <2>1. next[s] \in Slots
      BY <1>0, <1>2 DEF Link
    <2> DEFINE C == {s} \cup From(next, next[s])
    <2>2. /\ From(next, next[s]) \in SUBSET Slots /\ next[s] \in From(next, next[s])
          /\ Closed(next, From(next, next[s]))
      BY <2>1, FromIs
    <2>3. Closed(next, C)
      BY <2>2 DEF Closed
    <2>4. From(next, s) \subseteq C
      BY <2>2, <2>3, FromLeast
    <2>5. /\ From(next, s) \in SUBSET Slots /\ s \in From(next, s)
          /\ Closed(next, From(next, s))
      BY FromIs
    <2>6. next[s] \in From(next, s)
      BY <2>5, <1>2 DEF Closed
    <2>7. From(next, next[s]) \subseteq From(next, s)
      BY <2>5, <2>6, FromLeast
    <2> QED
      BY <2>4, <2>5, <2>7, <1>2 DEF Chain
  <1> QED
    BY <1>1, <1>2

\* The chain of a slot on a chain is part of it.
LEMMA FromWithin ==
  ASSUME NEW next \in Links, NEW s \in Slots, NEW t \in From(next, s)
  PROVE  From(next, t) \subseteq From(next, s)
  BY FromIs, FromLeast

\* Links that agree on a chain give the same chain.
LEMMA FromAgree ==
  ASSUME NEW next \in Links, NEW other \in Links, NEW s \in Slots,
         \A t \in From(next, s) : other[t] = next[t]
  PROVE  From(other, s) = From(next, s)
  <1>1. /\ From(next, s) \in SUBSET Slots /\ s \in From(next, s)
        /\ Closed(next, From(next, s))
    BY FromIs
  <1>2. /\ From(other, s) \in SUBSET Slots /\ s \in From(other, s)
        /\ Closed(other, From(other, s))
    BY FromIs
  <1>3. Closed(other, From(next, s))
    BY <1>1 DEF Closed
  <1>4. From(other, s) \subseteq From(next, s)
    BY <1>1, <1>3, FromLeast
  <1>5. Closed(next, From(other, s))
    BY <1>2, <1>4 DEF Closed
  <1>6. From(next, s) \subseteq From(other, s)
    BY <1>2, <1>5, FromLeast
  <1> QED
    BY <1>4, <1>6

LEMMA ChainIs ==
  ASSUME NEW next \in Links, NEW h \in Link
  PROVE  /\ Chain(next, h) \in SUBSET Slots
         /\ h # Nil => h \in Chain(next, h)
         /\ Closed(next, Chain(next, h))
         /\ \A t \in Chain(next, h) : /\ From(next, t) \subseteq Chain(next, h)
                                      /\ Chain(next, next[t]) \subseteq Chain(next, h)
  <1>1. CASE h = Nil
    BY <1>1 DEF Chain, Closed
  <1>2. CASE h # Nil
    <2>1. h \in Slots
      BY <1>2 DEF Link
    <2>2. /\ From(next, h) \in SUBSET Slots /\ h \in From(next, h)
          /\ Closed(next, From(next, h))
      BY <2>1, FromIs
    <2>3. ASSUME NEW t \in From(next, h)
          PROVE  From(next, t) \subseteq From(next, h) /\ Chain(next, next[t]) \subseteq From(next, h)
      <3>1. t \in Slots
        BY <2>2
      <3>2. From(next, t) \subseteq From(next, h)
        BY <2>1, FromWithin
      <3>3. From(next, t) = {t} \cup Chain(next, next[t])
        BY <3>1, FromStep
      <3> QED
        BY <3>2, <3>3
    <2> QED
      BY <1>2, <2>2, <2>3 DEF Chain
  <1> QED
    BY <1>1, <1>2

LEMMA ChainAgree ==
  ASSUME NEW next \in Links, NEW other \in Links, NEW h \in Link,
         \A t \in Chain(next, h) : other[t] = next[t]
  PROVE  Chain(other, h) = Chain(next, h)
  <1>1. CASE h = Nil
    BY <1>1 DEF Chain
  <1>2. CASE h # Nil
    <2>1. h \in Slots
      BY <1>2 DEF Link
    <2> QED
      BY <2>1, <1>2, FromAgree DEF Chain
  <1> QED
    BY <1>1, <1>2

\* Nothing on the list is reached again from its successor.
Loopless(next, S) == \A t \in S : t \notin Chain(next, next[t])

LEMMA LooplessAgree ==
  ASSUME NEW next \in Links, NEW other \in Links, NEW h \in Link,
         Loopless(next, Chain(next, h)),
         \A t \in Chain(next, h) : other[t] = next[t]
  PROVE  Loopless(other, Chain(other, h))
  <1>1. Chain(other, h) = Chain(next, h)
    BY ChainAgree
  <1>2. ASSUME NEW t \in Chain(next, h) PROVE t \notin Chain(other, other[t])
    <2>1. t \in Slots /\ Chain(next, next[t]) \subseteq Chain(next, h)
      BY ChainIs
    <2>2. next[t] \in Link
      BY <2>1 DEF Links
    <2>3. Chain(other, next[t]) = Chain(next, next[t])
      BY <2>1, <2>2, ChainAgree
    <2> QED
      BY <2>3 DEF Loopless
  <1> QED
    BY <1>1, <1>2 DEF Loopless

(***************************************************************************)
(* One slot taken out of a list: the links go around s.                    *)
(***************************************************************************)
Around(next, other, s, S) ==
  \A t \in S : other[t] = IF next[t] = s THEN next[s] ELSE next[t]

LEMMA CutFrom ==
  ASSUME NEW next \in Links, NEW other \in Links, NEW h \in Link,
         NEW s \in Chain(next, h), NEW u \in Chain(next, h) \ {s},
         Loopless(next, Chain(next, h)), Around(next, other, s, Chain(next, h))
  PROVE  From(other, u) = From(next, u) \ {s}
  <1>1. u \in Slots /\ s \in Slots /\ From(next, u) \subseteq Chain(next, h)
    BY ChainIs
  <1>2. /\ From(next, u) \in SUBSET Slots /\ u \in From(next, u)
        /\ Closed(next, From(next, u))
    BY <1>1, FromIs
  <1>3. /\ From(other, u) \in SUBSET Slots /\ u \in From(other, u)
        /\ Closed(other, From(other, u))
    BY <1>1, FromIs
  <1>4. next[s] # s
    <2>1. next[s] = Nil \/ next[s] \in Chain(next, next[s])
      BY <1>1, ChainIs DEF Links
    <2>2. s # Nil
      BY <1>1, NilNoSlot
    <2> QED
      BY <2>1, <2>2 DEF Loopless
  <1>5. From(other, u) \subseteq From(next, u) \ {s}
    <2> DEFINE C == From(next, u) \ {s}
    <2>1. ASSUME NEW t \in C PROVE other[t] \in C \cup {Nil}
      <3>1. t \in Chain(next, h) /\ next[t] \in From(next, u) \cup {Nil}
        BY <1>1, <1>2 DEF Closed
      <3>2. CASE next[t] = s
        <4>1. s \in From(next, u)
          BY <3>1, <3>2, <1>1, NilNoSlot
        <4>2. next[s] \in From(next, u) \cup {Nil}
          BY <4>1, <1>2 DEF Closed
        <4> QED
          BY <3>1, <3>2, <4>2, <1>4 DEF Around
      <3>3. CASE next[t] # s
        BY <3>1, <3>3 DEF Around
      <3> QED
        BY <3>2, <3>3
    <2>2. C \in SUBSET Slots /\ u \in C /\ Closed(other, C)
      BY <2>1, <1>2 DEF Closed
    <2> HIDE DEF C
    <2>3. From(other, u) \subseteq C
      BY <2>2, FromLeast
    <2> QED
      BY <2>3 DEF C
  <1>6. From(next, u) \ {s} \subseteq From(other, u)
    <2>1. CASE \E t \in From(other, u) : next[t] = s
      <3> DEFINE C == {s} \cup From(other, u)
      <3>1. PICK t \in From(other, u) : next[t] = s
        BY <2>1
      <3>2. other[t] = next[s] /\ other[t] \in From(other, u) \cup {Nil}
        BY <3>1, <1>3, <1>5, <1>1 DEF Around, Closed
      <3>3. ASSUME NEW c \in From(other, u) PROVE next[c] \in C \cup {Nil}
        <4>1. other[c] \in From(other, u) \cup {Nil} /\ c \in Chain(next, h)
          BY <1>3, <1>5, <1>1 DEF Closed
        <4> QED
          BY <4>1 DEF Around
      <3>4. C \in SUBSET Slots /\ u \in C /\ Closed(next, C)
        BY <3>2, <3>3, <1>1, <1>3 DEF Closed
      <3> HIDE DEF C
      <3>5. From(next, u) \subseteq C
        BY <3>4, FromLeast
      <3> QED
        BY <3>5 DEF C
    <2>2. CASE \A t \in From(other, u) : next[t] # s
      <3>1. Closed(next, From(other, u))
        BY <2>2, <1>3, <1>5, <1>1 DEF Closed, Around
      <3> QED
        BY <3>1, <1>3, FromLeast
    <2> QED
      BY <2>1, <2>2
  <1> QED
    BY <1>5, <1>6

LEMMA CutChain ==
  ASSUME NEW next \in Links, NEW other \in Links, NEW h \in Link,
         NEW s \in Chain(next, h),
         Loopless(next, Chain(next, h)), Around(next, other, s, Chain(next, h))
  PROVE  LET g == IF h = s THEN next[s] ELSE h
         IN  /\ Chain(other, g) = Chain(next, h) \ {s}
             /\ Loopless(other, Chain(other, g))
  <1> DEFINE A == Chain(next, h)
             g == IF h = s THEN next[s] ELSE h
  <1>1. A \in SUBSET Slots /\ s \in Slots /\ h # Nil /\ h \in Slots /\ next[s] \in Link
    BY ChainIs DEF Chain, Links, Link
  <1>2. A = {h} \cup Chain(next, next[h])
    BY <1>1, FromStep DEF Chain
  <1>3. s # Nil /\ next[s] # s
    <2>1. next[s] = Nil \/ next[s] \in Chain(next, next[s])
      BY <1>1, ChainIs
    <2>2. s # Nil
      BY <1>1, NilNoSlot
    <2> QED
      BY <2>1, <2>2 DEF Loopless
  <1>4. ASSUME NEW u \in A \ {s} PROVE From(other, u) = From(next, u) \ {s}
    BY CutFrom
  <1>5. Chain(other, g) = A \ {s}
    <2>1. CASE h # s
      <3>1. h \in A \ {s} /\ g = h
        BY <2>1, <1>2
      <3> QED
        BY <3>1, <1>4, <1>1 DEF Chain
    <2>2. CASE h = s /\ next[s] = Nil
      BY <2>2, <1>2 DEF Chain
    <2>3. CASE h = s /\ next[s] # Nil
      <3>1. A = {s} \cup From(next, next[s]) /\ next[s] \in From(next, next[s])
        BY <2>3, <1>1, <1>2, ChainIs DEF Chain
      <3>2. s \notin From(next, next[s])
        BY <2>3 DEF Loopless, Chain
      <3>3. next[s] \in A \ {s} /\ g = next[s]
        BY <3>1, <2>3, <1>3
      <3> QED
        BY <3>1, <3>2, <3>3, <1>4, <2>3 DEF Chain
    <2> QED
      BY <2>1, <2>2, <2>3
  <1>6. ASSUME NEW t \in A \ {s} PROVE t \notin Chain(other, other[t])
    <2>1. t \in Slots /\ next[t] \in Link /\ t \notin Chain(next, next[t])
      BY <1>1 DEF Loopless, Links
    <2>2. next[t] # Nil => next[t] \in A
      <3>1. Closed(next, A)
        BY ChainIs
      <3> QED
        BY <3>1 DEF Closed
    <2>3. CASE next[t] # s
      <3>1. other[t] = next[t]
        BY <2>3 DEF Around
      <3>2. CASE next[t] = Nil
        BY <3>1, <3>2 DEF Chain
      <3>3. CASE next[t] # Nil
        <4>1. From(other, next[t]) = From(next, next[t]) \ {s}
          BY <2>2, <2>3, <3>3, <1>4
        <4> QED
          BY <4>1, <3>1, <3>3, <2>1 DEF Chain
      <3> QED
        BY <3>2, <3>3
    <2>4. CASE next[t] = s
      <3>1. other[t] = next[s] /\ next[t] # Nil
        BY <2>4, <1>3 DEF Around
      <3>2. CASE next[s] = Nil
        BY <3>1, <3>2 DEF Chain
      <3>3. CASE next[s] # Nil
        <4>1. next[s] \in A
          <5>1. Closed(next, A)
            BY ChainIs
          <5> QED
            BY <5>1, <3>3 DEF Closed
        <4>2. From(other, next[s]) = From(next, next[s]) \ {s}
          BY <4>1, <1>3, <1>4
        <4>3. Chain(next, next[t]) = {s} \cup From(next, next[s])
          BY <2>4, <3>1, <3>3, <1>1, FromStep DEF Chain
        <4> QED
          BY <4>2, <4>3, <3>1, <3>3, <2>1 DEF Chain
      <3> QED
        BY <3>2, <3>3
    <2> QED
      BY <2>3, <2>4
  <1> QED
    BY <1>5, <1>6 DEF Loopless

(***************************************************************************)
(* A slot put at the head of a list it was not on.                         *)
(***************************************************************************)
LEMMA PutFirst ==
  ASSUME NEW next \in Links, NEW other \in Links, NEW h \in Link, NEW s \in Slots,
         Loopless(next, Chain(next, h)), s \notin Chain(next, h), other[s] = h,
         \A t \in Chain(next, h) : other[t] = next[t]
  PROVE  /\ Chain(other, s) = {s} \cup Chain(next, h)
         /\ Loopless(other, Chain(other, s))
  <1>1. s # Nil
    BY NilNoSlot
  <1>2. Chain(other, h) = Chain(next, h) /\ Loopless(other, Chain(other, h))
    BY ChainAgree, LooplessAgree
  <1>3. Chain(other, s) = {s} \cup Chain(other, other[s])
    BY <1>1, FromStep DEF Chain
  <1> QED
    BY <1>2, <1>3 DEF Loopless

(***************************************************************************)
(* The lists of a file: no slot is on two of them, none has a loop.        *)
(***************************************************************************)
Tidy(f) ==
  /\ \A l, m \in Lists : l # m => On(f, l) \cap On(f, m) = {}
  /\ \A l \in Lists : Loopless(f.next, On(f, l))

Unlisted(f, s) == \A l \in Lists : s \notin On(f, l)

\* Only the links differ.
OnlyLinks(f, g) ==
  /\ g \in File
  /\ g.entry = f.entry /\ g.recent = f.recent /\ g.count = f.count
  /\ g.cur = f.cur /\ g.max = f.max /\ g.victim = f.victim

LEMMA FileFields ==
  ASSUME NEW f \in File
  PROVE  /\ f.next \in Links /\ f.first \in [Lists -> Link]
         /\ f.entry \in [Slots -> Int] /\ f.recent \in SUBSET Slots
         /\ f.count \in 0 .. MaxPages /\ f.cur \in 1 .. MaxPages
         /\ f.max \in 1 .. MaxPages /\ f.victim \in Slots
         /\ \A l \in Lists : f.first[l] \in Link
         /\ \A s \in Slots : f.next[s] \in Link
  BY DEF File, Links, Link

LEMMA OnIs ==
  ASSUME NEW f \in File, NEW l \in Lists
  PROVE  /\ On(f, l) = Chain(f.next, f.first[l]) /\ On(f, l) \in SUBSET Slots
         /\ f.first[l] # Nil => f.first[l] \in On(f, l)
         /\ f.first[l] = Nil => On(f, l) = {}
         /\ Closed(f.next, On(f, l))
  <1>1. f.next \in Links /\ f.first[l] \in Link
    BY FileFields
  <1>2. On(f, l) = Chain(f.next, f.first[l])
    BY DEF On, Chain
  <1> QED
    BY <1>1, <1>2, ChainIs DEF Chain

\* A list that keeps its head and its links.
LEMMA SameList ==
  ASSUME NEW f \in File, NEW g \in File, NEW l \in Lists,
         Loopless(f.next, On(f, l)), g.first[l] = f.first[l],
         \A t \in On(f, l) : g.next[t] = f.next[t]
  PROVE  On(g, l) = On(f, l) /\ Loopless(g.next, On(g, l))
  <1>1. On(f, l) = Chain(f.next, f.first[l]) /\ On(g, l) = Chain(g.next, g.first[l])
    BY OnIs
  <1>2. f.next \in Links /\ g.next \in Links /\ f.first[l] \in Link
    BY FileFields
  <1> QED
    BY <1>1, <1>2, ChainAgree, LooplessAgree

LEMMA UnlinkFields ==
  ASSUME NEW f \in File, NEW l \in Lists, NEW s \in Slots
  PROVE  LET g == Unlink(f, l, s)
         IN  /\ OnlyLinks(f, g)
             /\ g.first[l] = IF f.first[l] = s THEN f.next[s] ELSE f.first[l]
             /\ \A m \in Lists \ {l} : g.first[m] = f.first[m]
             /\ Around(f.next, g.next, s, On(f, l))
             /\ \A t \in Slots \ On(f, l) : g.next[t] = f.next[t]
  <1> DEFINE head == IF f.first[l] = s THEN f.next[s] ELSE f.first[l]
             heads == [f.first EXCEPT ![l] = head]
             links == [t \in Slots |-> IF t \in On(f, l) /\ f.next[t] = s
                                       THEN f.next[s] ELSE f.next[t]]
             g == [f EXCEPT !.first = heads, !.next = links]
  <1>1. Unlink(f, l, s) = g
    BY DEF Unlink, File
  <1>2. /\ f.first \in [Lists -> Link] /\ \A t \in Slots : f.next[t] \in Link
        /\ f.first[l] \in Link /\ On(f, l) \in SUBSET Slots
    BY FileFields, OnIs
  <1>3. heads \in [Lists -> Link] /\ links \in Links
    BY <1>2 DEF Links
  <1>4. /\ heads[l] = head /\ \A m \in Lists \ {l} : heads[m] = f.first[m]
        /\ Around(f.next, links, s, On(f, l))
        /\ \A t \in Slots \ On(f, l) : links[t] = f.next[t]
    BY <1>2 DEF Around
  <1> HIDE DEF heads, links
  <1>5. OnlyLinks(f, g) /\ g.first = heads /\ g.next = links
    BY <1>3 DEF OnlyLinks, File, Links, Link
  <1> HIDE DEF g
  <1> QED
    BY <1>1, <1>4, <1>5

LEMMA PushFields ==
  ASSUME NEW f \in File, NEW l \in Lists, NEW s \in Slots
  PROVE  LET g == Push(f, l, s)
         IN  /\ OnlyLinks(f, g)
             /\ g.first[l] = s /\ g.next[s] = f.first[l]
             /\ \A m \in Lists \ {l} : g.first[m] = f.first[m]
             /\ \A t \in Slots \ {s} : g.next[t] = f.next[t]
  <1> DEFINE heads == [f.first EXCEPT ![l] = s]
             links == [f.next EXCEPT ![s] = f.first[l]]
             g == [f EXCEPT !.first = heads, !.next = links]
  <1>1. Push(f, l, s) = g
    BY DEF Push, File
  <1>2. f.first \in [Lists -> Link] /\ f.next \in Links /\ f.first[l] \in Link
    BY FileFields
  <1>3. heads \in [Lists -> Link] /\ links \in Links
    BY <1>2 DEF Links, Link
  <1>4. /\ heads[l] = s /\ \A m \in Lists \ {l} : heads[m] = f.first[m]
        /\ links[s] = f.first[l] /\ \A t \in Slots \ {s} : links[t] = f.next[t]
    BY <1>2 DEF Links
  <1> HIDE DEF heads, links
  <1>5. OnlyLinks(f, g) /\ g.first = heads /\ g.next = links
    BY <1>3 DEF OnlyLinks, File, Links, Link
  <1> HIDE DEF g
  <1> QED
    BY <1>1, <1>4, <1>5

\* What it means that slot s went from list l to list m.
WentTo(f, g, l, m, s) ==
  /\ OnlyLinks(f, g) /\ Tidy(g)
  /\ On(g, l) = On(f, l) \ {s} /\ On(g, m) = On(f, m) \cup {s}
  /\ \A k \in Lists \ {l, m} : On(g, k) = On(f, k)
  /\ \A t \in Slots : Unlisted(f, t) => g.next[t] = f.next[t]

LEMMA UnlinkIs ==
  ASSUME NEW f \in File, Tidy(f), NEW l \in Lists, NEW s \in On(f, l)
  PROVE  LET g == Unlink(f, l, s)
         IN  /\ OnlyLinks(f, g) /\ Tidy(g)
             /\ On(g, l) = On(f, l) \ {s}
             /\ \A k \in Lists \ {l} : On(g, k) = On(f, k)
             /\ \A t \in Slots : Unlisted(f, t) => g.next[t] = f.next[t]
  <1> DEFINE g == Unlink(f, l, s)
  <1>0. s \in Slots
    BY OnIs
  <1>1. /\ OnlyLinks(f, g)
        /\ g.first[l] = IF f.first[l] = s THEN f.next[s] ELSE f.first[l]
        /\ \A m \in Lists \ {l} : g.first[m] = f.first[m]
        /\ Around(f.next, g.next, s, On(f, l))
        /\ \A t \in Slots \ On(f, l) : g.next[t] = f.next[t]
    BY <1>0, UnlinkFields
  <1> HIDE DEF g
  <1>2. g \in File
    BY <1>1 DEF OnlyLinks
  <1>3. On(g, l) = On(f, l) \ {s} /\ Loopless(g.next, On(g, l))
    <2>1. /\ On(f, l) = Chain(f.next, f.first[l]) /\ On(g, l) = Chain(g.next, g.first[l])
          /\ f.next \in Links /\ g.next \in Links /\ f.first[l] \in Link
          /\ Loopless(f.next, On(f, l))
      BY <1>2, OnIs, FileFields DEF Tidy
    <2> QED
      BY <2>1, <1>1, CutChain
  <1>4. ASSUME NEW k \in Lists \ {l}
        PROVE  On(g, k) = On(f, k) /\ Loopless(g.next, On(g, k))
    <2>1. On(f, k) \in SUBSET Slots /\ On(f, k) \cap On(f, l) = {}
      BY OnIs DEF Tidy
    <2>2. \A t \in On(f, k) : g.next[t] = f.next[t]
      BY <2>1, <1>1
    <2>3. Loopless(f.next, On(f, k)) /\ g.first[k] = f.first[k]
      BY <1>1 DEF Tidy
    <2> QED
      BY <2>2, <2>3, <1>2, SameList
  <1>5. Tidy(g)
    BY <1>3, <1>4 DEF Tidy
  <1>6. \A t \in Slots : Unlisted(f, t) => g.next[t] = f.next[t]
    BY <1>1 DEF Unlisted
  <1> QED
    BY <1>1, <1>3, <1>4, <1>5, <1>6 DEF g

LEMMA PushIs ==
  ASSUME NEW f \in File, Tidy(f), NEW l \in Lists, NEW s \in Slots, Unlisted(f, s)
  PROVE  LET g == Push(f, l, s)
         IN  /\ OnlyLinks(f, g) /\ Tidy(g)
             /\ On(g, l) = On(f, l) \cup {s}
             /\ \A k \in Lists \ {l} : On(g, k) = On(f, k)
             /\ \A t \in Slots \ {s} : g.next[t] = f.next[t]
  <1> DEFINE g == Push(f, l, s)
  <1>1. /\ OnlyLinks(f, g)
        /\ g.first[l] = s /\ g.next[s] = f.first[l]
        /\ \A m \in Lists \ {l} : g.first[m] = f.first[m]
        /\ \A t \in Slots \ {s} : g.next[t] = f.next[t]
    BY PushFields
  <1> HIDE DEF g
  <1>2. g \in File
    BY <1>1 DEF OnlyLinks
  <1>3. ASSUME NEW k \in Lists
        PROVE  /\ s \notin On(f, k) /\ On(f, k) \in SUBSET Slots
               /\ Loopless(f.next, On(f, k))
               /\ \A t \in On(f, k) : g.next[t] = f.next[t]
    BY <1>1, OnIs DEF Unlisted, Tidy
  <1>4. On(g, l) = On(f, l) \cup {s} /\ Loopless(g.next, On(g, l))
    <2>1. /\ On(f, l) = Chain(f.next, f.first[l]) /\ On(g, l) = Chain(g.next, g.first[l])
          /\ f.next \in Links /\ g.next \in Links /\ f.first[l] \in Link
      BY <1>2, OnIs, FileFields
    <2> QED
      BY <2>1, <1>1, <1>3, PutFirst
  <1>5. ASSUME NEW k \in Lists \ {l}
        PROVE  On(g, k) = On(f, k) /\ Loopless(g.next, On(g, k))
    BY <1>1, <1>2, <1>3, SameList
  <1>6. Tidy(g)
    BY <1>3, <1>4, <1>5 DEF Tidy
  <1> QED
    BY <1>1, <1>4, <1>5, <1>6 DEF g

LEMMA RelinkIs ==
  ASSUME NEW f \in File, Tidy(f), NEW l \in Lists, NEW m \in Lists, l # m,
         NEW s \in On(f, l)
  PROVE  WentTo(f, Push(Unlink(f, l, s), m, s), l, m, s)
  <1> DEFINE u == Unlink(f, l, s)
             g == Push(u, m, s)
  <1>0. s \in Slots /\ \A k \in Lists \ {l} : s \notin On(f, k)
    BY OnIs DEF Tidy
  <1>1. /\ OnlyLinks(f, u) /\ Tidy(u)
        /\ On(u, l) = On(f, l) \ {s}
        /\ \A k \in Lists \ {l} : On(u, k) = On(f, k)
        /\ \A t \in Slots : Unlisted(f, t) => u.next[t] = f.next[t]
    BY UnlinkIs
  <1> HIDE DEF u
  <1>2. u \in File /\ Unlisted(u, s)
    BY <1>0, <1>1 DEF OnlyLinks, Unlisted
  <1>3. /\ OnlyLinks(u, g) /\ Tidy(g)
        /\ On(g, m) = On(u, m) \cup {s}
        /\ \A k \in Lists \ {m} : On(g, k) = On(u, k)
        /\ \A t \in Slots \ {s} : g.next[t] = u.next[t]
    BY <1>0, <1>1, <1>2, PushIs
  <1> HIDE DEF g
  <1>4. OnlyLinks(f, g)
    BY <1>1, <1>3 DEF OnlyLinks
  <1>5. \A t \in Slots : Unlisted(f, t) => g.next[t] = f.next[t]
    BY <1>1, <1>3 DEF Unlisted
  <1>6. On(g, l) = On(f, l) \ {s} /\ On(g, m) = On(f, m) \cup {s}
    BY <1>1, <1>3
  <1>7. \A k \in Lists \ {l, m} : On(g, k) = On(f, k)
    BY <1>1, <1>3
  <1>8. WentTo(f, g, l, m, s)
    BY <1>3, <1>4, <1>5, <1>6, <1>7 DEF WentTo
  <1> QED
    BY <1>8 DEF g, u

(***************************************************************************)
(* The invariant of the file: a slot is on a list if and only if it is     *)
(* within the file; the entry of a slot in use says its bucket, and no     *)
(* other slot in use has it.                                               *)
(***************************************************************************)
Used(f) == UNION {On(f, b) : b \in Buckets}
Free(f) == On(f, FreeList)

Listed(f) ==
  /\ \A s \in Slots : s < f.cur <=> s \in Used(f) \cup Free(f)
  /\ \A s \in Slots : s >= f.cur => f.next[s] = Nil
  /\ f.count = Cardinality(Free(f))

Hashed(f) ==
  /\ \A b \in Buckets : \A s \in On(f, b) : Bucket(f.entry[s]) = b
  /\ \A s, t \in Used(f) : f.entry[s] = f.entry[t] => s = t
  /\ \A s \in Used(f) : f.entry[s] # 0

FileOK(f) == f \in File /\ Tidy(f) /\ f.cur <= f.max /\ Listed(f) /\ Hashed(f)

LEMMA SlotsFinite ==
  /\ IsFiniteSet(Slots) /\ Cardinality(Slots) = MaxPages
  /\ \A S \in SUBSET Slots : IsFiniteSet(S) /\ Cardinality(S) \in 0 .. MaxPages
  <1>1. IsFiniteSet(Slots) /\ Cardinality(Slots) = MaxPages
    <2>1. 0 \in Int /\ MaxPages - 1 \in Int /\ ~(0 > MaxPages - 1) /\ MaxPages \in Nat
      BY SizeAssumption
    <2> QED
      BY <2>1, FS_Interval DEF Slots
  <1>2. ASSUME NEW S \in SUBSET Slots PROVE IsFiniteSet(S) /\ Cardinality(S) \in 0 .. MaxPages
    <2>1. IsFiniteSet(S) /\ Cardinality(S) <= Cardinality(Slots)
      BY <1>1, FS_Subset
    <2>2. Cardinality(S) \in Nat
      BY <2>1, FS_CardinalityType
    <2> QED
      BY <1>1, <2>1, <2>2, SizeAssumption
  <1> QED
    BY <1>1, <1>2

LEMMA BucketIs ==
  ASSUME NEW p \in Int
  PROVE  Bucket(p) \in Buckets /\ Bucket(p) \in Lists /\ Bucket(p) # FreeList
  <1>1. (p % HashSize) \in 0 .. HashSize - 1
    BY SizeAssumption
  <1> QED
    BY <1>1, SizeAssumption DEF Bucket, Buckets, Lists, FreeList

LEMMA ListsAre ==
  FreeList \in Lists /\ FreeList \notin Buckets /\ Buckets \subseteq Lists
  BY SizeAssumption DEF Lists, FreeList, Buckets

LEMMA UsedFree ==
  ASSUME NEW f, FileOK(f)
  PROVE  /\ Used(f) \in SUBSET Slots /\ Free(f) \in SUBSET Slots
         /\ Used(f) \cap Free(f) = {}
         /\ \A b \in Buckets : On(f, b) \subseteq Used(f)
         /\ \A s \in Used(f) : f.entry[s] \in Int /\ s \in On(f, Bucket(f.entry[s]))
  <1>1. f \in File /\ \A l \in Lists : On(f, l) \in SUBSET Slots
    BY OnIs DEF FileOK
  <1>2. Used(f) \in SUBSET Slots /\ Free(f) \in SUBSET Slots
    BY <1>1, ListsAre DEF Used, Free
  <1>3. Used(f) \cap Free(f) = {}
    <2>1. \A b \in Buckets : On(f, b) \cap On(f, FreeList) = {}
      BY ListsAre DEF FileOK, Tidy
    <2> QED
      BY <2>1 DEF Used, Free
  <1>4. \A s \in Used(f) : f.entry[s] \in Int /\ s \in On(f, Bucket(f.entry[s]))
    BY <1>1, <1>2, FileFields DEF FileOK, Hashed, Used
  <1> QED
    BY <1>2, <1>3, <1>4 DEF Used

LEMMA FindPageIs ==
  ASSUME NEW f, FileOK(f), NEW p \in Int
  PROVE  /\ (\A s \in Used(f) : f.entry[s] # p) => FindPage(f, p) = Nil
         /\ \A s \in Used(f) : f.entry[s] = p => FindPage(f, p) = s /\ s \in On(f, Bucket(p))
         /\ FindPage(f, p) # Nil => FindPage(f, p) \in Used(f) /\ f.entry[FindPage(f, p)] = p
  <1> DEFINE hits  == {s \in On(f, Bucket(p)) : f.entry[s] = p}
             first == {s \in hits : hits \subseteq From(f.next, s)}
  <1>1. FindPage(f, p) = IF first = {} THEN Nil ELSE CHOOSE s \in first : TRUE
    BY DEF FindPage
  <1>2. On(f, Bucket(p)) \subseteq Used(f)
    BY UsedFree, BucketIs
  <1>3. ASSUME NEW s \in Used(f), f.entry[s] = p
        PROVE  FindPage(f, p) = s /\ s \in On(f, Bucket(p))
    <2>1. s \in On(f, Bucket(p))
      BY <1>3, UsedFree
    <2>2. hits = {s}
      BY <2>1, <1>2, <1>3 DEF FileOK, Hashed
    <2>3. s \in From(f.next, s)
      BY UsedFree, FromIs, FileFields DEF FileOK
    <2>4. first = {s}
      BY <2>2, <2>3
    <2> QED
      BY <2>1, <2>4, <1>1
  <1>4. ASSUME \A s \in Used(f) : f.entry[s] # p PROVE FindPage(f, p) = Nil
    <2>1. first = {}
      BY <1>2, <1>4
    <2> QED
      BY <2>1, <1>1
  <1> QED
    BY <1>3, <1>4

\* The pages of P lose their slots; no other slot changes hands.
Freed(f, g, P) ==
  /\ FileOK(g) /\ g.entry = f.entry /\ g.cur = f.cur /\ g.max = f.max
  /\ Used(g) = {s \in Used(f) : f.entry[s] \notin P}

\* A file that differs in recent, victim or count.
LEMMA SameLists ==
  ASSUME NEW f, NEW g, g.next = f.next, g.first = f.first
  PROVE  /\ \A l : On(g, l) = On(f, l)
         /\ Used(g) = Used(f) /\ Free(g) = Free(f) /\ (Tidy(f) => Tidy(g))
  BY DEF On, Used, Free, Tidy

\* A slot goes from a bucket to the free list.
LEMMA SlotFreed ==
  ASSUME NEW f, FileOK(f), NEW b \in Buckets, NEW s \in On(f, b), NEW g,
         WentTo(f, g, b, FreeList, s)
  PROVE  FileOK([g EXCEPT !.count = @ + 1]) /\ Used([g EXCEPT !.count = @ + 1]) = Used(f) \ {s}
  <1> DEFINE n == g.count + 1
             h == [g EXCEPT !.count = n]
  <1>1. /\ Used(f) \in SUBSET Slots /\ Free(f) \in SUBSET Slots
        /\ Used(f) \cap Free(f) = {} /\ s \in Used(f)
    BY UsedFree
  <1>2. g \in File /\ g.entry = f.entry /\ g.cur = f.cur /\ g.max = f.max
        /\ g.count = f.count /\ f.count = Cardinality(Free(f)) /\ f.cur <= f.max
    BY DEF WentTo, OnlyLinks, FileOK, Listed
  <1>3. Free(g) = Free(f) \cup {s}
    BY DEF WentTo, Free
  <1>4. n = Cardinality(Free(g)) /\ n \in 0 .. MaxPages
    <2>1. IsFiniteSet(Free(f)) /\ Free(g) \in SUBSET Slots /\ s \notin Free(f)
      BY <1>1, <1>3, SlotsFinite
    <2>2. Cardinality(Free(g)) = Cardinality(Free(f)) + 1
      BY <2>1, <1>3, FS_AddElement
    <2> QED
      BY <2>1, <2>2, <1>2, SlotsFinite
  <1> HIDE DEF n
  <1>5. /\ h \in File /\ h.count = n /\ h.next = g.next /\ h.first = g.first
        /\ h.entry = f.entry /\ h.cur = f.cur /\ h.max = f.max
    BY <1>2, <1>4 DEF File
  <1> HIDE DEF h
  <1>6. /\ \A l : On(h, l) = On(g, l)
        /\ Used(h) = Used(g) /\ Free(h) = Free(g) /\ Tidy(h)
    BY <1>5, SameLists DEF WentTo
  <1>7. \A c \in Buckets : On(g, c) = On(f, c) \ {s}
    <2>1. ASSUME NEW c \in Buckets, c # b PROVE On(g, c) = On(f, c) /\ s \notin On(f, c)
      BY <2>1, ListsAre DEF WentTo, FileOK, Tidy
    <2> QED
      BY <2>1 DEF WentTo
  <1>8. Used(g) = Used(f) \ {s}
    BY <1>7 DEF Used
  <1>9. Listed(h)
    <2>1. \A t \in Slots : t < f.cur <=> t \in Used(f) \cup Free(f)
      BY DEF FileOK, Listed
    <2>2. \A t \in Slots : t < h.cur <=> t \in Used(h) \cup Free(h)
      BY <2>1, <1>1, <1>3, <1>5, <1>6, <1>8
    <2>3. ASSUME NEW t \in Slots, t >= f.cur PROVE g.next[t] = Nil
      <3>1. ~(t < f.cur)
        BY <2>3, <1>2 DEF File, Slots
      <3>2. Unlisted(f, t)
        BY <2>1, <3>1 DEF Unlisted, Used, Free, Lists
      <3> QED
        BY <2>3, <3>2 DEF WentTo, FileOK, Listed
    <2> QED
      BY <2>2, <2>3, <1>4, <1>5, <1>6 DEF Listed
  <1>10. Hashed(h)
    <2>1. \A c \in Buckets : On(h, c) \subseteq On(f, c)
      BY <1>6, <1>7
    <2>2. Used(h) \subseteq Used(f)
      BY <1>6, <1>8
    <2>3. Hashed(f)
      BY DEF FileOK
    <2> QED
      BY <2>1, <2>2, <2>3, <1>5 DEF Hashed
  <1>11. FileOK(h) /\ Used(h) = Used(f) \ {s}
    BY <1>2, <1>5, <1>6, <1>8, <1>9, <1>10 DEF FileOK
  <1> QED
    BY <1>11 DEF h, n

LEMMA FreePageIs ==
  ASSUME NEW f, FileOK(f), NEW p \in Int
  PROVE  Freed(f, FreePage(f, p), {p})
  <1> DEFINE s == FindPage(f, p)
             u == Push(Unlink(f, Bucket(p), s), FreeList, s)
  <1>1. CASE s = Nil
    <2>1. FreePage(f, p) = f
      BY <1>1 DEF FreePage
    <2>2. \A t \in Used(f) : f.entry[t] # p
      BY <1>1, FindPageIs, UsedFree, NilNoSlot
    <2> QED
      BY <2>1, <2>2 DEF Freed
  <1>2. CASE s # Nil
    <2>1. s \in Used(f) /\ f.entry[s] = p /\ s \in On(f, Bucket(p))
      BY <1>2, FindPageIs
    <2>2. f \in File /\ Tidy(f)
      BY DEF FileOK
    <2>3. WentTo(f, u, Bucket(p), FreeList, s)
      BY <2>1, <2>2, BucketIs, ListsAre, RelinkIs
    <2>4. FreePage(f, p) = [u EXCEPT !.count = @ + 1]
      BY <1>2 DEF FreePage
    <2>5. u \in File /\ u.entry = f.entry /\ u.cur = f.cur /\ u.max = f.max
      BY <2>3 DEF WentTo, OnlyLinks
    <2> HIDE DEF u, s
    <2>6. FileOK(FreePage(f, p)) /\ Used(FreePage(f, p)) = Used(f) \ {s}
      BY <2>1, <2>3, <2>4, BucketIs, SlotFreed
    <2>7. {t \in Used(f) : f.entry[t] \notin {p}} = Used(f) \ {s}
      BY <2>1 DEF FileOK, Hashed
    <2>8. /\ FreePage(f, p).entry = f.entry /\ FreePage(f, p).cur = f.cur
          /\ FreePage(f, p).max = f.max
      BY <2>4, <2>5 DEF File
    <2> QED
      BY <2>6, <2>7, <2>8 DEF Freed
  <1> QED
    BY <1>1, <1>2

(***************************************************************************)
(* PSD_Loop: FreePages is a recursive function, whose values are proved    *)
(* from the least number for which they are not as stated.                 *)
(***************************************************************************)
IsFreeing(f, p, n, k, g) ==
  g = [i \in 0 .. k |-> IF i = 0 THEN f ELSE FreePage(g[i - 1], p + n - i)]

LEMMA FreeingExists ==
  ASSUME NEW f, NEW p, NEW n \in Nat
  PROVE  \E g : IsFreeing(f, p, n, n, g)
  <1> DEFINE Bad == {k \in 0 .. n : \A g : ~IsFreeing(f, p, n, k, g)}
  <1> SUFFICES ASSUME Bad # {} PROVE FALSE
    OBVIOUS
  <1>1. Bad \in SUBSET Nat
    OBVIOUS
  <1>2. PICK k \in Bad : \A j \in Bad : k <= j
    BY <1>1, LeastNat
  <1>3. CASE k = 0
    <2> DEFINE g == [i \in 0 .. 0 |-> f]
    <2>1. IsFreeing(f, p, n, 0, g)
      BY DEF IsFreeing
    <2> QED
      BY <2>1, <1>3
  <1>4. CASE k # 0
    <2>1. k \in 1 .. n /\ k - 1 \in 0 .. n /\ ~(k <= k - 1)
      BY <1>4
    <2>2. PICK h : IsFreeing(f, p, n, k - 1, h)
      BY <2>1, <1>2
    <2> DEFINE g == [i \in 0 .. k |-> IF i = k THEN FreePage(h[k - 1], p + n - k) ELSE h[i]]
    <2>3. \A i \in 0 .. k - 1 : g[i] = h[i]
      BY <2>1
    <2>4. ASSUME NEW i \in 0 .. k
          PROVE  g[i] = IF i = 0 THEN f ELSE FreePage(g[i - 1], p + n - i)
      <3>1. CASE i = k
        <4>1. g[k - 1] = h[k - 1] /\ g[k] = FreePage(h[k - 1], p + n - k)
          BY <2>1
        <4> QED
          BY <4>1, <3>1, <1>4
      <3>2. CASE i # k
        <4>1. i \in 0 .. k - 1 /\ g[i] = h[i] /\ (i # 0 => i - 1 \in 0 .. k - 1)
          BY <3>2, <2>1
        <4>2. h[i] = IF i = 0 THEN f ELSE FreePage(h[i - 1], p + n - i)
          BY <4>1, <2>2 DEF IsFreeing
        <4> QED
          BY <4>1, <4>2, <2>3
      <3> QED
        BY <3>1, <3>2
    <2>5. g = [i \in 0 .. k |-> g[i]]
      OBVIOUS
    <2> HIDE DEF g
    <2>6. IsFreeing(f, p, n, k, g)
      BY <2>4, <2>5 DEF IsFreeing
    <2> QED
      BY <2>6
  <1> QED
    BY <1>3, <1>4

LEMMA FreePagesIs ==
  ASSUME NEW f, FileOK(f), NEW p \in Int, NEW n \in Nat
  PROVE  Freed(f, FreePages(f, p, n), p .. p + n - 1)
  <1> DEFINE g == CHOOSE g : IsFreeing(f, p, n, n, g)
  <1>1. FreePages(f, p, n) = g[n]
    BY DEF FreePages, IsFreeing
  <1>2. IsFreeing(f, p, n, n, g)
    BY FreeingExists
  <1> HIDE DEF g
  <1>3. \A i \in 0 .. n : g[i] = IF i = 0 THEN f ELSE FreePage(g[i - 1], p + n - i)
    BY <1>2 DEF IsFreeing
  <1> DEFINE Bad == {k \in 0 .. n : ~Freed(f, g[k], p + n - k .. p + n - 1)}
  <1>4. ASSUME Bad # {} PROVE FALSE
    <2>1. Bad \in SUBSET Nat
      OBVIOUS
    <2>2. PICK k \in Bad : \A j \in Bad : k <= j
      BY <1>4, <2>1, LeastNat
    <2>3. CASE k = 0
      <3>1. g[0] = f /\ p + n - 0 .. p + n - 1 = {}
        BY <1>3
      <3> QED
        BY <2>2, <2>3, <3>1 DEF Freed
    <2>4. CASE k # 0
      <3>1. k \in 1 .. n /\ k - 1 \in 0 .. n /\ ~(k <= k - 1)
        BY <2>4
      <3>2. Freed(f, g[k - 1], p + n - (k - 1) .. p + n - 1)
        BY <2>2, <3>1
      <3>3. g[k] = FreePage(g[k - 1], p + n - k) /\ p + n - k \in Int
        BY <3>1, <1>3
      <3>4. Freed(g[k - 1], g[k], {p + n - k})
        <4>1. FileOK(g[k - 1])
          BY <3>2 DEF Freed
        <4>2. Freed(g[k - 1], FreePage(g[k - 1], p + n - k), {p + n - k})
          BY <4>1, <3>3, FreePageIs
        <4> QED
          BY <4>2, <3>3
      <3>5. \A q \in Int : q \in p + n - k .. p + n - 1
                           <=> q \in p + n - (k - 1) .. p + n - 1 \/ q = p + n - k
        BY <3>1
      <3>6. \A s \in Used(f) : f.entry[s] \in Int
        BY UsedFree
      <3> DEFINE P == p + n - k .. p + n - 1
                 Q == p + n - (k - 1) .. p + n - 1
                 r == p + n - k
      <3>7. \A s \in Used(f) : f.entry[s] \in P <=> f.entry[s] \in Q \/ f.entry[s] = r
        BY <3>5, <3>6
      <3> HIDE DEF P, Q, r
      <3>8. Freed(f, g[k - 1], Q) /\ Freed(g[k - 1], g[k], {r})
        BY <3>2, <3>4 DEF Q, r
      <3>9. Freed(f, g[k], P)
        BY <3>7, <3>8 DEF Freed
      <3> QED
        BY <3>9, <2>2 DEF P
    <2> QED
      BY <2>3, <2>4
  <1>5. Freed(f, g[n], p + n - n .. p + n - 1) /\ p + n - n = p
    BY <1>4
  <1> QED
    BY <1>1, <1>5

(***************************************************************************)
(* A free slot for a page.                                                 *)
(***************************************************************************)
LEMMA SlotForIs ==
  ASSUME NEW f, FileOK(f), NEW p \in Int, Free(f) # {}
  PROVE  SlotFor(f, p) \in Free(f)
  <1> DEFINE s == (p - Base) % f.cur
  <1>1. f \in File /\ f.cur \in 1 .. MaxPages
    BY FileFields DEF FileOK
  <1>2. s \in 0 .. f.cur - 1
    <2>1. f.cur \in Nat \ {0} /\ p - Base \in Int
      BY <1>1, SizeAssumption
    <2> QED
      BY <2>1
  <1>3. s \in Slots /\ s < f.cur
    BY <1>1, <1>2, SizeAssumption DEF Slots
  <1> HIDE DEF s
  <1>4. CASE f.entry[s] = 0
    <2>1. s \notin Used(f) /\ s \in Used(f) \cup Free(f)
      BY <1>3, <1>4 DEF FileOK, Hashed, Listed
    <2> QED
      BY <2>1, <1>4 DEF SlotFor, s
  <1>5. CASE f.entry[s] # 0
    <2>1. f.first[FreeList] \in Free(f)
      BY <1>1, ListsAre, OnIs DEF Free
    <2> QED
      BY <2>1, <1>5 DEF SlotFor, s
  <1> QED
    BY <1>4, <1>5

\* A page takes a slot.
Took(f, g, p, s) ==
  /\ FileOK(g) /\ g.cur = f.cur /\ g.max = f.max
  /\ s \in Free(f) /\ Used(g) = Used(f) \cup {s} /\ g.entry[s] = p
  /\ \A t \in Used(f) : g.entry[t] = f.entry[t]

LEMMA TakeSlotIs ==
  ASSUME NEW f, FileOK(f), NEW p \in Int, p # 0, \A s \in Used(f) : f.entry[s] # p,
         Free(f) # {}
  PROVE  Took(f, TakeSlot(f, p), p, SlotFor(f, p))
  <1> DEFINE s == SlotFor(f, p)
             b == Bucket(p)
             u == Push(Unlink(f, FreeList, s), b, s)
             n == u.count - 1
             entries == [u.entry EXCEPT ![s] = p]
             recent == u.recent \ {s}
             g == [u EXCEPT !.count = n, !.entry = entries, !.recent = recent]
  <1>1. TakeSlot(f, p) = g
    BY DEF TakeSlot
  <1>2. s \in Free(f) /\ s \in On(f, FreeList)
    BY SlotForIs DEF Free
  <1>3. b \in Buckets /\ b \in Lists /\ b # FreeList /\ f \in File /\ Tidy(f)
    BY BucketIs DEF FileOK
  <1>4. WentTo(f, u, FreeList, b, s)
    BY <1>2, <1>3, ListsAre, RelinkIs
  <1> HIDE DEF u, s
  <1>5. /\ Used(f) \in SUBSET Slots /\ Free(f) \in SUBSET Slots
        /\ Used(f) \cap Free(f) = {} /\ s \in Slots
    BY <1>2, UsedFree
  <1>6. /\ u \in File /\ u.entry = f.entry /\ u.cur = f.cur /\ u.max = f.max
        /\ u.count = f.count /\ f.count = Cardinality(Free(f)) /\ f.cur <= f.max
    BY <1>4 DEF WentTo, OnlyLinks, FileOK, Listed
  <1>7. Free(u) = Free(f) \ {s}
    BY <1>4 DEF WentTo, Free
  <1>8. n = Cardinality(Free(u)) /\ n \in 0 .. MaxPages
    <2>1. IsFiniteSet(Free(f)) /\ Free(u) \in SUBSET Slots
      BY <1>5, <1>7, SlotsFinite
    <2>2. Cardinality(Free(u)) = Cardinality(Free(f)) - 1
      BY <2>1, <1>2, <1>7, FS_RemoveElement
    <2> QED
      BY <2>1, <2>2, <1>6, SlotsFinite
  <1>9. /\ entries \in [Slots -> Int] /\ entries[s] = p /\ recent \in SUBSET Slots
        /\ \A t \in Slots \ {s} : entries[t] = f.entry[t]
    BY <1>5, <1>6, FileFields
  <1> HIDE DEF n, entries, recent
  <1>10. /\ g \in File /\ g.count = n /\ g.next = u.next /\ g.first = u.first
         /\ g.entry = entries /\ g.cur = f.cur /\ g.max = f.max
    BY <1>6, <1>8, <1>9 DEF File
  <1> HIDE DEF g
  <1>11. /\ \A l : On(g, l) = On(u, l)
         /\ Used(g) = Used(u) /\ Free(g) = Free(u) /\ Tidy(g)
    BY <1>10, <1>4, SameLists DEF WentTo
  <1>12. \A c \in Buckets \ {b} : On(g, c) = On(f, c)
    BY <1>4, <1>11, ListsAre DEF WentTo
  <1>13. On(g, b) = On(f, b) \cup {s}
    BY <1>4, <1>11 DEF WentTo
  <1>14. Used(g) = Used(f) \cup {s}
    BY <1>3, <1>12, <1>13 DEF Used
  <1>15. \A t \in Used(f) : g.entry[t] = f.entry[t]
    BY <1>2, <1>5, <1>9, <1>10
  <1>16. Listed(g)
    <2>1. \A t \in Slots : t < f.cur <=> t \in Used(f) \cup Free(f)
      BY DEF FileOK, Listed
    <2>2. \A t \in Slots : t < g.cur <=> t \in Used(g) \cup Free(g)
      BY <2>1, <1>2, <1>5, <1>7, <1>10, <1>11, <1>14
    <2>3. ASSUME NEW t \in Slots, t >= f.cur PROVE u.next[t] = Nil
      <3>1. ~(t < f.cur)
        BY <2>3, <1>3 DEF File, Slots
      <3>2. Unlisted(f, t)
        BY <2>1, <3>1 DEF Unlisted, Used, Free, Lists
      <3> QED
        BY <2>3, <3>2, <1>4 DEF WentTo, FileOK, Listed
    <2> QED
      BY <2>2, <2>3, <1>8, <1>10, <1>11 DEF Listed
  <1>17. Hashed(g)
    <2>0. \A t \in Used(f) : f.entry[t] \in Int /\ f.entry[t] # 0
      BY UsedFree DEF FileOK, Hashed
    <2>1. ASSUME NEW c \in Buckets, NEW t \in On(g, c) PROVE Bucket(g.entry[t]) = c
      <3>1. CASE t = s
        <4>1. c = b
          BY <3>1, <2>1, <1>12, <1>2, ListsAre, <1>3 DEF FileOK, Tidy
        <4> QED
          BY <4>1, <3>1, <1>9, <1>10
      <3>2. CASE t # s
        <4>1. t \in On(f, c)
          BY <3>2, <2>1, <1>12, <1>13
        <4>2. t \in Used(f)
          BY <4>1 DEF Used
        <4>3. Bucket(f.entry[t]) = c
          BY <4>1 DEF FileOK, Hashed
        <4> QED
          BY <4>2, <4>3, <1>15
      <3> QED
        BY <3>1, <3>2
    <2>2. ASSUME NEW t \in Used(g), NEW v \in Used(g), g.entry[t] = g.entry[v]
          PROVE  t = v
      BY <2>2, <1>9, <1>10, <1>14, <1>15 DEF FileOK, Hashed
    <2>3. \A t \in Used(g) : g.entry[t] # 0
      BY <2>0, <1>9, <1>10, <1>14, <1>15
    <2> QED
      BY <2>1, <2>2, <2>3 DEF Hashed
  <1>18. FileOK(g)
    BY <1>6, <1>10, <1>11, <1>16, <1>17 DEF FileOK
  <1>19. Took(f, g, p, s)
    BY <1>2, <1>9, <1>10, <1>14, <1>15, <1>18 DEF Took
  <1> QED
    BY <1>1, <1>19 DEF s

(***************************************************************************)
(* The search for a victim.                                                *)
(***************************************************************************)
\* Only the marks of the search, or the limit of the file, differ.
LEMMA MarksIs ==
  ASSUME NEW f, FileOK(f), NEW g \in File, g.next = f.next, g.first = f.first,
         g.entry = f.entry, g.count = f.count, g.cur = f.cur, g.cur <= g.max
  PROVE  FileOK(g) /\ Used(g) = Used(f) /\ Free(g) = Free(f)
  <1>1. /\ \A l : On(g, l) = On(f, l)
        /\ Used(g) = Used(f) /\ Free(g) = Free(f) /\ Tidy(g)
    BY SameLists DEF FileOK
  <1>2. Listed(g)
    BY <1>1 DEF Listed, FileOK
  <1>3. Hashed(g)
    BY <1>1 DEF Hashed, FileOK
  <1> QED
    BY <1>1, <1>2, <1>3 DEF FileOK

LEMMA ScanSlotIs ==
  ASSUME NEW f \in File, NEW k \in Nat
  PROVE  ScanSlot(f, k) \in 0 .. f.cur - 1 /\ ScanSlot(f, k) \in Slots
  <1>1. f.cur \in 1 .. MaxPages /\ f.victim \in Nat
    BY FileFields DEF Slots
  <1>2. f.cur \in Nat \ {0} /\ f.victim + k \in Nat
    BY <1>1, SizeAssumption
  <1>3. ((f.victim + k) % f.cur) \in 0 .. f.cur - 1
    BY <1>2
  <1> QED
    BY <1>1, <1>3, SizeAssumption DEF ScanSlot, Slots

LEMMA ScannedIs ==
  ASSUME NEW f, FileOK(f), NEW k
  PROVE  /\ FileOK(Scanned(f, k)) /\ Used(Scanned(f, k)) = Used(f)
         /\ Free(Scanned(f, k)) = Free(f)
         /\ Scanned(f, k).entry = f.entry /\ Scanned(f, k).cur = f.cur
         /\ Scanned(f, k).max = f.max
  <1> DEFINE recent == f.recent \ {ScanSlot(f, j) : j \in 0 .. k - 1}
             g == [f EXCEPT !.recent = recent]
  <1>1. f \in File /\ f.cur <= f.max
    BY DEF FileOK
  <1>2. recent \in SUBSET Slots
    BY <1>1, FileFields
  <1>3. Scanned(f, k) = g
    BY DEF Scanned
  <1> HIDE DEF recent
  <1>4. /\ g \in File /\ g.next = f.next /\ g.first = f.first /\ g.entry = f.entry
        /\ g.count = f.count /\ g.cur = f.cur /\ g.max = f.max
    BY <1>1, <1>2 DEF File
  <1> HIDE DEF g
  <1>5. FileOK(g) /\ Used(g) = Used(f) /\ Free(g) = Free(f)
    BY <1>1, <1>4, MarksIs
  <1> QED
    BY <1>3, <1>4, <1>5

LEMMA PagesInt == \A p \in LinPages : p \in Int /\ p # 0
  BY SizeAssumption DEF LinPages

\* When the file is full, a page that is in memory loses its slot.
LEMMA FreeVictimIs ==
  ASSUME NEW f, FileOK(f), Free(f) = {}, Victims(f) # {}, present \subseteq LinPages
  PROVE  \E q \in present : Freed(f, FreeVictim(f), {q}) /\ Free(FreeVictim(f)) # {}
  <1> DEFINE k == CHOOSE k \in Victims(f) : \A j \in Victims(f) : k <= j
             s == ScanSlot(f, k)
             q == f.entry[s]
             v == (s + 1) % f.cur
             e == [Scanned(f, k) EXCEPT !.victim = v]
             g == FreePage(e, q)
  <1>1. f \in File
    BY DEF FileOK
  <1>2. k \in Victims(f)
    <2>1. Victims(f) \in SUBSET Nat
      BY DEF Victims
    <2> QED
      BY <2>1, LeastNat
  <1>3. k \in Nat /\ q \in present
    BY <1>2 DEF Victims
  <1> HIDE DEF k
  <1>4. s \in 0 .. f.cur - 1 /\ s \in Slots
    BY <1>1, <1>3, ScanSlotIs
  <1>5. s \in Used(f)
    <2>1. s < f.cur
      BY <1>1, <1>4, FileFields
    <2> QED
      BY <2>1, <1>4 DEF FileOK, Listed
  <1>6. v \in Slots
    <2>1. f.cur \in Nat \ {0} /\ s + 1 \in Nat /\ f.cur <= MaxPages
      BY <1>1, <1>4, FileFields, SizeAssumption
    <2>2. v \in 0 .. f.cur - 1
      BY <2>1
    <2> QED
      BY <2>1, <2>2, SizeAssumption DEF Slots
  <1> HIDE DEF v
  <1>7. /\ FileOK(e) /\ Used(e) = Used(f) /\ Free(e) = Free(f)
        /\ e.entry = f.entry /\ e.cur = f.cur /\ e.max = f.max
    <2> DEFINE h == Scanned(f, k)
    <2>1. /\ FileOK(h) /\ Used(h) = Used(f) /\ Free(h) = Free(f)
          /\ h.entry = f.entry /\ h.cur = f.cur /\ h.max = f.max
      BY ScannedIs
    <2> HIDE DEF h
    <2>2. h \in File /\ h.cur <= h.max
      BY <2>1 DEF FileOK
    <2> DEFINE d == [h EXCEPT !.victim = v]
    <2>3. /\ d \in File /\ d.next = h.next /\ d.first = h.first /\ d.entry = h.entry
          /\ d.count = h.count /\ d.cur = h.cur /\ d.max = h.max
      BY <2>2, <1>6 DEF File
    <2>4. e = d
      BY DEF h
    <2> HIDE DEF d, e
    <2>5. FileOK(d) /\ Used(d) = Used(h) /\ Free(d) = Free(h)
      BY <2>1, <2>2, <2>3, MarksIs
    <2> QED
      BY <2>1, <2>3, <2>4, <2>5
  <1>8. FreeVictim(f) = g
    BY DEF FreeVictim, k, v
  <1> HIDE DEF e, s
  <1>9. q \in Int
    BY <1>3, PagesInt
  <1>10. Freed(e, g, {q})
    BY <1>7, <1>9, FreePageIs
  <1>11. Freed(f, g, {q})
    BY <1>7, <1>10 DEF Freed
  <1>12. s \in Free(g)
    <2>1. s < f.cur /\ s \notin Used(g)
      BY <1>1, <1>4, <1>11, FileFields DEF Freed
    <2> QED
      BY <2>1, <1>4, <1>11 DEF Freed, FileOK, Listed
  <1> QED
    BY <1>3, <1>8, <1>11, <1>12

(***************************************************************************)
(* The file at the start, and the file that grows.                         *)
(***************************************************************************)
\* Slots a to b, each linked to the one before it, in front of a list.
LEMMA PutMany ==
  ASSUME NEW next \in Links, NEW a \in Slots, NEW b \in Slots, a <= b,
         Loopless(next, Chain(next, next[a])),
         \A k \in a .. b : k \notin Chain(next, next[a]),
         \A k \in a + 1 .. b : next[k] = k - 1
  PROVE  /\ Chain(next, b) = (a .. b) \cup Chain(next, next[a])
         /\ Loopless(next, Chain(next, b))
  <1> DEFINE h == next[a]
             OK(k) == /\ Chain(next, k) = (a .. k) \cup Chain(next, h)
                      /\ Loopless(next, Chain(next, k))
             Bad == {k \in a .. b : ~OK(k)}
  <1>0. a \in Nat /\ b \in Nat /\ (a .. b) \subseteq Slots /\ h \in Link
    BY SizeAssumption DEF Slots, Links
  <1>1. ASSUME Bad # {} PROVE FALSE
    <2>1. Bad \in SUBSET Nat
      BY <1>0
    <2>2. PICK k \in Bad : \A j \in Bad : k <= j
      BY <1>1, <2>1, LeastNat
    <2>3. k \in a .. b /\ k \in Slots
      BY <1>0
    <2>4. CASE k = a
      <3>1. Chain(next, a) = {a} \cup Chain(next, h) /\ Loopless(next, Chain(next, a))
        BY <1>0, PutFirst
      <3>2. a .. a = {a}
        BY <1>0
      <3> QED
        BY <3>1, <3>2, <2>2, <2>4
    <2>5. CASE k # a
      <3>1. k \in a + 1 .. b /\ k - 1 \in a .. b /\ ~(k <= k - 1) /\ next[k] = k - 1
        BY <1>0, <2>3, <2>5
      <3>2. OK(k - 1)
        BY <2>2, <3>1
      <3>3. k \notin Chain(next, k - 1) /\ k - 1 \in Link
        BY <3>1, <3>2, <2>3, <1>0 DEF Link
      <3>4. Chain(next, k) = {k} \cup Chain(next, k - 1) /\ Loopless(next, Chain(next, k))
        BY <3>1, <3>2, <3>3, <2>3, PutFirst
      <3>5. a .. k = (a .. k - 1) \cup {k}
        BY <3>1, <1>0
      <3> QED
        BY <3>2, <3>4, <3>5, <2>2
    <2> QED
      BY <2>4, <2>5
  <1> QED
    BY <1>1, <1>0

\* Each linked to the one after it, up to the last.
LEMMA RowOfSlots ==
  ASSUME NEW next \in Links, NEW b \in Slots, next[b] = Nil,
         \A k \in 0 .. b - 1 : next[k] = k + 1
  PROVE  Chain(next, 0) = 0 .. b /\ Loopless(next, Chain(next, 0))
  <1> DEFINE OK(k) == Chain(next, k) = k .. b /\ Loopless(next, Chain(next, k))
             Bad == {j \in 0 .. b : ~OK(b - j)}
  <1>0. b \in Nat /\ (0 .. b) \subseteq Slots
    BY SizeAssumption DEF Slots
  <1>1. ASSUME Bad # {} PROVE FALSE
    <2>1. Bad \in SUBSET Nat
      OBVIOUS
    <2>2. PICK j \in Bad : \A i \in Bad : j <= i
      BY <1>1, <2>1, LeastNat
    <2> DEFINE k == b - j
    <2>3. j \in 0 .. b /\ k \in 0 .. b /\ k \in Slots
      BY <1>0
    <2>4. CASE j = 0
      <3>0. Chain(next, Nil) = {}
        BY DEF Chain
      <3> DEFINE h == Nil
      <3>a. h \in Link /\ Loopless(next, Chain(next, h)) /\ b \notin Chain(next, h) /\ next[b] = h
        BY <3>0 DEF Link, Loopless
      <3> HIDE DEF h
      <3>b. Chain(next, b) = {b} \cup Chain(next, h) /\ Loopless(next, Chain(next, b))
        BY <3>a, PutFirst
      <3>1. Chain(next, b) = {b} \cup Chain(next, Nil) /\ Loopless(next, Chain(next, b))
        BY <3>b DEF h
      <3>2. Chain(next, Nil) = {} /\ b .. b = {b} /\ k = b
        BY <1>0, <2>4, <3>0
      <3> QED
        BY <3>1, <3>2, <2>2
    <2>5. CASE j # 0
      <3>1. /\ k \in 0 .. b - 1 /\ j - 1 \in 0 .. b /\ ~(j <= j - 1) /\ next[k] = k + 1
            /\ b - (j - 1) = k + 1 /\ k + 1 \in Slots
        BY <1>0, <2>3, <2>5
      <3>2. OK(k + 1)
        BY <2>2, <3>1
      <3>3. k \notin Chain(next, k + 1) /\ k + 1 \in Link
        BY <3>1, <3>2, <1>0 DEF Link
      <3>4. Chain(next, k) = {k} \cup Chain(next, k + 1) /\ Loopless(next, Chain(next, k))
        BY <3>1, <3>2, <3>3, <2>3, PutFirst
      <3>5. k .. b = {k} \cup (k + 1 .. b)
        BY <3>1, <1>0
      <3> QED
        BY <3>2, <3>4, <3>5, <2>2
    <2> QED
      BY <2>4, <2>5
  <1>2. b \in 0 .. b /\ b - b = 0
    BY <1>0
  <1> QED
    BY <1>1, <1>2

LEMMA FirstFileIs ==
  ASSUME NEW cur \in 1 .. MaxPages
  PROVE  FileOK(FirstFile(cur)) /\ Used(FirstFile(cur)) = {}
  <1> DEFINE f == FirstFile(cur)
             b == cur - 1
  <1>1. cur \in Nat /\ MaxPages \in Nat /\ b \in Slots /\ 0 \in Slots /\ b + 1 = cur
    BY SizeAssumption DEF Slots
  <1>2. f.next \in Links /\ f.first \in [Lists -> Link]
    <2>1. \A s \in Slots : (IF s + 1 < cur THEN s + 1 ELSE Nil) \in Link
      BY <1>1 DEF Slots, Link
    <2>2. \A l \in Lists : (IF l = FreeList THEN 0 ELSE Nil) \in Link
      BY <1>1 DEF Link
    <2> QED
      BY <2>1, <2>2 DEF FirstFile, Links
  <1>3. f \in File
    <2>1. /\ f.entry \in [Slots -> Int] /\ f.recent = {} /\ f.count = cur
          /\ f.cur = cur /\ f.max = MaxPages /\ f.victim = 0
      BY DEF FirstFile
    <2>2. f = [next |-> f.next, first |-> f.first, entry |-> f.entry, recent |-> f.recent,
               count |-> f.count, cur |-> f.cur, max |-> f.max, victim |-> f.victim]
      BY DEF FirstFile
    <2>3. f.count \in 0 .. MaxPages /\ f.max \in 1 .. MaxPages
      BY <2>1, <1>1
    <2> HIDE DEF f
    <2> QED
      BY <1>1, <1>2, <2>1, <2>2, <2>3 DEF File, Links, Link
  <1>4. f.first[FreeList] = 0 /\ \A l \in Buckets : f.first[l] = Nil
    BY ListsAre DEF FirstFile
  <1>5. f.next[b] = Nil /\ \A k \in 0 .. b - 1 : f.next[k] = k + 1
    BY <1>1 DEF FirstFile, Slots
  <1>6. /\ f.count = cur /\ f.cur = cur /\ f.max = MaxPages
        /\ \A s \in Slots : s >= cur => f.next[s] = Nil
    BY <1>1 DEF FirstFile, Slots
  <1> HIDE DEF f
  <1>7. Free(f) = 0 .. b /\ Loopless(f.next, Free(f))
    <2>1. Free(f) = Chain(f.next, 0)
      BY <1>3, <1>4, ListsAre, OnIs DEF Free
    <2> QED
      BY <2>1, <1>1, <1>2, <1>5, RowOfSlots
  <1>8. \A l \in Buckets : On(f, l) = {}
    BY <1>3, <1>4, ListsAre, OnIs
  <1>9. Used(f) = {}
    BY <1>8 DEF Used
  <1>10. Tidy(f)
    <2>1. \A l \in Lists : On(f, l) = {} \/ l = FreeList
      BY <1>8 DEF Lists
    <2> QED
      BY <2>1, <1>7 DEF Tidy, Free, Loopless
  <1>11. Listed(f)
    <2>1. Cardinality(0 .. b) = cur
      BY <1>1, FS_Interval
    <2>2. \A s \in Slots : s < cur <=> s \in 0 .. b
      BY <1>1 DEF Slots
    <2> QED
      BY <2>1, <2>2, <1>6, <1>7, <1>9 DEF Listed
  <1>12. Hashed(f)
    BY <1>8, <1>9 DEF Hashed
  <1>13. FileOK(f)
    BY <1>1, <1>3, <1>6, <1>10, <1>11, <1>12 DEF FileOK
  <1> QED
    BY <1>9, <1>13 DEF f

\* The file after it has grown: what is in it does not move.
GrewTo(f, g, size) ==
  FileOK(g) /\ g.cur = size /\ g.max = f.max /\ g.entry = f.entry /\ Used(g) = Used(f)

LEMMA GrownIs ==
  ASSUME NEW f, FileOK(f), NEW size \in f.cur .. f.max
  PROVE  GrewTo(f, Grown(f, size), size)
  <1> DEFINE head == IF size > f.cur THEN size - 1 ELSE f.first[FreeList]
             heads == [f.first EXCEPT ![FreeList] = head]
             links == [s \in Slots |-> IF s \notin f.cur .. size - 1 THEN f.next[s]
                                       ELSE IF s = f.cur THEN f.first[FreeList] ELSE s - 1]
             n == f.count + size - f.cur
             g == [f EXCEPT !.cur = size, !.count = n, !.first = heads, !.next = links]
  <1>1. Grown(f, size) = g
    BY DEF Grown, FileOK, File
  <1>2. /\ f \in File /\ f.first \in [Lists -> Link] /\ f.next \in Links
        /\ f.first[FreeList] \in Link
        /\ \A s \in Slots : f.next[s] \in Link
        /\ f.cur \in 1 .. MaxPages /\ f.max \in 1 .. MaxPages /\ f.count \in Nat
        /\ size \in f.cur .. MaxPages /\ MaxPages \in Nat
    BY FileFields, ListsAre, SizeAssumption DEF FileOK, Links
  <1>3. (f.cur .. size - 1) \subseteq Slots /\ \A s \in Slots : s \in Nat
    BY <1>2 DEF Slots
  <1>4. links \in Links
    <2>1. \A s \in f.cur .. size - 1 : s # f.cur => s - 1 \in Slots
      BY <1>2, <1>3 DEF Slots
    <2>2. ASSUME NEW s \in Slots
          PROVE  (IF s \notin f.cur .. size - 1 THEN f.next[s]
                  ELSE IF s = f.cur THEN f.first[FreeList] ELSE s - 1) \in Link
      BY <2>1, <1>2 DEF Link
    <2> QED
      BY <2>2 DEF Links
  <1>5. head \in Link
    BY <1>2 DEF Slots, Link
  <1>6. /\ heads \in [Lists -> Link] /\ heads[FreeList] = head
        /\ \A l \in Buckets : heads[l] = f.first[l]
    BY <1>2, <1>5, ListsAre
  <1>7. /\ \A s \in Slots : s < f.cur \/ s >= size => links[s] = f.next[s]
        /\ size > f.cur => links[f.cur] = f.first[FreeList]
        /\ \A s \in f.cur + 1 .. size - 1 : links[s] = s - 1
    BY <1>2, <1>3
  <1> HIDE DEF head, heads, links
  <1>8. \A s \in Slots : s < f.cur <=> s \in Used(f) \cup Free(f)
    BY DEF FileOK, Listed
  <1>9. \A l \in Lists : On(f, l) \in SUBSET Slots /\ \A t \in On(f, l) : t < f.cur
    BY <1>2, <1>8, OnIs DEF Used, Free, Lists
  <1>10. /\ Chain(links, head) = (f.cur .. size - 1) \cup Free(f)
         /\ Loopless(links, Chain(links, head))
    <2>1. /\ Free(f) = Chain(f.next, f.first[FreeList]) /\ Loopless(f.next, Free(f))
          /\ \A t \in Free(f) : links[t] = f.next[t]
      BY <1>2, <1>7, <1>9, ListsAre, OnIs DEF Free, FileOK, Tidy
    <2>2. /\ Chain(links, f.first[FreeList]) = Free(f)
          /\ Loopless(links, Chain(links, f.first[FreeList]))
      <3> DEFINE h == f.first[FreeList]
                 old == f.next
      <3>1. /\ Free(f) = Chain(old, h) /\ Loopless(old, Chain(old, h))
            /\ old \in Links /\ h \in Link /\ \A t \in Chain(old, h) : links[t] = old[t]
        BY <2>1, <1>2
      <3> HIDE DEF h, old
      <3>2. Chain(links, h) = Chain(old, h) /\ Loopless(links, Chain(links, h))
        BY <3>1, <1>4, ChainAgree, LooplessAgree
      <3> QED
        BY <3>1, <3>2 DEF h
    <2>3. CASE size = f.cur
      <3>1. f.cur .. size - 1 = {} /\ head = f.first[FreeList]
        BY <2>3, <1>2 DEF head
      <3> QED
        BY <2>2, <3>1
    <2>4. CASE size > f.cur
      <3> DEFINE a == f.cur
                 b == size - 1
      <3>1. head = b /\ a \in Slots /\ b \in Slots /\ a <= b /\ links[a] = f.first[FreeList]
        BY <2>4, <1>2, <1>7 DEF head, Slots
      <3>2. \A k \in a + 1 .. b : links[k] = k - 1
        BY <1>7
      <3>3. \A k \in a .. b : k \notin Chain(links, links[a])
        BY <3>1, <2>2, <1>2, <1>9, ListsAre DEF Free
      <3>4. Loopless(links, Chain(links, links[a]))
        BY <3>1, <2>2
      <3> HIDE DEF a, b
      <3>5. /\ Chain(links, b) = (a .. b) \cup Chain(links, links[a])
            /\ Loopless(links, Chain(links, b))
        BY <3>1, <3>2, <3>3, <3>4, <1>4, PutMany
      <3> QED
        BY <3>1, <3>5, <2>2 DEF a, b
    <2> QED
      BY <2>3, <2>4, <1>2
  <1>11. n = Cardinality((f.cur .. size - 1) \cup Free(f)) /\ n \in 0 .. MaxPages
    <2> DEFINE S == f.cur .. size - 1
               T == S \cup Free(f)
    <2>1. IsFiniteSet(S) /\ Cardinality(S) = size - f.cur
      <3> DEFINE a == f.cur
                 b == size - 1
      <3>1. a \in Int /\ b \in Int /\ (IF a > b THEN 0 ELSE b - a + 1) = size - f.cur
        BY <1>2
      <3> HIDE DEF a, b
      <3>2. IsFiniteSet(a .. b) /\ Cardinality(a .. b) = IF a > b THEN 0 ELSE b - a + 1
        BY <3>1, FS_Interval
      <3> QED
        BY <3>1, <3>2 DEF a, b
    <2>2. Free(f) \in SUBSET Slots /\ S \cap Free(f) = {}
      BY <1>2, <1>9, ListsAre DEF Free
    <2>3. IsFiniteSet(Free(f)) /\ f.count = Cardinality(Free(f))
      BY <2>2, SlotsFinite DEF FileOK, Listed
    <2>4. Cardinality(T) = Cardinality(S) + Cardinality(Free(f)) - Cardinality(S \cap Free(f))
      BY <2>1, <2>3, FS_Union
    <2>5. Cardinality(S \cap Free(f)) = 0
      BY <2>2, FS_EmptySet
    <2>6. T \in SUBSET Slots
      BY <2>2, <1>3
    <2> HIDE DEF S, T
    <2>7. n = Cardinality(T)
      BY <2>1, <2>3, <2>4, <2>5, <1>2
    <2> QED
      BY <2>6, <2>7, SlotsFinite DEF S, T
  <1> HIDE DEF n
  <1>12. /\ g \in File /\ g.next = links /\ g.first = heads /\ g.count = n
         /\ g.entry = f.entry /\ g.cur = size /\ g.max = f.max
    <2>1. f \in File /\ n \in 0 .. MaxPages /\ size \in 1 .. MaxPages
      BY <1>2, <1>11
    <2>2. heads \in [Lists -> Slots \cup {Nil}] /\ links \in [Slots -> Slots \cup {Nil}]
      BY <1>4, <1>6 DEF Links, Link
    <2> QED
      BY <2>1, <2>2 DEF File
  <1> HIDE DEF g
  <1>13. Free(g) = (f.cur .. size - 1) \cup Free(f) /\ Loopless(g.next, Free(g))
    <2>1. Free(g) = Chain(links, head)
      BY <1>6, <1>12, ListsAre, OnIs DEF Free
    <2> QED
      BY <2>1, <1>10, <1>12
  <1>14. \A l \in Buckets : On(g, l) = On(f, l) /\ Loopless(g.next, On(g, l))
    <2>1. ASSUME NEW l \in Buckets
          PROVE  On(g, l) = On(f, l) /\ Loopless(g.next, On(g, l))
      <3>1. l \in Lists /\ g.first[l] = f.first[l] /\ Loopless(f.next, On(f, l))
        BY <1>6, <1>12, ListsAre DEF FileOK, Tidy
      <3>2. \A t \in On(f, l) : g.next[t] = f.next[t]
        BY <3>1, <1>7, <1>9, <1>12
      <3> QED
        BY <3>1, <3>2, <1>2, <1>12, SameList
    <2> QED
      BY <2>1
  <1>15. Used(g) = Used(f)
    BY <1>14 DEF Used
  <1>16. Tidy(g)
    <2>1. \A l, m \in Buckets : l # m => On(g, l) \cap On(g, m) = {}
      BY <1>14, ListsAre DEF FileOK, Tidy
    <2>2. \A l \in Buckets : On(g, l) \cap Free(g) = {}
      <3>1. \A l \in Buckets : On(f, l) \cap Free(f) = {}
        BY ListsAre DEF FileOK, Tidy, Free
      <3>2. \A l \in Buckets : On(f, l) \cap (f.cur .. size - 1) = {}
        BY <1>2, <1>9, ListsAre
      <3> QED
        BY <3>1, <3>2, <1>13, <1>14
    <2> QED
      BY <2>1, <2>2, <1>13, <1>14 DEF Tidy, Lists, Free
  <1>17. Listed(g)
    <2>1. \A s \in Slots : s < size <=> s < f.cur \/ s \in f.cur .. size - 1
      BY <1>2, <1>3
    <2>2. \A s \in Slots : s < g.cur <=> s \in Used(g) \cup Free(g)
      BY <2>1, <1>8, <1>12, <1>13, <1>15
    <2>3. ASSUME NEW s \in Slots, s >= size PROVE g.next[s] = Nil
      <3>1. s >= f.cur
        BY <2>3, <1>2, <1>3
      <3> QED
        BY <3>1, <2>3, <1>7, <1>12 DEF FileOK, Listed
    <2> QED
      BY <2>2, <2>3, <1>11, <1>12, <1>13 DEF Listed
  <1>18. Hashed(g)
    BY <1>12, <1>14, <1>15 DEF Hashed, FileOK
  <1>19. GrewTo(f, g, size)
    BY <1>12, <1>15, <1>16, <1>17, <1>18, <1>2 DEF GrewTo, FileOK
  <1> QED
    BY <1>1, <1>19

(***************************************************************************)
(* The invariant.  Types; the file, the handles and the pages; the memory  *)
(* that is asked for; the page being transferred; the ways to the disk.    *)
(***************************************************************************)
Types ==
  /\ path \in Paths
  /\ disk \in [Slots -> Content]
  /\ buffer \in [slot : Slots \cup {Nil}, data : Content]
  /\ ioBusy \in BOOLEAN
  /\ idleFlags \subseteq IdleFlags
  /\ pc \in Pcs /\ op \in Op /\ request \in Request
  /\ mem \in [LinPages -> Content]

HandlesOK(hs) ==
  /\ hs \subseteq Handles
  /\ \A h \in hs : Region(h) \subseteq LinPages
  /\ \A h, k \in hs : h # k => Region(h) \cap Region(k) = {}

\* The slots in use belong to memory that exists, and so do the page tables.
Pages ==
  /\ FileOK(file) /\ \A s \in Used(file) : file.entry[s] \in Alive
  /\ HandlesOK(handles)
  /\ present \subseteq Alive /\ everDirty \subseteq Alive
  /\ dirty \subseteq everDirty \cap present

Wish(r) == [start |-> r.start, size |-> r.size]
Had(r) == [start |-> r.old, size |-> r.oldSize]

\* A request is for new memory where there is none, or for less of a handle.
New(r, alive) ==
  /\ r.old = 0 /\ r.oldSize = 0
  /\ Wish(r) \in Handles /\ Region(Wish(r)) \subseteq LinPages \ alive
Less(r, hs) ==
  /\ r.old = r.start /\ r.size < r.oldSize
  /\ Wish(r) \in Handles /\ Had(r) \in hs

Asked ==
  /\ request.at = "none" => request = NoRequest
  /\ request.at = "test_grow" => New(request, Alive)
  /\ request.at = "create_grow" => New(request, Alive) \/ Less(request, handles)
  /\ pc = "grow" => request.at # "none"

Direct == {"write", "read", "reading", "woken"}
ByDos == {"dos_write", "dos_read"}
Reading == {"read", "reading", "woken", "dos_read"}
Transferring == Direct \cup ByDos

\* The page that is transferred stays alive and keeps its slot.
Working ==
  /\ pc \notin Transferring => op = NoOp
  /\ pc \in Transferring =>
       /\ op.page \in Usable /\ op.page \in everDirty
       /\ op.slot \in Used(file) /\ file.entry[op.slot] = op.page
  /\ pc \in Reading => op.page \notin present

\* The token is with the write of the buffer or with the read; DOS is entered
\* while a call of it is out, and once for each error before.
Devices ==
  /\ pc \in Direct => path = "direct"
  /\ pc \in ByDos => path # "direct"
  /\ path # "direct" => buffer.slot = Nil
  /\ ioSem = IF buffer.slot # Nil \/ pc = "reading" THEN 0 ELSE 1
  /\ buffer.slot = Nil \/ pc # "reading"
  /\ dosCount \in IF pc = "grow" \/ (path = "dos" /\ pc \in ByDos)
                  THEN 1 .. MaxErrors + 1 ELSE 0 .. MaxErrors

Structure == Types /\ Pages /\ Asked /\ Working /\ Devices

Writing == IF pc \in {"write", "dos_write"} THEN {op.page} ELSE {}
Stored(s) == IF s = buffer.slot THEN buffer.data ELSE disk[s]

\* Where the last contents of a page are: in memory; in its slot, or on the way
\* there, once it has been written.
Kept ==
  /\ \A p \in present \cup Writing : mem[p] = p
  /\ pc = "woken" => mem[op.page] = op.page
  /\ \A s \in Used(file) : file.entry[s] \in everDirty \ (dirty \cup Writing)
                           => Stored(s) = file.entry[s]
  /\ \A p \in everDirty \ (present \cup Writing) : \E s \in Used(file) : file.entry[s] = p

(***************************************************************************)
(* Handles.                                                                *)
(***************************************************************************)
AliveIn(hs) == UNION {Region(h) : h \in hs}

LEMMA HandleIs ==
  ASSUME NEW h \in Handles
  PROVE  /\ h.start \in LinPages /\ h.size \in 1 .. NPages
         /\ h = [start |-> h.start, size |-> h.size]
         /\ h.start \in Nat \ {0} /\ h.size \in Nat \ {0}
         /\ h.start \in Region(h) /\ h.start + h.size - 1 \in Region(h)
  <1>1. h \in Handle
    BY ChoiceAssumption
  <1>2. h.start \in LinPages /\ h.size \in 1 .. NPages /\ h = [start |-> h.start, size |-> h.size]
    BY <1>1 DEF Handle
  <1>3. h.start \in Nat \ {0} /\ h.size \in Nat \ {0}
    BY <1>2, SizeAssumption DEF LinPages
  <1> QED
    BY <1>2, <1>3 DEF Region

LEMMA HandlesNew ==
  ASSUME NEW hs, HandlesOK(hs), NEW w \in Handles, Region(w) \subseteq LinPages \ AliveIn(hs)
  PROVE  HandlesOK(hs \cup {w}) /\ AliveIn(hs \cup {w}) = AliveIn(hs) \cup Region(w)
  BY DEF HandlesOK, AliveIn

LEMMA HandlesGone ==
  ASSUME NEW hs, HandlesOK(hs), NEW h \in hs
  PROVE  HandlesOK(hs \ {h}) /\ AliveIn(hs \ {h}) = AliveIn(hs) \ Region(h)
  BY DEF HandlesOK, AliveIn

LEMMA HandlesLess ==
  ASSUME NEW hs, HandlesOK(hs), NEW h \in hs, NEW w \in Handles,
         w.start = h.start, w.size < h.size
  PROVE  LET gone == w.start + w.size .. h.start + h.size - 1
         IN  /\ HandlesOK((hs \ {h}) \cup {w})
             /\ AliveIn((hs \ {h}) \cup {w}) = AliveIn(hs) \ gone
             /\ gone \subseteq Region(h)
  <1> DEFINE gone == w.start + w.size .. h.start + h.size - 1
  <1>1. h \in Handles
    BY DEF HandlesOK
  <1>2. Region(h) = Region(w) \cup gone /\ Region(w) \cap gone = {}
    BY <1>1, HandleIs DEF Region
  <1> HIDE DEF gone
  <1>3. HandlesOK(hs \ {h}) /\ AliveIn(hs \ {h}) = AliveIn(hs) \ Region(h)
    BY HandlesGone
  <1>4. Region(h) \subseteq LinPages /\ Region(h) \subseteq AliveIn(hs)
    BY DEF HandlesOK, AliveIn
  <1>5. Region(w) \subseteq LinPages \ AliveIn(hs \ {h})
    BY <1>2, <1>3, <1>4
  <1>6. /\ HandlesOK((hs \ {h}) \cup {w})
        /\ AliveIn((hs \ {h}) \cup {w}) = AliveIn(hs \ {h}) \cup Region(w)
    BY <1>3, <1>5, HandlesNew
  <1>7. AliveIn(hs \ {h}) \cap gone = {} /\ gone \subseteq Region(h)
    BY <1>2, <1>3
  <1>8. AliveIn((hs \ {h}) \cup {w}) = AliveIn(hs) \ gone
    BY <1>2, <1>3, <1>4, <1>6, <1>7
  <1> QED
    BY <1>6, <1>7, <1>8 DEF gone

(***************************************************************************)
(* Memory that goes away.                                                  *)
(***************************************************************************)
\* The file may grow, and the pages of T lose their slots.
Swept(f, g, T) ==
  /\ FileOK(g) /\ g.entry = f.entry
  /\ Used(g) = {s \in Used(f) : f.entry[s] \notin T}

\* The pages of T are gone; what is held of others stays.
Dropped(T) ==
  /\ Swept(file, file', T)
  /\ present' = present \ T /\ dirty' = dirty \ T /\ everDirty' = everDirty \ T
  /\ disk' \in [Slots -> Content]
  /\ \A s \in Slots : disk[s] \notin T => disk'[s] = disk[s]
  /\ buffer' \in [slot : Slots \cup {Nil}, data : Content]
  /\ buffer'.slot = buffer.slot /\ (buffer.data \notin T => buffer'.data = buffer.data)
  /\ mem' \in [LinPages -> Content]
  /\ \A p \in LinPages \ T : mem[p] = p => mem'[p] = p

HandlesStep(T) ==
  HandlesOK(handles') /\ AliveIn(handles) \ T \subseteq AliveIn(handles')

\* The pages that are not what they were after request r.
Gone(r) ==
  IF r.old = 0 THEN Region(Wish(r))
  ELSE r.start + r.size .. r.old + r.oldSize - 1

Legal(r) == New(r, Alive) \/ Less(r, handles)

LEMMA LessIs ==
  ASSUME HandlesOK(handles), NEW r, Less(r, handles)
  PROVE  /\ Had(r) \in handles /\ Had(r) \in Handles /\ Wish(r) \in Handles
         /\ r.old # 0 /\ r.old = r.start
         /\ r.start \in LinPages /\ r.size \in 1 .. NPages /\ r.oldSize \in 1 .. NPages
         /\ r.start \in Nat \ {0} /\ r.size \in Nat \ {0} /\ r.oldSize \in Nat \ {0}
         /\ r.size < r.oldSize
  <1>1. Had(r) \in handles /\ Had(r) \in Handles /\ Wish(r) \in Handles
    BY DEF Less, HandlesOK
  <1>2. Had(r).start = r.old /\ Had(r).size = r.oldSize /\ Wish(r).start = r.start /\ Wish(r).size = r.size
    BY DEF Had, Wish
  <1>3. /\ Had(r).start \in Nat \ {0} /\ Had(r).size \in Nat \ {0} /\ Had(r).size \in 1 .. NPages
        /\ Wish(r).start \in LinPages /\ Wish(r).start \in Nat \ {0}
        /\ Wish(r).size \in Nat \ {0} /\ Wish(r).size \in 1 .. NPages
    BY <1>1, HandleIs
  <1> QED
    BY <1>1, <1>2, <1>3 DEF Less

LEMMA NewIs ==
  ASSUME NEW r, New(r, Alive)
  PROVE  /\ Wish(r) \in Handles /\ r.old = 0 /\ r.oldSize = 0
         /\ Region(Wish(r)) = r.start .. r.start + r.size - 1
         /\ Region(Wish(r)) \subseteq LinPages \ Alive
         /\ r.start \in LinPages /\ r.size \in 1 .. NPages
         /\ r.start \in Nat \ {0} /\ r.size \in Nat \ {0}
  <1>1. Wish(r) \in Handles /\ Wish(r).start = r.start /\ Wish(r).size = r.size
    BY DEF New, Wish
  <1>2. /\ Wish(r).start \in LinPages /\ Wish(r).start \in Nat \ {0}
        /\ Wish(r).size \in Nat \ {0} /\ Wish(r).size \in 1 .. NPages
    BY <1>1, HandleIs
  <1> QED
    BY <1>1, <1>2 DEF New, Region

LEMMA MovedIs ==
  ASSUME HandlesOK(handles), NEW r, Legal(r), NEW q \in Content
  PROVE  Moved(r, q) = IF q \in Gone(r) THEN Garbage ELSE q
  <1>0. q \in Int /\ 0 \notin LinPages
    BY PagesInt DEF Content, Garbage
  <1>1. CASE New(r, Alive)
    <2>1. /\ r.old = 0 /\ r.oldSize = 0 /\ Region(Wish(r)) = r.start .. r.start + r.size - 1
          /\ Gone(r) = r.start .. r.start + r.size - 1
      BY <1>1, NewIs DEF Gone
    <2>2. q \notin r.old .. r.old + r.oldSize - 1
      BY <2>1, <1>0
    <2> QED
      BY <2>1, <2>2 DEF Moved
  <1>2. CASE Less(r, handles)
    <2>1. /\ r.old = r.start /\ r.old # 0 /\ r.start \in Nat \ {0} /\ r.size \in Nat \ {0}
          /\ r.oldSize \in Nat \ {0} /\ r.size < r.oldSize
      BY <1>2, LessIs
    <2>2. Gone(r) = r.start + r.size .. r.old + r.oldSize - 1
      BY <2>1 DEF Gone
    <2>3. CASE q \in r.old .. r.old + r.oldSize - 1
      <3>1. q - r.old < r.size <=> q \notin Gone(r)
        BY <2>1, <2>2, <2>3, <1>0
      <3>2. q - r.old + r.start = q
        BY <2>1, <1>0
      <3> QED
        BY <3>1, <3>2, <2>3 DEF Moved
    <2>4. CASE q \notin r.old .. r.old + r.oldSize - 1
      <3>1. q \notin r.start .. r.start + r.size - 1 /\ q \notin Gone(r)
        BY <2>1, <2>2, <2>4, <1>0
      <3> QED
        BY <3>1, <2>4 DEF Moved
    <2> QED
      BY <2>3, <2>4
  <1> QED
    BY <1>1, <1>2 DEF Legal

LEMMA MovedSetIs ==
  ASSUME HandlesOK(handles), NEW r, Legal(r), NEW S \in SUBSET LinPages
  PROVE  MovedSet(r, S) = S \ Gone(r)
  <1>1. \A p \in S : p \in Content /\ p # Garbage
    BY PagesInt DEF Content, Garbage
  <1>2. \A p \in S : Moved(r, p) = IF p \in Gone(r) THEN Garbage ELSE p
    BY <1>1, MovedIs
  <1> QED
    BY <1>1, <1>2 DEF MovedSet

\* The handles after request r.
LEMMA HandlesCreated ==
  ASSUME HandlesOK(handles), NEW r, Legal(r)
  PROVE  LET hs == (handles \ {Had(r)}) \cup {Wish(r)}
         IN  /\ HandlesOK(hs) /\ AliveIn(handles) \ Gone(r) \subseteq AliveIn(hs)
             /\ Gone(r) \cap Alive \subseteq Region(Had(r))
             /\ Gone(r) \subseteq LinPages
  <1> DEFINE hs == (handles \ {Had(r)}) \cup {Wish(r)}
  <1>0. Alive = AliveIn(handles)
    BY DEF Alive, AliveIn
  <1>1. CASE New(r, Alive)
    <2>1. /\ Wish(r) \in Handles /\ r.old = 0 /\ Region(Wish(r)) \subseteq LinPages \ Alive
          /\ Gone(r) = Region(Wish(r))
      BY <1>1, NewIs DEF Gone
    <2>2. Had(r) \notin handles
      <3>1. \A h \in handles : h.start # 0
        BY HandleIs DEF HandlesOK
      <3>2. Had(r).start = 0
        BY <2>1 DEF Had
      <3> QED
        BY <3>1, <3>2
    <2>3. hs = handles \cup {Wish(r)}
      BY <2>2
    <2> HIDE DEF hs
    <2>4. HandlesOK(hs) /\ AliveIn(hs) = AliveIn(handles) \cup Region(Wish(r))
      BY <2>1, <2>3, <1>0, HandlesNew
    <2> QED
      BY <2>1, <2>4 DEF hs
  <1>2. CASE Less(r, handles)
    <2>1. /\ Had(r) \in handles /\ Wish(r) \in Handles /\ r.old # 0 /\ r.old = r.start
          /\ r.size < r.oldSize
      BY <1>2, LessIs
    <2>2. /\ Wish(r).start = r.start /\ Wish(r).size = r.size
          /\ Had(r).start = r.start /\ Had(r).size = r.oldSize
          /\ Gone(r) = Wish(r).start + Wish(r).size .. Had(r).start + Had(r).size - 1
      BY <2>1 DEF Wish, Had, Gone
    <2>3. /\ HandlesOK(hs) /\ AliveIn(hs) = AliveIn(handles) \ Gone(r)
          /\ Gone(r) \subseteq Region(Had(r))
      <3> DEFINE h == Had(r)
                 w == Wish(r)
      <3>1. /\ h \in handles /\ w \in Handles /\ w.start = h.start /\ w.size < h.size
            /\ Gone(r) = w.start + w.size .. h.start + h.size - 1
        BY <2>1, <2>2
      <3> HIDE DEF h, w
      <3>2. /\ HandlesOK((handles \ {h}) \cup {w})
            /\ AliveIn((handles \ {h}) \cup {w}) = AliveIn(handles) \ Gone(r)
            /\ Gone(r) \subseteq Region(h)
        <4> DEFINE gone == w.start + w.size .. h.start + h.size - 1
        <4>1. /\ HandlesOK((handles \ {h}) \cup {w})
              /\ AliveIn((handles \ {h}) \cup {w}) = AliveIn(handles) \ gone
              /\ gone \subseteq Region(h)
          BY <3>1, HandlesLess
        <4> QED
          BY <3>1, <4>1
      <3> QED
        BY <3>2 DEF h, w
    <2> QED
      BY <2>1, <2>3 DEF HandlesOK
  <1> QED
    BY <1>1, <1>2 DEF Legal

LEMMA RelocatedIs ==
  ASSUME HandlesOK(handles), NEW f, FileOK(f), NEW r, Less(r, handles)
  PROVE  Swept(f, Relocated(f, r), Gone(r))
  <1> DEFINE p == r.start + r.size
             n == r.oldSize - r.size
  <1>1. /\ r.old # 0 /\ r.old = r.start /\ r.start \in Nat \ {0} /\ r.size \in Nat \ {0}
        /\ r.oldSize \in Nat \ {0} /\ r.size < r.oldSize
    BY LessIs
  <1>2. p \in Int /\ n \in Nat /\ p + n - 1 = r.old + r.oldSize - 1
    BY <1>1
  <1>3. Relocated(f, r) = FreePages(f, p, n)
    BY <1>1 DEF Relocated
  <1>4. Gone(r) = p .. p + n - 1
    BY <1>1, <1>2 DEF Gone
  <1> HIDE DEF p, n
  <1>5. Freed(f, FreePages(f, p, n), p .. p + n - 1)
    BY <1>2, FreePagesIs
  <1> QED
    BY <1>3, <1>4, <1>5 DEF Freed, Swept

\* The end of PageSwap_Create: the pages of Gone(r) go.
LEMMA CreatedIs ==
  ASSUME Types, Pages, NEW f, Swept(file, f, {}), NEW r, Legal(r), Created(f, r)
  PROVE  Dropped(Gone(r)) /\ HandlesStep(Gone(r)) /\ request' = NoRequest
  <1> DEFINE T == Gone(r)
  <1>1. HandlesOK(handles) /\ FileOK(file)
    BY DEF Pages
  <1>2. \A q \in Content : Moved(r, q) = IF q \in T THEN Garbage ELSE q
    BY <1>1, MovedIs
  <1>3. AliveIn(handles) \subseteq LinPages /\ Alive = AliveIn(handles)
    BY <1>1 DEF HandlesOK, AliveIn, Alive
  <1>4. /\ HandlesOK((handles \ {Had(r)}) \cup {Wish(r)})
        /\ AliveIn(handles) \ T \subseteq AliveIn((handles \ {Had(r)}) \cup {Wish(r)})
        /\ T \cap Alive \subseteq Region(Had(r))
    BY <1>1, HandlesCreated
  <1>5. handles' = (handles \ {Had(r)}) \cup {Wish(r)} /\ request' = NoRequest
    BY DEF Created, Had, Wish
  <1>6. HandlesStep(T)
    BY <1>4, <1>5 DEF HandlesStep
  <1>7. Swept(file, file', T)
    <2>1. CASE New(r, Alive)
      <3>1. file' = f /\ T \cap Alive = {}
        BY <2>1, NewIs DEF Created, Gone
      <3>2. {s \in Used(file) : file.entry[s] \notin T} = Used(file)
        BY <3>1 DEF Pages
      <3> QED
        BY <3>1, <3>2 DEF Swept
    <2>2. CASE Less(r, handles)
      <3>1. file' = Relocated(f, r) /\ FileOK(f)
        BY <2>2, <1>1, LessIs DEF Created, Swept
      <3>2. Swept(f, Relocated(f, r), T)
        BY <2>2, <1>1, <3>1, RelocatedIs
      <3>3. f.entry = file.entry /\ Used(f) = Used(file)
        BY DEF Swept
      <3> QED
        BY <3>1, <3>2, <3>3 DEF Swept
    <2> QED
      BY <2>1, <2>2 DEF Legal
  <1>8. present' = present \ T /\ dirty' = dirty \ T /\ everDirty' = everDirty \ T
    <2>1. present \in SUBSET LinPages /\ dirty \in SUBSET LinPages /\ everDirty \in SUBSET LinPages
      BY <1>3 DEF Pages
    <2> QED
      BY <2>1, <1>1, MovedSetIs DEF Created
  <1> HIDE DEF T
  <1>9. disk' \in [Slots -> Content] /\ \A s \in Slots : disk[s] \notin T => disk'[s] = disk[s]
    <2>1. \A s \in Slots : disk[s] \in Content
      BY DEF Types
    <2>2. disk' = [s \in Slots |-> Moved(r, disk[s])]
      BY DEF Created
    <2>3. \A s \in Slots : Moved(r, disk[s]) = IF disk[s] \in T THEN Garbage ELSE disk[s]
      BY <2>1, <1>2
    <2>4. \A s \in Slots : Moved(r, disk[s]) \in Content
      BY <2>1, <2>3 DEF Content
    <2> QED
      BY <2>2, <2>3, <2>4
  <1>10. /\ buffer' \in [slot : Slots \cup {Nil}, data : Content] /\ buffer'.slot = buffer.slot
         /\ buffer.data \notin T => buffer'.data = buffer.data
    <2>1. buffer \in [slot : Slots \cup {Nil}, data : Content]
      BY DEF Types
    <2> DEFINE d == Moved(r, buffer.data)
    <2>2. buffer' = [buffer EXCEPT !.data = d]
      BY DEF Created
    <2>3. d = (IF buffer.data \in T THEN Garbage ELSE buffer.data) /\ d \in Content
      BY <2>1, <1>2 DEF Content
    <2> HIDE DEF d
    <2> QED
      BY <2>1, <2>2, <2>3
  <1>11. mem' \in [LinPages -> Content] /\ \A p \in LinPages \ T : mem[p] = p => mem'[p] = p
    <2>1. mem' = [p \in LinPages |-> IF \E q \in LinPages : mem[q] # Garbage /\ Moved(r, q) = p
                                     THEN p ELSE Garbage]
      BY DEF Created
    <2>2. ASSUME NEW p \in LinPages \ T, mem[p] = p PROVE mem'[p] = p
      <3>1. Moved(r, p) = p /\ mem[p] # Garbage
        BY <2>2, <1>2, PagesInt DEF Content, Garbage
      <3> QED
        BY <2>1, <3>1
    <2>3. mem' \in [LinPages -> Content]
      BY <2>1 DEF Content
    <2> QED
      BY <2>2, <2>3
  <1>12. Dropped(T)
    BY <1>7, <1>8, <1>9, <1>10, <1>11 DEF Dropped
  <1> QED
    BY <1>5, <1>6, <1>12 DEF T

\* A step that leaves memory as it is; the file may have grown.
LEMMA RequestedIs ==
  ASSUME Types, Pages, NEW f, Swept(file, f, {}), NEW r, Requested(f, r)
  PROVE  Dropped({}) /\ HandlesStep({}) /\ request' = r /\ handles' = handles
  BY DEF Types, Pages, Requested, Dropped, HandlesStep, pteVars

LEMMA ForgetIs ==
  ASSUME Types, NEW T, Forget(T)
  PROVE  /\ disk' \in [Slots -> Content]
         /\ \A s \in Slots : disk[s] \notin T => disk'[s] = disk[s]
         /\ buffer' \in [slot : Slots \cup {Nil}, data : Content]
         /\ buffer'.slot = buffer.slot
         /\ buffer.data \notin T => buffer'.data = buffer.data
  <1>1. disk' \in [Slots -> Content] /\ \A s \in Slots : disk[s] \notin T => disk'[s] = disk[s]
    BY DEF Forget, Types, Content
  <1>2. buffer \in [slot : Slots \cup {Nil}, data : Content]
    BY DEF Types
  <1> DEFINE d == IF buffer.data \in T THEN Garbage ELSE buffer.data
  <1>3. buffer' = [buffer EXCEPT !.data = d] /\ d \in Content /\ (buffer.data \notin T => d = buffer.data)
    BY <1>2 DEF Forget, Content
  <1> HIDE DEF d
  <1> QED
    BY <1>1, <1>2, <1>3

LEMMA DestroyIs ==
  ASSUME Types, Pages, NEW h \in Handles, Destroy(h)
  PROVE  Dropped(Region(h)) /\ HandlesStep(Region(h)) /\ handles' = handles \ {h}
  <1>1. HandlesOK(handles) /\ FileOK(file) /\ h \in handles
    BY DEF Pages, Destroy
  <1>2. HandlesOK(handles \ {h}) /\ AliveIn(handles \ {h}) = AliveIn(handles) \ Region(h)
    BY <1>1, HandlesGone
  <1>3. h.start \in Int /\ h.size \in Nat /\ Region(h) = h.start .. h.start + h.size - 1
    BY HandleIs DEF Region
  <1>4. Swept(file, FreePages(file, h.start, h.size), Region(h))
    BY <1>1, <1>3, FreePagesIs DEF Freed, Swept
  <1>5. /\ mem' \in [LinPages -> Content]
        /\ \A p \in LinPages \ Region(h) : mem[p] = p => mem'[p] = p
    BY DEF Destroy, Types, Content
  <1>6. handles' = handles \ {h} /\ file' = FreePages(file, h.start, h.size)
    BY DEF Destroy
  <1>7. /\ present' = present \ Region(h) /\ dirty' = dirty \ Region(h)
        /\ everDirty' = everDirty \ Region(h) /\ Forget(Region(h))
    BY DEF Destroy
  <1>8. Dropped(Region(h))
    BY <1>4, <1>5, <1>6, <1>7, ForgetIs DEF Dropped
  <1> QED
    BY <1>2, <1>6, <1>8 DEF HandlesStep

\* Whoever is in the critical section goes on, or PageSwap_Grow_File ends.
PagerStays ==
  \/ pc' = pc /\ dosCount' = dosCount
  \/ pc = "grow" /\ pc' = "ready" /\ dosCount' = dosCount - 1

LEMMA DroppedKeeps ==
  ASSUME Structure, NEW T, Dropped(T), HandlesStep(T), PagerStays,
         UNCHANGED <<path, ioSem, ioBusy, idleFlags, op>>,
         pc \in Transferring => op.page \notin T /\ op.page \in Usable',
         request' \in Request, Asked'
  PROVE  Structure'
  <1>1. Types'
    <2>1. pc' \in Pcs
      BY DEF PagerStays, Structure, Types, Pcs
    <2> QED
      BY <2>1 DEF Structure, Types, Dropped
  <1>2. Pages'
    <2>1. Alive' = AliveIn(handles') /\ Alive = AliveIn(handles)
      BY DEF Alive, AliveIn
    <2>2. Alive \ T \subseteq Alive'
      BY <2>1 DEF HandlesStep
    <2>3. FileOK(file') /\ \A s \in Used(file') : file'.entry[s] \in Alive'
      BY <2>2 DEF Dropped, Swept, Structure, Pages
    <2>4. present' \subseteq Alive' /\ everDirty' \subseteq Alive'
          /\ dirty' \subseteq everDirty' \cap present'
      BY <2>2 DEF Dropped, Structure, Pages
    <2> QED
      BY <2>3, <2>4 DEF Pages, HandlesStep
  <1>3. Working'
    <2>1. CASE pc \notin Transferring
      <3>1. pc' \notin Transferring /\ op' = NoOp /\ (pc' = "grow" => pc = "grow") /\ pc' \notin Reading
        BY <2>1 DEF PagerStays, Structure, Working, Transferring, Direct, ByDos, Reading
      <3> QED
        BY <3>1 DEF Working
    <2>2. CASE pc \in Transferring
      <3>1. pc' = pc /\ op' = op
        BY <2>2 DEF PagerStays, Transferring, Direct, ByDos
      <3>2. /\ op.page \in Usable /\ op.page \in everDirty /\ op.slot \in Used(file)
            /\ file.entry[op.slot] = op.page /\ op.page \notin T
            /\ pc \in Reading => op.page \notin present
        BY <2>2 DEF Structure, Working
      <3>3. op.page \in everDirty' /\ op.slot \in Used(file') /\ file'.entry[op.slot] = op.page
        BY <3>2 DEF Dropped, Swept
      <3>4. pc \in Reading => op.page \notin present'
        BY <3>2 DEF Dropped
      <3> QED
        BY <2>2, <3>1, <3>3, <3>4 DEF Working
    <2> QED
      BY <2>1, <2>2
  <1>4. Devices'
    <2>1. path' = path /\ ioSem' = ioSem /\ buffer'.slot = buffer.slot
      BY DEF Dropped
    <2>2. CASE pc' = pc /\ dosCount' = dosCount
      BY <2>1, <2>2 DEF Structure, Devices
    <2>3. CASE pc = "grow" /\ pc' = "ready" /\ dosCount' = dosCount - 1
      <3>1. pc' \notin Direct /\ pc' \notin ByDos /\ pc' # "reading" /\ pc' # "grow" /\ pc # "reading"
        BY <2>3 DEF Direct, ByDos
      <3>2. dosCount' \in 0 .. MaxErrors
        BY <2>3, SizeAssumption DEF Structure, Devices
      <3>3. /\ path # "direct" => buffer.slot = Nil
            /\ ioSem = IF buffer.slot # Nil THEN 0 ELSE 1
        BY <3>1 DEF Structure, Devices
      <3> QED
        BY <2>1, <3>1, <3>2, <3>3 DEF Devices
    <2> QED
      BY <2>2, <2>3 DEF PagerStays
  <1> QED
    BY <1>1, <1>2, <1>3, <1>4 DEF Structure

LEMMA DroppedKept ==
  ASSUME Structure, Kept, NEW T, Dropped(T), PagerStays, op' = op,
         pc \in Transferring => op.page \notin T
  PROVE  Kept'
  <1>0. Writing' = Writing
    BY DEF PagerStays, Writing, Transferring, Direct, ByDos
  <1>1. present \subseteq LinPages /\ Writing \subseteq LinPages \ T /\ everDirty \subseteq LinPages
        /\ Used(file) \in SUBSET Slots
    <2>1. Alive \subseteq LinPages
      BY DEF Structure, Pages, HandlesOK, Alive
    <2>2. pc \in Transferring => op.page \in Alive
      BY DEF Structure, Working, Usable
    <2>3. Writing \subseteq {op.page} /\ (pc \notin Transferring => Writing = {})
      BY DEF Writing, Transferring, Direct, ByDos
    <2>4. Used(file) \in SUBSET Slots
      BY UsedFree DEF Structure, Pages
    <2> QED
      BY <2>1, <2>2, <2>3, <2>4 DEF Structure, Pages
  <1>2. \A p \in present' \cup Writing' : mem'[p] = p
    BY <1>0, <1>1 DEF Kept, Dropped
  <1>3. pc' = "woken" => mem'[op'.page] = op'.page
    <2>1. SUFFICES ASSUME pc' = "woken" PROVE mem'[op.page] = op.page
      OBVIOUS
    <2>2. pc = "woken" /\ pc \in Transferring
      BY <2>1 DEF PagerStays, Transferring, Direct
    <2>3. op.page \in LinPages \ T
      BY <2>2 DEF Structure, Working, Usable, Pages, HandlesOK, Alive
    <2> QED
      BY <2>2, <2>3 DEF Kept, Dropped
  <1>4. ASSUME NEW s \in Used(file'), file'.entry[s] \in everDirty' \ (dirty' \cup Writing')
        PROVE  Stored(s)' = file'.entry[s]
    <2> DEFINE p == file.entry[s]
    <2>1. s \in Used(file) /\ file'.entry[s] = p /\ p \notin T
      BY DEF Dropped, Swept
    <2>2. p \in everDirty \ (dirty \cup Writing)
      BY <2>1, <1>0, <1>4 DEF Dropped
    <2>3. Stored(s) = p
      BY <2>1, <2>2 DEF Kept
    <2>4. IF s = buffer'.slot THEN buffer'.data = p ELSE disk'[s] = p
      BY <2>1, <2>3, <1>1 DEF Stored, Dropped
    <2> QED
      BY <2>1, <2>4 DEF Stored
  <1>5. ASSUME NEW p \in everDirty' \ (present' \cup Writing')
        PROVE  \E s \in Used(file') : file'.entry[s] = p
    <2>1. p \in everDirty \ (present \cup Writing) /\ p \notin T
      BY <1>0, <1>5 DEF Dropped
    <2>2. PICK s \in Used(file) : file.entry[s] = p
      BY <2>1 DEF Kept
    <2>3. s \in Used(file') /\ file'.entry[s] = p
      BY <2>1, <2>2 DEF Dropped, Swept
    <2> QED
      BY <2>3
  <1> QED
    BY <1>2, <1>3, <1>4, <1>5 DEF Kept

(***************************************************************************)
(* Requests.                                                               *)
(***************************************************************************)
\* What the memory manager's call for r does, now or after the file has grown.
Answered(r) ==
  \E T : /\ Dropped(T) /\ HandlesStep(T) /\ T \cap Alive \subseteq Region(Had(r))
         /\ request' \in Request /\ Asked' /\ Changing' \subseteq Region(Had(r))

LEMMA AnsweredKeeps ==
  ASSUME Structure, NEW r, Answered(r), PagerStays,
         UNCHANGED <<path, ioSem, ioBusy, idleFlags, op>>,
         pc \in Transferring => op.page \notin Region(Had(r))
  PROVE  Structure' /\ (Kept => Kept')
  <1>1. PICK T : /\ Dropped(T) /\ HandlesStep(T) /\ T \cap Alive \subseteq Region(Had(r))
                 /\ request' \in Request /\ Asked' /\ Changing' \subseteq Region(Had(r))
    BY DEF Answered
  <1>2. pc \in Transferring => op.page \in Alive /\ op.page \notin T
    BY <1>1 DEF Structure, Working, Usable
  <1>3. pc \in Transferring => op.page \in Alive'
    <2>1. Alive' = AliveIn(handles') /\ Alive = AliveIn(handles)
      BY DEF Alive, AliveIn
    <2> QED
      BY <2>1, <1>1, <1>2 DEF HandlesStep
  <1>4. pc \in Transferring => op.page \in Usable'
    BY <1>1, <1>3 DEF Usable
  <1>5. Structure'
    BY <1>1, <1>2, <1>4, DroppedKeeps
  <1>6. Kept => Kept'
    BY <1>1, <1>2, DroppedKept
  <1> QED
    BY <1>5, <1>6

\* Only the question is another.
Again(r, q) ==
  /\ q.start = r.start /\ q.size = r.size /\ q.old = r.old /\ q.oldSize = r.oldSize

LEMMA AgainIs ==
  ASSUME NEW r, NEW q, Again(r, q), NEW alive, NEW hs
  PROVE  /\ Wish(q) = Wish(r) /\ Had(q) = Had(r)
         /\ New(q, alive) <=> New(r, alive)
         /\ Less(q, hs) <=> Less(r, hs)
  BY DEF Again, Wish, Had, New, Less

LEMMA NoRequestIs ==
  /\ NoRequest \in Request /\ NoRequest.at = "none"
  BY SizeAssumption DEF NoRequest, Request

LEMMA ChangingNext ==
  ASSUME NEW r, request' = NoRequest \/ (request'.old = r.old /\ request'.oldSize = r.oldSize)
  PROVE  Changing' \subseteq Region(Had(r))
  BY DEF Changing, Region, Had, NoRequest

\* A request is noted, or given up.
LEMMA NotedIs ==
  ASSUME Structure, NEW f, Swept(file, f, {}), NEW r, NEW q \in Request, Requested(f, q),
         q = NoRequest \/ (/\ Again(r, q)
                           /\ q.at = "test_grow" => New(r, Alive)
                           /\ q.at = "create_grow" => Legal(r)
                           /\ q.at # "none"),
         pc' # "grow"
  PROVE  Answered(r)
  <1>1. Dropped({}) /\ HandlesStep({}) /\ request' = q /\ handles' = handles
    BY RequestedIs DEF Structure
  <1>2. Alive' = Alive
    BY <1>1 DEF Alive
  <1>3. Asked'
    <2>1. CASE q = NoRequest
      BY <2>1, <1>1, NoRequestIs DEF Asked
    <2>2. CASE q # NoRequest
      <3>1. /\ New(q, Alive) <=> New(r, Alive)
            /\ Less(q, handles) <=> Less(r, handles)
        BY <2>2, AgainIs
      <3> QED
        BY <3>1, <2>2, <1>1, <1>2 DEF Asked, Legal
    <2> QED
      BY <2>1, <2>2
  <1>4. Changing' \subseteq Region(Had(r))
    BY <1>1, ChangingNext DEF Again
  <1> QED
    BY <1>1, <1>3, <1>4 DEF Answered

\* PageSwap_Create needs more of the file than there is.
LEMMA NeedIs ==
  ASSUME Structure, NEW f, Swept(file, f, {}), NEW r, Legal(r),
         NEW need, need = r.start + r.size - 1 - Base - f.cur, need > 0
  PROVE  need \in 0 .. NPages
  <1>1. f.cur \in 1 .. MaxPages
    BY FileFields DEF Swept, FileOK
  <1>2. r.start + r.size - 1 \in LinPages /\ r.start \in Nat /\ r.size \in Nat
    <2>1. CASE New(r, Alive)
      BY <2>1, NewIs
    <2>2. CASE Less(r, handles)
      <3>1. /\ Had(r) \in handles /\ r.old = r.start
            /\ r.start \in Nat \ {0} /\ r.size \in Nat \ {0} /\ r.oldSize \in Nat \ {0}
            /\ r.size < r.oldSize
        BY <2>2, LessIs DEF Structure, Pages
      <3>2. Region(Had(r)) \subseteq LinPages /\ Region(Had(r)) = r.start .. r.start + r.oldSize - 1
        BY <3>1 DEF Structure, Pages, HandlesOK, Region, Had
      <3> QED
        BY <3>1, <3>2
    <2> QED
      BY <2>1, <2>2 DEF Legal
  <1> QED
    BY <1>1, <1>2, SizeAssumption DEF LinPages

LEMMA CreatedAnswers ==
  ASSUME Structure, NEW f, Swept(file, f, {}), NEW r, Legal(r), Created(f, r), pc' # "grow"
  PROVE  Answered(r)
  <1>1. Dropped(Gone(r)) /\ HandlesStep(Gone(r)) /\ request' = NoRequest
    BY CreatedIs DEF Structure
  <1>2. Gone(r) \cap Alive \subseteq Region(Had(r))
    BY HandlesCreated DEF Structure, Pages
  <1>3. Asked'
    BY <1>1, NoRequestIs DEF Asked
  <1>4. Changing' \subseteq Region(Had(r))
    BY <1>1, ChangingNext
  <1> QED
    BY <1>1, <1>2, <1>3, <1>4, NoRequestIs DEF Answered

LEMMA CreateIs ==
  ASSUME Structure, NEW f, Swept(file, f, {}), NEW r \in Request, Legal(r), Create(f, r),
         pc' # "grow"
  PROVE  Answered(r)
  <1> DEFINE need == r.start + r.size - 1 - Base - f.cur
             q == [r EXCEPT !.at = "create_grow", !.need = need]
  <1>1. CASE CanGrow(f, need)
    <2>1. Requested(f, q)
      BY <1>1 DEF Create
    <2>2. need \in 0 .. NPages
      BY <1>1, NeedIs DEF CanGrow
    <2> HIDE DEF need
    <2>3. q \in Request /\ Again(r, q) /\ q.at = "create_grow"
      BY <2>2 DEF Request, Again
    <2> HIDE DEF q
    <2> QED
      BY <2>1, <2>3, NotedIs
  <1>2. CASE ~CanGrow(f, need)
    <2>1. Created(f, r)
      BY <1>2 DEF Create
    <2> QED
      BY <2>1, CreatedAnswers
  <1> QED
    BY <1>1, <1>2

LEMMA TestedIs ==
  ASSUME Structure, NEW f, Swept(file, f, {}), NEW r \in Request, New(r, Alive),
         Tested(f, r), pc' # "grow"
  PROVE  Answered(r)
  <1>1. CASE Create(f, r)
    BY <1>1, CreateIs DEF Legal
  <1>2. CASE Requested(f, NoRequest)
    BY <1>2, NotedIs, NoRequestIs
  <1> QED
    BY <1>1, <1>2 DEF Tested

LEMMA SweptNothing ==
  ASSUME Structure
  PROVE  Swept(file, file, {})
  BY DEF Swept, Structure, Pages

LEMMA TestCreateKeeps ==
  ASSUME Structure, NEW h \in Handles, TestCreate(h)
  PROVE  Structure' /\ (Kept => Kept')
  <1> DEFINE need == h.size - file.count
             r == [NoRequest EXCEPT !.start = h.start, !.size = h.size]
             q == [r EXCEPT !.at = "test_grow", !.need = need]
  <1>1. /\ h.start \in LinPages /\ h.size \in 1 .. NPages
        /\ h = [start |-> h.start, size |-> h.size]
    BY HandleIs
  <1>2. r \in Request /\ r.start = h.start /\ r.size = h.size /\ r.old = 0 /\ r.oldSize = 0
    <2>1. h.size \in 0 .. NPages /\ NoRequest.old = 0 /\ NoRequest.oldSize = 0
      BY <1>1, SizeAssumption DEF NoRequest
    <2> QED
      BY <2>1, <1>1, NoRequestIs DEF Request
  <1>3. Wish(r) = h /\ Region(Had(r)) = {}
    BY <1>1, <1>2 DEF Wish, Had, Region
  <1>4. New(r, Alive)
    BY <1>2, <1>3 DEF New, TestCreate
  <1>5. pc' # "grow"
    BY NoRequestIs DEF TestCreate, Structure, Asked
  <1>6. Answered(r)
    <2>1. CASE CanGrow(file, need)
      <3>1. Requested(file, q)
        BY <2>1 DEF TestCreate
      <3>2. need \in 0 .. NPages
        BY <2>1, <1>1, FileFields, SizeAssumption DEF CanGrow, Structure, Pages, FileOK
      <3> HIDE DEF need, r
      <3>3. q \in Request /\ Again(r, q) /\ q.at = "test_grow"
        BY <1>2, <3>2 DEF Request, Again
      <3> HIDE DEF q
      <3> QED
        BY <3>1, <3>3, <1>4, <1>5, NotedIs, SweptNothing
    <2>2. CASE ~CanGrow(file, need)
      <3>1. Tested(file, r)
        BY <2>2 DEF TestCreate
      <3> HIDE DEF r
      <3> QED
        BY <3>1, <1>2, <1>4, <1>5, TestedIs, SweptNothing
    <2> QED
      BY <2>1, <2>2
  <1>7. /\ UNCHANGED <<path, ioSem, ioBusy, idleFlags, op>> /\ PagerStays
    BY DEF TestCreate, PagerStays
  <1> HIDE DEF r
  <1> QED
    BY <1>3, <1>6, <1>7, AnsweredKeeps

LEMMA ReallocateKeeps ==
  ASSUME ~Moves, Structure, NEW h \in Handles, NEW k \in Handles, Reallocate(h, k)
  PROVE  Structure' /\ (Kept => Kept')
  <1> DEFINE r == [NoRequest EXCEPT !.start = k.start, !.size = k.size,
                                    !.old = h.start, !.oldSize = h.size]
  <1>1. /\ h.start \in LinPages /\ h.size \in 1 .. NPages
        /\ h = [start |-> h.start, size |-> h.size]
    BY HandleIs
  <1>2. /\ k.start \in LinPages /\ k.size \in 1 .. NPages
        /\ k = [start |-> k.start, size |-> k.size]
    BY HandleIs
  <1>3. /\ r \in Request /\ r.start = k.start /\ r.size = k.size
        /\ r.old = h.start /\ r.oldSize = h.size
    <2>1. h.size \in 0 .. NPages /\ k.size \in 0 .. NPages
      BY <1>1, <1>2, SizeAssumption
    <2> QED
      BY <2>1, <1>1, <1>2, NoRequestIs DEF Request
  <1>4. Wish(r) = k /\ Had(r) = h
    BY <1>1, <1>2, <1>3 DEF Wish, Had
  <1>5. /\ h \in handles /\ h # k /\ k.size <= h.size /\ k.start = h.start
        /\ op.page \notin Region(h) /\ request = NoRequest /\ Create(file, r) /\ pc' = pc
    BY DEF Reallocate
  <1>6. k.size < h.size
    <2>1. k.size # h.size
      BY <1>1, <1>2, <1>5
    <2> QED
      BY <2>1, <1>1, <1>2, <1>5, SizeAssumption
  <1>7. Legal(r)
    BY <1>3, <1>4, <1>5, <1>6 DEF Legal, Less
  <1>8. pc' # "grow"
    BY <1>5, NoRequestIs DEF Structure, Asked
  <1>9. /\ UNCHANGED <<path, ioSem, ioBusy, idleFlags, op>> /\ PagerStays
    BY DEF Reallocate, PagerStays
  <1> HIDE DEF r
  <1>10. Answered(r)
    BY <1>3, <1>5, <1>7, <1>8, CreateIs, SweptNothing
  <1> QED
    BY <1>4, <1>5, <1>9, <1>10, AnsweredKeeps

LEMMA GrowFileDoneKeeps ==
  ASSUME Structure, GrowFileDone
  PROVE  Structure' /\ (Kept => Kept')
  <1>1. /\ pc = "grow" /\ pc' = "ready" /\ dosCount' = dosCount - 1
        /\ UNCHANGED <<path, ioSem, ioBusy, idleFlags, op>>
    BY DEF GrowFileDone
  <1>2. PICK size \in file.cur .. Wanted(file, request.need) :
          LET f == IF size = Wanted(file, request.need) THEN Grown(file, size)
                   ELSE [Grown(file, size) EXCEPT !.max = size]
          IN  IF request.at = "test_grow" THEN Tested(f, request) ELSE Created(f, request)
    BY DEF GrowFileDone
  <1> DEFINE g == Grown(file, size)
             f == IF size = Wanted(file, request.need) THEN g ELSE [g EXCEPT !.max = size]
  <1>3. request \in Request /\ request.need \in 0 .. NPages /\ request.at # "none"
    BY <1>1 DEF Structure, Types, Asked, Request
  <1>4. FileOK(file) /\ file.cur \in 1 .. MaxPages /\ file.max \in file.cur .. MaxPages
    <2>1. FileOK(file) /\ file \in File /\ file.cur <= file.max
      BY DEF Structure, Pages, FileOK
    <2> QED
      BY <2>1, FileFields, SizeAssumption
  <1>5. size \in file.cur .. file.max
    <2>1. Wanted(file, request.need) \in file.cur .. file.max
      BY <1>3, <1>4, SizeAssumption DEF Wanted
    <2> QED
      BY <2>1, <1>4
  <1>6. GrewTo(file, g, size)
    BY <1>4, <1>5, GrownIs
  <1> HIDE DEF g
  <1>7. Swept(file, g, {})
    BY <1>6 DEF GrewTo, Swept
  <1>8. Swept(file, [g EXCEPT !.max = size], {})
    <2> DEFINE e == [g EXCEPT !.max = size]
    <2>1. g \in File /\ g.cur = size /\ FileOK(g)
      BY <1>6 DEF GrewTo, FileOK
    <2>2. size \in 1 .. MaxPages /\ size <= size
      BY <1>4, <1>5, SizeAssumption
    <2>3. /\ e \in File /\ e.next = g.next /\ e.first = g.first /\ e.entry = g.entry
          /\ e.count = g.count /\ e.cur = g.cur /\ e.max = size
      BY <2>1, <2>2 DEF File
    <2> HIDE DEF e
    <2>4. FileOK(e) /\ Used(e) = Used(g)
      BY <2>1, <2>2, <2>3, MarksIs
    <2>5. Swept(file, e, {})
      BY <2>3, <2>4, <1>7 DEF Swept
    <2> QED
      BY <2>5 DEF e
  <1>9. Swept(file, f, {})
    BY <1>7, <1>8
  <1>10. IF request.at = "test_grow" THEN Tested(f, request) ELSE Created(f, request)
    BY <1>2 DEF g
  <1> HIDE DEF f
  <1>11. Answered(request)
    <2>1. CASE request.at = "test_grow"
      <3>1. New(request, Alive)
        BY <2>1 DEF Structure, Asked
      <3> QED
        BY <3>1, <2>1, <1>1, <1>3, <1>9, <1>10, TestedIs
    <2>2. CASE request.at # "test_grow"
      <3>1. Legal(request)
        BY <2>2, <1>3 DEF Structure, Asked, Request, Legal
      <3> QED
        BY <3>1, <2>2, <1>1, <1>9, <1>10, CreatedAnswers
    <2> QED
      BY <2>1, <2>2
  <1> QED
    BY <1>1, <1>11, AnsweredKeeps DEF PagerStays, Transferring, Direct, ByDos

LEMMA DestroyKeeps ==
  ASSUME Structure, NEW h \in Handles, Destroy(h)
  PROVE  Structure' /\ (Kept => Kept')
  <1>1. Dropped(Region(h)) /\ HandlesStep(Region(h)) /\ handles' = handles \ {h}
    BY DestroyIs DEF Structure
  <1>2. /\ UNCHANGED <<path, ioSem, ioBusy, idleFlags, op, request>> /\ PagerStays /\ pc' = pc
        /\ Region(h) \cap (Changing \cup {op.page}) = {} /\ h \in handles
    BY DEF Destroy, PagerStays
  <1>3. Alive' = AliveIn(handles') /\ Alive = AliveIn(handles)
    BY DEF Alive, AliveIn
  <1>4. Alive' \subseteq Alive /\ Alive \ Region(h) \subseteq Alive'
    BY <1>1, <1>3 DEF HandlesStep, AliveIn
  <1>5. Asked'
    <2>1. ASSUME New(request, Alive) PROVE New(request, Alive')
      BY <2>1, <1>4 DEF New
    <2>2. ASSUME Less(request, handles), request.at = "create_grow" PROVE Less(request, handles')
      <3>1. Had(request) # h
        <4>1. h.start \in Region(h) /\ Changing = request.old .. request.old + request.oldSize - 1
          BY <2>2, HandleIs DEF Changing
        <4>2. Region(Had(request)) = request.old .. request.old + request.oldSize - 1
          BY DEF Region, Had
        <4> QED
          BY <4>1, <4>2, <1>2
      <3> QED
        BY <3>1, <2>2, <1>1 DEF Less
    <2> QED
      BY <2>1, <2>2, <1>2 DEF Structure, Asked
  <1>6. Changing' = Changing
    BY <1>2 DEF Changing
  <1>7. pc \in Transferring => op.page \notin Region(h) /\ op.page \in Usable'
    BY <1>2, <1>4, <1>6 DEF Structure, Working, Usable
  <1>8. request' \in Request
    BY <1>2 DEF Structure, Types
  <1>9. Structure'
    BY <1>1, <1>2, <1>5, <1>7, <1>8, DroppedKeeps
  <1>10. Kept => Kept'
    BY <1>1, <1>2, <1>7, DroppedKept
  <1> QED
    BY <1>9, <1>10

(***************************************************************************)
(* Paging.  No handle changes and nothing new is asked for.                *)
(***************************************************************************)
Calm == UNCHANGED <<handles, request>>

LEMMA CalmIs ==
  ASSUME Calm
  PROVE  Alive' = Alive /\ Usable' = Usable
  BY DEF Calm, Alive, Usable, Changing

LEMMA CalmAsked ==
  ASSUME Structure, Calm, pc' # "grow" \/ pc = "grow"
  PROVE  Asked'
  BY CalmIs DEF Calm, Structure, Asked

LEMMA AliveIs ==
  ASSUME Structure
  PROVE  /\ Alive \subseteq LinPages /\ Usable \subseteq Alive
         /\ FileOK(file) /\ file \in File /\ Used(file) \in SUBSET Slots
         /\ \A s \in Used(file) : s # Nil
         /\ op.page \in Alive \/ pc \notin Transferring
         /\ Writing = {} \/ (pc \in Transferring /\ Writing = {op.page})
  <1>1. Alive \subseteq LinPages /\ Usable \subseteq Alive /\ FileOK(file)
    BY DEF Structure, Pages, HandlesOK, Alive, Usable
  <1>2. file \in File /\ Used(file) \in SUBSET Slots
    BY <1>1, UsedFree DEF FileOK
  <1>3. Writing = {} \/ (pc \in Transferring /\ Writing = {op.page})
    BY DEF Writing, Transferring, Direct, ByDos
  <1> QED
    BY <1>1, <1>2, <1>3, NilNoSlot DEF Structure, Working

LEMMA WriteKeeps ==
  ASSUME Structure, NEW p \in LinPages, Write(p)
  PROVE  Structure' /\ (Kept => Kept')
  <1>1. /\ p \in Usable \cap present /\ mem' = [mem EXCEPT ![p] = p] /\ Forget({p})
        /\ dirty' = dirty \cup {p} /\ everDirty' = everDirty \cup {p} /\ Calm
        /\ UNCHANGED <<path, file, ioSem, ioBusy, dosCount, idleFlags, pc, op, present>>
    BY DEF Write, Calm
  <1>2. /\ disk' \in [Slots -> Content]
        /\ \A s \in Slots : disk[s] \notin {p} => disk'[s] = disk[s]
        /\ buffer' \in [slot : Slots \cup {Nil}, data : Content]
        /\ buffer'.slot = buffer.slot
        /\ buffer.data \notin {p} => buffer'.data = buffer.data
    BY <1>1, ForgetIs DEF Structure
  <1>3. Types'
    BY <1>1, <1>2 DEF Structure, Types, Calm, Content
  <1>4. Pages'
    BY <1>1, CalmIs, AliveIs DEF Structure, Pages, Calm
  <1>5. Asked'
    BY <1>1, CalmAsked
  <1>6. Working'
    BY <1>1, CalmIs DEF Structure, Working
  <1>7. Devices'
    BY <1>1, <1>2 DEF Structure, Devices
  <1>8. ASSUME Kept PROVE Kept'
    <2>1. Writing' = Writing
      BY <1>1 DEF Writing
    <2>2. \A q \in LinPages : mem[q] = q => mem'[q] = q
      BY <1>1 DEF Structure, Types
    <2>3. \A q \in present' \cup Writing' : mem'[q] = q
      BY <2>1, <2>2, <1>1, <1>8, AliveIs DEF Kept, Structure, Pages
    <2>4. pc' = "woken" => mem'[op'.page] = op'.page
      BY <2>2, <1>1, <1>8, AliveIs DEF Kept, Transferring, Direct
    <2>5. ASSUME NEW s \in Used(file'), file'.entry[s] \in everDirty' \ (dirty' \cup Writing')
          PROVE  Stored(s)' = file'.entry[s]
      <3>1. s \in Slots /\ file.entry[s] \in everDirty \ (dirty \cup Writing) /\ file.entry[s] # p
        BY <2>1, <2>5, <1>1, AliveIs
      <3>2. Stored(s) = file.entry[s]
        BY <3>1, <2>5, <1>1, <1>8 DEF Kept
      <3> QED
        BY <3>1, <3>2, <1>1, <1>2 DEF Stored
    <2>6. \A q \in everDirty' \ (present' \cup Writing') : \E s \in Used(file') : file'.entry[s] = q
      BY <2>1, <1>1, <1>8 DEF Kept
    <2> QED
      BY <2>3, <2>4, <2>5, <2>6 DEF Kept
  <1> QED
    BY <1>3, <1>4, <1>5, <1>6, <1>7, <1>8 DEF Structure

LEMMA StartTransferIs ==
  ASSUME Structure, pc \in {"ready", "idle"}, NEW dir \in {"read", "write"},
         NEW flags \in SUBSET IdleFlags, StartTransfer(dir, flags),
         UNCHANGED <<path, buffer, ioSem>>
  PROVE  /\ Devices' /\ idleFlags' \subseteq IdleFlags /\ pc' \in Pcs
         /\ pc' \in IF dir = "read" THEN {"read", "dos_read"} ELSE {"write", "dos_write"}
  <1>1. idleFlags' \subseteq IdleFlags
    BY DEF StartTransfer, NotPrepaging, IdleFlags
  <1>2. pc' = IF path = "direct" THEN dir ELSE IF dir = "read" THEN "dos_read" ELSE "dos_write"
    BY DEF StartTransfer
  <1>3. dosCount \in 0 .. MaxErrors /\ dosCount' = IF path = "dos" THEN dosCount + 1 ELSE dosCount
    BY DEF StartTransfer, Structure, Devices, ByDos
  <1>4. dosCount' \in IF pc' = "grow" \/ (path' = "dos" /\ pc' \in ByDos)
                      THEN 1 .. MaxErrors + 1 ELSE 0 .. MaxErrors
    BY <1>2, <1>3, SizeAssumption DEF ByDos
  <1>5. /\ pc' \in Direct => path' = "direct"
        /\ pc' \in ByDos => path' # "direct"
        /\ pc' # "reading" /\ pc # "reading"
    BY <1>2 DEF Direct, ByDos
  <1>6. Devices'
    BY <1>4, <1>5 DEF Structure, Devices
  <1> QED
    BY <1>1, <1>2, <1>6 DEF Pcs

LEMMA InIgnoreKeeps ==
  ASSUME Structure, NEW p \in LinPages, InIgnore(p)
  PROVE  Structure' /\ (Kept => Kept')
  <1>1. /\ pc = "ready" /\ p \in Usable \ present /\ (p \notin everDirty \/ FindPage(file, p) = Nil)
        /\ present' = present \cup {p}
        /\ mem' = IF p \in everDirty THEN mem ELSE [mem EXCEPT ![p] = p]
        /\ UNCHANGED <<path, file, disk, buffer, ioSem, ioBusy, dosCount, idleFlags, pc, op,
                       dirty, everDirty>>
        /\ Calm
    BY DEF InIgnore, PageIn, Calm, diskVars
  <1>2. Types'
    BY <1>1 DEF Structure, Types, Calm, Content
  <1>3. Pages'
    BY <1>1, CalmIs, AliveIs DEF Structure, Pages, Calm
  <1>4. Asked'
    BY <1>1, CalmAsked
  <1>5. Working'
    BY <1>1, CalmIs DEF Structure, Working, Transferring, Direct, ByDos, Reading
  <1>6. Devices'
    BY <1>1 DEF Structure, Devices
  <1>7. ASSUME Kept PROVE Kept'
    <2>1. Writing' = {} /\ Writing = {} /\ pc' # "woken"
      BY <1>1 DEF Writing
    <2>2. p \notin everDirty
      <3>1. SUFFICES ASSUME p \in everDirty, FindPage(file, p) = Nil PROVE FALSE
        BY <1>1
      <3>2. PICK s \in Used(file) : file.entry[s] = p
        BY <3>1, <2>1, <1>1, <1>7 DEF Kept
      <3> QED
        BY <3>1, <3>2, PagesInt, AliveIs, FindPageIs
    <2>3. \A q \in present' \cup Writing' : mem'[q] = q
      BY <2>1, <2>2, <1>1, <1>7, AliveIs DEF Kept, Structure, Types, Pages
    <2>4. \A s \in Used(file') : file'.entry[s] \in everDirty' \ (dirty' \cup Writing')
                                 => Stored(s)' = file'.entry[s]
      BY <2>1, <1>1, <1>7 DEF Kept, Stored
    <2>5. \A q \in everDirty' \ (present' \cup Writing') : \E s \in Used(file') : file'.entry[s] = q
      BY <2>1, <1>1, <1>7 DEF Kept
    <2> QED
      BY <2>1, <2>3, <2>4, <2>5 DEF Kept
  <1> QED
    BY <1>2, <1>3, <1>4, <1>5, <1>6, <1>7 DEF Structure

LEMMA InReadKeeps ==
  ASSUME Structure, NEW p \in LinPages, InRead(p)
  PROVE  Structure' /\ (Kept => Kept')
  <1> DEFINE s == FindPage(file, p)
             no == FALSE
  <1>1. /\ pc = "ready" /\ p \in Usable \ present /\ p \in everDirty /\ s # Nil
        /\ StartTransfer("read", idleFlags)
        /\ UNCHANGED <<path, file, disk, buffer, ioSem, ioBusy, present, dirty, everDirty, mem>>
        /\ Calm
    BY DEF InRead, PageIn, Calm, diskVars, pteVars
  <1>2. op' = [page |-> p, slot |-> s, wasDirty |-> no]
    BY DEF InRead
  <1>3. s \in Used(file) /\ file.entry[s] = p
    BY <1>1, PagesInt, AliveIs, FindPageIs
  <1>4. no \in BOOLEAN
    OBVIOUS
  <1> HIDE DEF s, no
  <1>5. op' \in Op /\ op'.page = p /\ op'.slot = s
    BY <1>2, <1>3, <1>4, AliveIs DEF Op
  <1>6. /\ Devices' /\ idleFlags' \subseteq IdleFlags /\ pc' \in Pcs
        /\ pc' \in {"read", "dos_read"}
    BY <1>1, StartTransferIs DEF Structure, Types
  <1>7. Types'
    BY <1>1, <1>5, <1>6 DEF Structure, Types, Calm
  <1>8. Pages'
    BY <1>1, CalmIs DEF Structure, Pages, Calm
  <1>9. Asked'
    BY <1>1, <1>6, CalmAsked
  <1>10. Working'
    BY <1>1, <1>3, <1>5, <1>6, CalmIs DEF Working, Transferring, Direct, ByDos, Reading
  <1>11. ASSUME Kept PROVE Kept'
    <2>1. Writing' = {} /\ Writing = {} /\ pc' # "woken"
      BY <1>1, <1>6 DEF Writing
    <2> QED
      BY <2>1, <1>1, <1>11 DEF Kept, Stored
  <1> QED
    BY <1>6, <1>7, <1>8, <1>9, <1>10, <1>11 DEF Structure

LEMMA PageOutIs ==
  ASSUME Structure, NEW p \in LinPages, PageOut(p)
  PROVE  /\ pc \in {"ready", "idle"} /\ p \in Usable /\ p \in present
         /\ op = NoOp /\ Writing = {}
         /\ \A flags : flags \subseteq IdleFlags => OutFlags(flags) \subseteq IdleFlags
  <1>1. pc \in {"ready", "idle"} /\ p \in Usable /\ p \in present
    BY DEF PageOut, AtIdle, Structure, Pages
  <1>2. op = NoOp /\ Writing = {}
    BY <1>1 DEF Structure, Working, Transferring, Direct, ByDos, Writing
  <1> QED
    BY <1>1, <1>2 DEF OutFlags

\* The file may have lost marks of the search, but the slots are used as before.
LEMMA OutReturnsKeeps ==
  ASSUME Structure, NEW p \in LinPages, PageOut(p), NEW ok \in BOOLEAN,
         NEW flags \in SUBSET IdleFlags, OutReturns(p, ok, flags),
         Swept(file, file', {}),
         ok => p \notin dirty /\ (p \in everDirty => FindPage(file, p) # Nil)
  PROVE  Structure' /\ (Kept => Kept')
  <1>1. /\ pc \in {"ready", "idle"} /\ p \in Usable /\ p \in present /\ op = NoOp /\ Writing = {}
        /\ OutFlags(flags) \subseteq IdleFlags
    BY PageOutIs
  <1>2. /\ idleFlags' = OutFlags(flags) /\ pc' = "ready" /\ Calm
        /\ UNCHANGED <<path, disk, buffer, ioSem, ioBusy, dosCount, op, everDirty>>
    BY DEF OutReturns, Calm, diskVars
  <1>3. /\ present' = present \/ (ok /\ present' = present \ {p})
        /\ mem' = mem \/ (ok /\ present' = present \ {p} /\ mem' = [mem EXCEPT ![p] = Garbage])
        /\ dirty' = dirty
    BY DEF OutReturns
  <1>4. Types'
    BY <1>1, <1>2, <1>3 DEF Structure, Types, Calm, Content, Pcs
  <1>5. Pages'
    <2>1. FileOK(file') /\ \A s \in Used(file') : file'.entry[s] \in Alive'
      BY <1>2, CalmIs DEF Swept, Structure, Pages
    <2>2. HandlesOK(handles')
      BY <1>2 DEF Calm, Structure, Pages
    <2>3. present' \subseteq Alive' /\ everDirty' \subseteq Alive'
      BY <1>2, <1>3, CalmIs DEF Structure, Pages
    <2>4. dirty' \subseteq everDirty' \cap present'
      BY <1>2, <1>3 DEF Structure, Pages
    <2> QED
      BY <2>1, <2>2, <2>3, <2>4 DEF Pages
  <1>6. Asked'
    BY <1>2, CalmAsked
  <1>7. Working'
    BY <1>1, <1>2 DEF Working, Transferring, Direct, ByDos, Reading
  <1>8. Devices'
    BY <1>1, <1>2 DEF Structure, Devices, Direct, ByDos
  <1>9. ASSUME Kept PROVE Kept'
    <2>1. Writing' = {} /\ Used(file') = Used(file) /\ file'.entry = file.entry
      BY <1>2 DEF Writing, Swept
    <2>2. \A q \in present' \cup Writing' : mem'[q] = q
      BY <2>1, <1>1, <1>3, <1>9, AliveIs DEF Kept, Structure, Pages, Types
    <2>3. \A s \in Used(file') : file'.entry[s] \in everDirty' \ (dirty' \cup Writing')
                                 => Stored(s)' = file'.entry[s]
      BY <2>1, <1>1, <1>2, <1>3, <1>9 DEF Kept, Stored
    <2>4. ASSUME NEW q \in everDirty' \ (present' \cup Writing')
          PROVE  \E s \in Used(file') : file'.entry[s] = q
      <3>1. CASE q \in present
        <4>1. q = p /\ ok /\ p \in everDirty
          BY <2>4, <3>1, <1>2, <1>3, <2>1
        <4>2. FindPage(file, p) # Nil
          BY <4>1
        <4>3. FindPage(file, p) \in Used(file) /\ file.entry[FindPage(file, p)] = p
          BY <4>2, PagesInt, AliveIs, FindPageIs
        <4> QED
          BY <4>1, <4>3, <2>1
      <3>2. CASE q \notin present
        BY <2>4, <3>2, <2>1, <1>1, <1>2, <1>9 DEF Kept
      <3> QED
        BY <3>1, <3>2
    <2> QED
      BY <2>2, <2>3, <2>4, <1>2 DEF Kept
  <1> QED
    BY <1>4, <1>5, <1>6, <1>7, <1>8, <1>9 DEF Structure

\* The page goes to slot s of f; what the others have in the file stays there,
\* unless they are in memory.
LEMMA OutWritesKeeps ==
  ASSUME Structure, NEW p \in LinPages, PageOut(p), p \in everDirty,
         NEW f, FileOK(f), NEW s \in Used(f), f.entry[s] = p,
         NEW flags \in SUBSET IdleFlags, OutWrites(p, f, s, flags),
         \A t \in Used(f) \ {s} : t \in Used(file) /\ f.entry[t] = file.entry[t],
         \A t \in Used(file) : file.entry[t] \notin present => t \in Used(f) /\ f.entry[t] = file.entry[t]
  PROVE  Structure' /\ (Kept => Kept')
  <1> DEFINE was == p \in dirty
  <1>1. /\ pc \in {"ready", "idle"} /\ p \in Usable /\ p \in present /\ Writing = {}
    BY PageOutIs
  <1>2. /\ file' = f /\ dirty' = dirty \ {p} /\ StartTransfer("write", flags) /\ Calm
        /\ present' = present \/ (~AtIdle /\ present' = present \ {p})
        /\ UNCHANGED <<path, disk, buffer, ioSem, ioBusy, everDirty, mem>>
    BY DEF OutWrites, Calm, diskVars
  <1>3. op' = [page |-> p, slot |-> s, wasDirty |-> was]
    BY DEF OutWrites
  <1>4. was \in BOOLEAN
    OBVIOUS
  <1>5. s \in Slots
    BY UsedFree
  <1> HIDE DEF was
  <1>6. op' \in Op /\ op'.page = p /\ op'.slot = s
    BY <1>3, <1>4, <1>5 DEF Op
  <1>7. /\ Devices' /\ idleFlags' \subseteq IdleFlags /\ pc' \in Pcs
        /\ pc' \in {"write", "dos_write"}
    BY <1>1, <1>2, StartTransferIs
  <1>8. Types'
    BY <1>2, <1>6, <1>7 DEF Structure, Types, Calm
  <1>9. Pages'
    <2>1. \A t \in Used(f) : f.entry[t] \in Alive
      BY <1>1, AliveIs DEF Structure, Pages
    <2>2. present' \subseteq Alive /\ everDirty' \subseteq Alive /\ dirty' \subseteq everDirty' \cap present'
      BY <1>2 DEF Structure, Pages
    <2>3. Alive' = Alive /\ HandlesOK(handles')
      BY <1>2, CalmIs DEF Calm, Structure, Pages
    <2> QED
      BY <2>1, <2>2, <2>3, <1>2 DEF Pages
  <1>10. Asked'
    BY <1>2, <1>7, CalmAsked
  <1>11. Working'
    BY <1>1, <1>2, <1>6, <1>7, CalmIs DEF Working, Transferring, Direct, ByDos, Reading
  <1>12. ASSUME Kept PROVE Kept'
    <2>1. Writing' = {p} /\ pc' # "woken"
      BY <1>6, <1>7 DEF Writing
    <2>2. \A q \in present' \cup Writing' : mem'[q] = q
      BY <2>1, <1>1, <1>2, <1>12 DEF Kept
    <2>3. ASSUME NEW t \in Used(file'), file'.entry[t] \in everDirty' \ (dirty' \cup Writing')
          PROVE  Stored(t)' = file'.entry[t]
      <3>1. t \in Used(file) /\ f.entry[t] = file.entry[t]
        BY <2>1, <2>3, <1>2
      <3>2. file.entry[t] \in everDirty \ (dirty \cup Writing)
        BY <3>1, <2>1, <2>3, <1>1, <1>2
      <3>3. Stored(t) = file.entry[t]
        BY <3>1, <3>2, <1>12 DEF Kept
      <3> QED
        BY <3>1, <3>3, <1>2 DEF Stored
    <2>4. ASSUME NEW q \in everDirty' \ (present' \cup Writing')
          PROVE  \E t \in Used(file') : file'.entry[t] = q
      <3>1. q \in everDirty \ present
        BY <2>4, <2>1, <1>2
      <3>2. PICK t \in Used(file) : file.entry[t] = q
        BY <3>1, <1>1, <1>12 DEF Kept
      <3> QED
        BY <3>1, <3>2, <1>2
    <2> QED
      BY <2>1, <2>2, <2>3, <2>4 DEF Kept
  <1> QED
    BY <1>7, <1>8, <1>9, <1>10, <1>11, <1>12 DEF Structure

LEMMA PagingOutKeeps ==
  ASSUME Structure, PagingOut
  PROVE  Structure' /\ (Kept => Kept')
  <1>1. PICK p \in LinPages : \/ OutIgnore(p) \/ OutClean(p) \/ OutAgain(p)
                              \/ OutNew(p) \/ OutVictim(p) \/ OutNoVictim(p)
    BY DEF PagingOut
  <1>2. /\ FileOK(file) /\ p \in Int /\ p # 0 /\ idleFlags \in SUBSET IdleFlags
        /\ file \in File /\ Used(file) \in SUBSET Slots
        /\ idleFlags \cup {"File_Full"} \in SUBSET IdleFlags
    BY AliveIs, PagesInt DEF Structure, Types, IdleFlags
  <1>3. CASE OutIgnore(p)
    <2>1. PageOut(p) /\ p \notin everDirty /\ OutReturns(p, TRUE, idleFlags) /\ file' = file
      BY <1>3 DEF OutIgnore
    <2>2. p \notin dirty
      BY <2>1 DEF Structure, Pages
    <2> QED
      BY <2>1, <2>2, <1>2, SweptNothing, OutReturnsKeeps
  <1>4. CASE OutClean(p)
    <2>1. /\ PageOut(p) /\ p \in everDirty \ dirty /\ FindPage(file, p) # Nil
          /\ OutReturns(p, TRUE, idleFlags) /\ file' = file
      BY <1>4 DEF OutClean
    <2> QED
      BY <2>1, <1>2, SweptNothing, OutReturnsKeeps
  <1>5. CASE OutAgain(p)
    <2> DEFINE s == FindPage(file, p)
    <2>1. /\ PageOut(p) /\ p \in everDirty \cap dirty /\ s # Nil
          /\ OutWrites(p, file, s, idleFlags)
      BY <1>5 DEF OutAgain
    <2>2. s \in Used(file) /\ file.entry[s] = p
      BY <2>1, <1>2, FindPageIs
    <2> HIDE DEF s
    <2> QED
      BY <2>1, <2>2, <1>2, OutWritesKeeps
  <1>6. ASSUME NeedsSlot(p)
        PROVE  PageOut(p) /\ p \in everDirty /\ \A s \in Used(file) : file.entry[s] # p
    BY <1>6, <1>2, FindPageIs, AliveIs DEF NeedsSlot
  <1>7. CASE OutNew(p)
    <2> DEFINE f == TakeSlot(file, p)
               s == SlotFor(file, p)
    <2>1. NeedsSlot(p) /\ file.first[FreeList] # Nil /\ OutWrites(p, f, s, idleFlags)
      BY <1>7 DEF OutNew
    <2>2. Free(file) # {}
      BY <2>1, <1>2, OnIs, ListsAre DEF Free
    <2>3. Took(file, f, p, s)
      BY <2>1, <2>2, <1>2, <1>6, TakeSlotIs
    <2> HIDE DEF f, s
    <2>4. /\ FileOK(f) /\ s \in Used(f) /\ f.entry[s] = p
          /\ \A t \in Used(f) \ {s} : t \in Used(file) /\ f.entry[t] = file.entry[t]
          /\ \A t \in Used(file) : t \in Used(f) /\ f.entry[t] = file.entry[t]
      BY <2>3 DEF Took
    <2> QED
      BY <2>1, <2>4, <1>2, <1>6, OutWritesKeeps
  <1>8. CASE OutVictim(p)
    <2> DEFINE g == FreeVictim(file)
               f == TakeSlot(g, p)
               s == SlotFor(g, p)
    <2>1. /\ NeedsSlot(p) /\ file.first[FreeList] = Nil /\ Victims(file) # {}
          /\ OutWrites(p, f, s, idleFlags \cup {"File_Full"})
      BY <1>8 DEF OutVictim
    <2>2. Free(file) = {}
      BY <2>1, <1>2, OnIs, ListsAre DEF Free
    <2>3. present \subseteq LinPages
      BY AliveIs DEF Structure, Pages
    <2>4. PICK q \in present : Freed(file, g, {q}) /\ Free(g) # {}
      BY <2>1, <2>2, <2>3, <1>2, FreeVictimIs
    <2> HIDE DEF g
    <2>5. \A t \in Used(g) : g.entry[t] # p
      BY <2>1, <2>4, <1>6 DEF Freed
    <2>6. Took(g, f, p, s)
      BY <2>4, <2>5, <1>2, TakeSlotIs DEF Freed
    <2> HIDE DEF f, s
    <2>7. /\ FileOK(f) /\ s \in Used(f) /\ f.entry[s] = p
          /\ \A t \in Used(f) \ {s} : t \in Used(file) /\ f.entry[t] = file.entry[t]
          /\ \A t \in Used(file) : file.entry[t] \notin present => t \in Used(f) /\ f.entry[t] = file.entry[t]
      BY <2>4, <2>6 DEF Took, Freed
    <2> QED
      BY <2>1, <2>7, <1>2, <1>6, OutWritesKeeps
  <1>9. CASE OutNoVictim(p)
    <2>1. /\ NeedsSlot(p) /\ file' = Scanned(file, 2 * file.cur)
          /\ OutReturns(p, FALSE, idleFlags \cup {"File_Full"})
      BY <1>9 DEF OutNoVictim
    <2>2. Swept(file, file', {})
      BY <2>1, <1>2, ScannedIs DEF Swept
    <2> QED
      BY <2>1, <2>2, <1>2, <1>6, OutReturnsKeeps
  <1> QED
    BY <1>1, <1>3, <1>4, <1>5, <1>7, <1>8, <1>9

(***************************************************************************)
(* The ends of transfers.                                                  *)
(***************************************************************************)
LEMMA TransferringIs ==
  ASSUME Structure, pc \in Transferring
  PROVE  /\ op.page \in LinPages /\ op.page \in Alive /\ op.page \in everDirty
         /\ op.slot \in Used(file) /\ op.slot \in Slots /\ file.entry[op.slot] = op.page
         /\ pc \in Reading => op.page \notin present
         /\ op \in Op
  BY AliveIs DEF Structure, Working, Types

LEMMA NoOpIs == NoOp \in Op
  <1>1. FALSE \in BOOLEAN
    OBVIOUS
  <1> QED
    BY <1>1 DEF NoOp, Op

\* The page table and the pager after a transfer of a page that is paged out.
LEMMA WriteReturnsIs ==
  ASSUME Structure, pc \in {"write", "dos_write"}, NEW ok \in BOOLEAN, WriteReturns(ok),
         Calm, UNCHANGED <<file, everDirty>>
  PROVE  /\ Pages' /\ Asked' /\ Working' /\ pc' = "ready" /\ op' \in Op
         /\ idleFlags' \subseteq IdleFlags /\ mem' \in [LinPages -> Content]
  <1>1. /\ op.page \in LinPages /\ op.page \in Alive /\ op.page \in everDirty
    BY TransferringIs DEF Transferring, Direct, ByDos
  <1>2. /\ pc' = "ready" /\ op' = NoOp /\ idleFlags' \subseteq idleFlags
        /\ present' = IF ok THEN present ELSE present \cup {op.page}
        /\ dirty' = dirty \/ (~ok /\ dirty' = dirty \cup {op.page})
        /\ mem' = mem \/ mem' = [mem EXCEPT ![op.page] = Garbage]
    BY DEF WriteReturns
  <1>3. mem' \in [LinPages -> Content]
    BY <1>1, <1>2 DEF Structure, Types, Content
  <1>4. Pages'
    <2>1. Alive' = Alive /\ HandlesOK(handles')
      BY CalmIs DEF Calm, Structure, Pages
    <2>2. present' \subseteq Alive /\ everDirty' \subseteq Alive /\ dirty' \subseteq everDirty' \cap present'
      BY <1>1, <1>2 DEF Structure, Pages
    <2> QED
      BY <2>1, <2>2 DEF Structure, Pages
  <1>5. Asked'
    BY <1>2, CalmAsked
  <1>6. Working'
    BY <1>2 DEF Working, Transferring, Direct, ByDos, Reading
  <1> QED
    BY <1>2, <1>3, <1>4, <1>5, <1>6, NoOpIs DEF Structure, Types

\* The slot now holds the page, or the buffer does.
LEMMA WriteKept ==
  ASSUME Structure, Kept, pc \in {"write", "dos_write"}, WriteReturns(TRUE),
         UNCHANGED <<file, everDirty>>,
         \A s \in Used(file) : IF s = op.slot THEN Stored(s)' = mem[op.page]
                               ELSE Stored(s)' = Stored(s)
  PROVE  Kept'
  <1>1. /\ op.page \in LinPages /\ op.page \in everDirty
        /\ op.slot \in Used(file) /\ file.entry[op.slot] = op.page
    BY TransferringIs DEF Transferring, Direct, ByDos
  <1>2. /\ pc' = "ready" /\ present' = present /\ dirty' = dirty
        /\ mem' = IF op.page \notin present THEN [mem EXCEPT ![op.page] = Garbage] ELSE mem
    BY DEF WriteReturns
  <1>3. Writing = {op.page} /\ Writing' = {}
    BY <1>2 DEF Writing
  <1>4. mem[op.page] = op.page
    BY <1>3 DEF Kept
  <1>5. \A q \in present' \cup Writing' : mem'[q] = q
    <2>1. present \subseteq LinPages
      BY AliveIs DEF Structure, Pages
    <2> QED
      BY <2>1, <1>2, <1>3 DEF Kept, Structure, Types
  <1>6. ASSUME NEW s \in Used(file'), file'.entry[s] \in everDirty' \ (dirty' \cup Writing')
        PROVE  Stored(s)' = file'.entry[s]
    <2>1. CASE s = op.slot
      BY <2>1, <1>1, <1>4
    <2>2. CASE s # op.slot
      <3>1. file.entry[s] # op.page
        BY <2>2, <1>1, AliveIs DEF FileOK, Hashed
      <3>2. Stored(s) = file.entry[s]
        BY <3>1, <1>2, <1>3, <1>6 DEF Kept
      <3> QED
        BY <3>2, <2>2
    <2> QED
      BY <2>1, <2>2
  <1>7. \A q \in everDirty' \ (present' \cup Writing') : \E s \in Used(file') : file'.entry[s] = q
    BY <1>1, <1>2, <1>3 DEF Kept
  <1> QED
    BY <1>2, <1>5, <1>6, <1>7 DEF Kept

LEMMA InReturnsIs ==
  ASSUME Structure, pc \in {"woken", "dos_read"}, InReturns, Calm,
         UNCHANGED <<dirty, everDirty>>
  PROVE  /\ Pages' /\ Asked' /\ Working' /\ pc' = "ready" /\ op' \in Op
         /\ Swept(file, file', {}) /\ present' = present \cup {op.page}
  <1>1. /\ op.page \in LinPages /\ op.page \in Alive /\ op.page \in everDirty
        /\ op.slot \in Slots /\ file.entry[op.slot] = op.page
    BY TransferringIs DEF Transferring, Direct, ByDos
  <1>2. pc' = "ready" /\ op' = NoOp /\ present' = present \cup {op.page}
    BY DEF InReturns
  <1>3. Swept(file, file', {})
    <2> DEFINE entries == [file.entry EXCEPT ![op.slot] = op.page]
               recent == file.recent \cup {op.slot}
    <2>1. FileOK(file) /\ file \in File /\ file.cur <= file.max
      BY AliveIs DEF FileOK
    <2>2. entries = file.entry /\ recent \in SUBSET Slots /\ entries \in [Slots -> Int]
      BY <1>1, <2>1, FileFields
    <2>3. file' = [file EXCEPT !.entry = entries, !.recent = recent]
      BY <2>1 DEF InReturns, File
    <2> HIDE DEF entries, recent
    <2>4. /\ file' \in File /\ file'.next = file.next /\ file'.first = file.first
          /\ file'.entry = file.entry /\ file'.count = file.count /\ file'.cur = file.cur
          /\ file'.max = file.max
      BY <2>1, <2>2, <2>3 DEF File
    <2>5. FileOK(file') /\ Used(file') = Used(file)
      BY <2>1, <2>4, MarksIs
    <2> QED
      BY <2>4, <2>5 DEF Swept
  <1>4. Pages'
    <2>1. Alive' = Alive /\ HandlesOK(handles')
      BY CalmIs DEF Calm, Structure, Pages
    <2>2. present' \subseteq Alive /\ everDirty' \subseteq Alive /\ dirty' \subseteq everDirty' \cap present'
      BY <1>1, <1>2 DEF Structure, Pages
    <2>3. FileOK(file') /\ \A s \in Used(file') : file'.entry[s] \in Alive
      BY <1>3 DEF Swept, Structure, Pages
    <2> QED
      BY <2>1, <2>2, <2>3 DEF Pages
  <1>5. Asked'
    BY <1>2, CalmAsked
  <1>6. Working'
    BY <1>2 DEF Working, Transferring, Direct, ByDos, Reading
  <1> QED
    BY <1>2, <1>3, <1>4, <1>5, <1>6, NoOpIs

LEMMA ReadKept ==
  ASSUME Structure, Kept, pc \in {"woken", "dos_read"}, pc' = "ready",
         Swept(file, file', {}), present' = present \cup {op.page},
         UNCHANGED <<disk, buffer, dirty, everDirty>>,
         mem'[op.page] = op.page, \A q \in LinPages : mem[q] = q => mem'[q] = q
  PROVE  Kept'
  <1>1. Writing = {} /\ Writing' = {} /\ present \subseteq LinPages
    BY AliveIs DEF Writing, Structure, Pages
  <1>2. \A q \in present' \cup Writing' : mem'[q] = q
    BY <1>1 DEF Kept
  <1>3. Used(file') = Used(file) /\ file'.entry = file.entry
    BY DEF Swept
  <1> QED
    BY <1>1, <1>2, <1>3 DEF Kept, Stored

LEMMA DiskWriteKeeps ==
  ASSUME Structure, DiskWrite
  PROVE  Structure' /\ (Kept => Kept')
  <1> DEFINE slot == op.slot
             data == mem[op.page]
  <1>1. /\ pc = "write" /\ ioSem > 0 /\ ioSem' = ioSem - 1 /\ ioBusy' = TRUE
        /\ buffer' = [slot |-> slot, data |-> data] /\ WriteReturns(TRUE) /\ Calm
        /\ UNCHANGED <<path, file, disk, dosCount, everDirty>>
    BY DEF DiskWrite, Calm
  <1>2. /\ op.page \in LinPages /\ slot \in Slots /\ slot # Nil /\ data \in Content
    BY <1>1, TransferringIs, AliveIs DEF Transferring, Direct, Structure, Types
  <1>3. TRUE \in BOOLEAN
    OBVIOUS
  <1>4. /\ Pages' /\ Asked' /\ Working' /\ pc' = "ready" /\ op' \in Op
        /\ idleFlags' \subseteq IdleFlags /\ mem' \in [LinPages -> Content]
    BY <1>1, <1>3, WriteReturnsIs
  <1>5. path = "direct" /\ buffer.slot = Nil /\ ioSem = 1
    BY <1>1 DEF Structure, Devices, Direct
  <1>6. ASSUME NEW s \in Used(file)
        PROVE  IF s = op.slot THEN Stored(s)' = mem[op.page] ELSE Stored(s)' = Stored(s)
    BY <1>1, <1>5, AliveIs DEF Stored
  <1> HIDE DEF slot, data
  <1>7. buffer' \in [slot : Slots \cup {Nil}, data : Content] /\ buffer'.slot = slot
    BY <1>1, <1>2
  <1>8. Types'
    BY <1>1, <1>4, <1>7 DEF Structure, Types, Calm, Pcs
  <1>9. Devices'
    BY <1>1, <1>2, <1>4, <1>5, <1>7 DEF Structure, Devices, Direct, ByDos
  <1>10. ASSUME Kept PROVE Kept'
    BY <1>1, <1>6, <1>10, WriteKept
  <1> QED
    BY <1>4, <1>8, <1>9, <1>10 DEF Structure

LEMMA DiskReadKeeps ==
  ASSUME Structure, DiskRead
  PROVE  Structure' /\ (Kept => Kept')
  <1>1. /\ pc = "read" /\ ioSem > 0 /\ pc' = "reading" /\ ioSem' = ioSem - 1 /\ ioBusy' = TRUE
        /\ UNCHANGED <<path, file, disk, buffer, dosCount, idleFlags, op, present, dirty,
                       everDirty, mem>>
        /\ Calm
    BY DEF DiskRead, Calm, pteVars
  <1>2. Types'
    BY <1>1 DEF Structure, Types, Calm, Pcs
  <1>3. Pages'
    BY <1>1, CalmIs DEF Structure, Pages, Calm
  <1>4. Asked'
    BY <1>1, CalmAsked
  <1>5. Working'
    BY <1>1, CalmIs DEF Structure, Working, Transferring, Direct, ByDos, Reading
  <1>6. Devices'
    BY <1>1 DEF Structure, Devices, Direct, ByDos
  <1>7. Writing' = {} /\ Writing = {} /\ pc' # "woken"
    BY <1>1 DEF Writing
  <1>8. ASSUME Kept PROVE Kept'
    BY <1>1, <1>7, <1>8 DEF Kept, Stored
  <1> QED
    BY <1>2, <1>3, <1>4, <1>5, <1>6, <1>8 DEF Structure

LEMMA WokenKeeps ==
  ASSUME Structure, DiskWoken
  PROVE  Structure' /\ (Kept => Kept')
  <1>1. /\ pc = "woken" /\ ioSem > 0 /\ InReturns /\ Calm
        /\ UNCHANGED <<path, disk, buffer, ioSem, ioBusy, dosCount, idleFlags, dirty, everDirty, mem>>
    BY DEF DiskWoken, Calm, diskVars
  <1>2. /\ Pages' /\ Asked' /\ Working' /\ pc' = "ready" /\ op' \in Op
        /\ Swept(file, file', {}) /\ present' = present \cup {op.page}
    BY <1>1, InReturnsIs
  <1>3. Types'
    BY <1>1, <1>2 DEF Structure, Types, Calm, Pcs
  <1>4. Devices'
    BY <1>1, <1>2 DEF Structure, Devices, Direct, ByDos
  <1>5. ASSUME Kept PROVE Kept'
    <2>1. mem'[op.page] = op.page
      BY <1>1, <1>5 DEF Kept
    <2> QED
      BY <2>1, <1>1, <1>2, <1>5, ReadKept
  <1> QED
    BY <1>2, <1>3, <1>4, <1>5 DEF Structure

\* A slot that a page is read from holds the page: it is not dirty, for it is not
\* in memory.
LEMMA ReadFinds ==
  ASSUME Structure, Kept, pc \in {"reading", "dos_read"}
  PROVE  disk[op.slot] = op.page
  <1>1. /\ op.page \in everDirty /\ op.page \notin present
        /\ op.slot \in Used(file) /\ op.slot \in Slots /\ file.entry[op.slot] = op.page
    BY TransferringIs DEF Transferring, Direct, ByDos, Reading
  <1>2. Writing = {} /\ op.page \notin dirty
    BY <1>1 DEF Writing, Structure, Pages
  <1>3. Stored(op.slot) = op.page
    BY <1>1, <1>2 DEF Kept
  <1>4. buffer.slot = Nil
    BY DEF Structure, Devices, ByDos
  <1> QED
    BY <1>1, <1>3, <1>4, AliveIs DEF Stored

LEMMA VHDReadKeeps ==
  ASSUME Structure, VHDRead
  PROVE  Structure' /\ (Kept => Kept')
  <1>1. /\ pc = "reading" /\ pc' = "woken" /\ mem' = [mem EXCEPT ![op.page] = disk[op.slot]]
        /\ ioSem' = ioSem + 1 /\ ioBusy' = FALSE
        /\ UNCHANGED <<path, file, disk, buffer, dosCount, idleFlags, op, present, dirty, everDirty>>
        /\ Calm
    BY DEF VHDRead, VHDCallBack, Calm
  <1>2. op.page \in LinPages /\ op.slot \in Slots /\ op.page \notin present
    BY <1>1, TransferringIs DEF Transferring, Direct, Reading
  <1>3. Types'
    BY <1>1, <1>2 DEF Structure, Types, Calm, Pcs
  <1>4. Pages'
    BY <1>1, CalmIs DEF Structure, Pages, Calm
  <1>5. Asked'
    BY <1>1, CalmAsked
  <1>6. Working'
    BY <1>1, CalmIs DEF Structure, Working, Transferring, Direct, ByDos, Reading
  <1>7. Devices'
    BY <1>1 DEF Structure, Devices, Direct, ByDos
  <1>8. ASSUME Kept PROVE Kept'
    <2>1. Writing' = {} /\ Writing = {}
      BY <1>1 DEF Writing
    <2>2. mem'[op'.page] = op'.page
      BY <1>1, <1>2, <1>8, ReadFinds DEF Structure, Types
    <2>3. \A q \in present' \cup Writing' : mem'[q] = q
      BY <2>1, <1>1, <1>2, <1>8, AliveIs DEF Kept, Structure, Pages, Types
    <2> QED
      BY <2>1, <2>2, <2>3, <1>1, <1>8 DEF Kept, Stored
  <1> QED
    BY <1>3, <1>4, <1>5, <1>6, <1>7, <1>8 DEF Structure

LEMMA VHDWrittenKeeps ==
  ASSUME Structure, VHDWritten
  PROVE  Structure' /\ (Kept => Kept')
  <1>1. /\ buffer.slot # Nil /\ disk' = [disk EXCEPT ![buffer.slot] = buffer.data]
        /\ buffer' = NoWrite /\ ioSem' = ioSem + 1 /\ ioBusy' = FALSE
        /\ UNCHANGED <<path, file, dosCount, idleFlags, pc, op, present, dirty, everDirty, mem>>
        /\ Calm
    BY DEF VHDWritten, VHDCallBack, Calm, pteVars
  <1>2. /\ buffer.slot \in Slots /\ buffer.data \in Content
        /\ disk' \in [Slots -> Content]
        /\ \A s \in Slots : disk'[s] = IF s = buffer.slot THEN buffer.data ELSE disk[s]
    BY <1>1 DEF Structure, Types
  <1>3. buffer' \in [slot : Slots \cup {Nil}, data : Content] /\ buffer'.slot = Nil
    BY <1>1 DEF NoWrite, Content
  <1>4. Types'
    BY <1>1, <1>2, <1>3 DEF Structure, Types, Calm
  <1>5. Pages'
    BY <1>1, CalmIs DEF Structure, Pages, Calm
  <1>6. Asked'
    BY <1>1, CalmAsked
  <1>7. Working'
    BY <1>1, CalmIs DEF Structure, Working
  <1>8. Devices'
    <2>1. ioSem = 0 /\ pc # "reading"
      BY <1>1 DEF Structure, Devices
    <2> QED
      BY <2>1, <1>1, <1>3 DEF Structure, Devices
  <1>9. ASSUME Kept PROVE Kept'
    <2>1. Writing' = Writing
      BY <1>1 DEF Writing
    <2>2. \A s \in Used(file) : Stored(s)' = Stored(s)
      BY <1>1, <1>2, <1>3, AliveIs DEF Stored
    <2> QED
      BY <2>1, <2>2, <1>1, <1>9 DEF Kept
  <1> QED
    BY <1>4, <1>5, <1>6, <1>7, <1>8, <1>9 DEF Structure


LEMMA DosWrittenKeeps ==
  ASSUME Structure, DosWritten
  PROVE  Structure' /\ (Kept => Kept')
  <1>1. /\ pc = "dos_write" /\ disk' = [disk EXCEPT ![op.slot] = mem[op.page]]
        /\ dosCount' = IF path = "dos" THEN dosCount - 1 ELSE dosCount
        /\ WriteReturns(TRUE) /\ Calm
        /\ UNCHANGED <<path, file, buffer, ioSem, ioBusy, everDirty>>
    BY DEF DosWritten, TransferDone, Calm
  <1>2. /\ op.page \in LinPages /\ op.slot \in Slots /\ op.slot # Nil /\ mem[op.page] \in Content
    BY <1>1, TransferringIs, AliveIs DEF Transferring, ByDos, Structure, Types
  <1>3. TRUE \in BOOLEAN
    OBVIOUS
  <1>4. /\ Pages' /\ Asked' /\ Working' /\ pc' = "ready" /\ op' \in Op
        /\ idleFlags' \subseteq IdleFlags /\ mem' \in [LinPages -> Content]
    BY <1>1, <1>3, WriteReturnsIs
  <1>5. buffer.slot = Nil /\ ioSem = 1
    BY <1>1 DEF Structure, Devices, ByDos
  <1>6. /\ disk' \in [Slots -> Content]
        /\ \A s \in Slots : disk'[s] = IF s = op.slot THEN mem[op.page] ELSE disk[s]
    BY <1>1, <1>2 DEF Structure, Types
  <1>7. ASSUME NEW s \in Used(file)
        PROVE  IF s = op.slot THEN Stored(s)' = mem[op.page] ELSE Stored(s)' = Stored(s)
    BY <1>1, <1>5, <1>6, AliveIs DEF Stored
  <1>8. Types'
    BY <1>1, <1>4, <1>6 DEF Structure, Types, Calm, Pcs
  <1>9. Devices'
    BY <1>1, <1>4, <1>5, SizeAssumption DEF Structure, Devices, Direct, ByDos
  <1>10. ASSUME Kept PROVE Kept'
    BY <1>1, <1>7, <1>10, WriteKept
  <1> QED
    BY <1>4, <1>8, <1>9, <1>10 DEF Structure

LEMMA DosReadKeeps ==
  ASSUME Structure, DosRead
  PROVE  Structure' /\ (Kept => Kept')
  <1>1. /\ pc = "dos_read" /\ mem' = [mem EXCEPT ![op.page] = disk[op.slot]]
        /\ dosCount' = IF path = "dos" THEN dosCount - 1 ELSE dosCount
        /\ InReturns /\ Calm
        /\ UNCHANGED <<path, disk, buffer, ioSem, ioBusy, idleFlags, dirty, everDirty>>
    BY DEF DosRead, TransferDone, Calm, diskVars
  <1>2. op.page \in LinPages /\ op.slot \in Slots
    BY <1>1, TransferringIs DEF Transferring, ByDos
  <1>3. /\ Pages' /\ Asked' /\ Working' /\ pc' = "ready" /\ op' \in Op
        /\ Swept(file, file', {}) /\ present' = present \cup {op.page}
    BY <1>1, InReturnsIs
  <1>4. Types'
    BY <1>1, <1>2, <1>3 DEF Structure, Types, Calm, Pcs
  <1>5. Devices'
    BY <1>1, <1>3, SizeAssumption DEF Structure, Devices, Direct, ByDos
  <1>6. ASSUME Kept PROVE Kept'
    <2>1. disk[op.slot] = op.page
      BY <1>1, <1>6, ReadFinds
    <2>2. mem'[op.page] = op.page /\ \A q \in LinPages : mem[q] = q => mem'[q] = q
      BY <2>1, <1>1, <1>2 DEF Structure, Types
    <2> QED
      BY <2>2, <1>1, <1>3, <1>6, ReadKept
  <1> QED
    BY <1>3, <1>4, <1>5, <1>6 DEF Structure

\* A read that fails leaves everything where it was.  So does a write, but the
\* slot may be lost: the page is in memory again, and dirty if it was.
LEMMA DosErrorKeeps ==
  ASSUME Structure, DosError
  PROVE  Structure' /\ ("write" \notin Errors => (Kept => Kept'))
  <1>1. /\ pc \in {"dos_write", "dos_read"} /\ Calm
        /\ path = "dos" => dosCount <= MaxErrors
        /\ UNCHANGED <<path, file, buffer, ioSem, ioBusy, dosCount, everDirty>>
    BY DEF DosError, Calm
  <1>2. /\ op.page \in LinPages /\ op.slot \in Slots
    BY <1>1, TransferringIs DEF Transferring, ByDos
  <1>3. CASE pc = "dos_write"
    <2>1. "write" \in Errors /\ WriteReturns(FALSE)
      BY <1>3 DEF DosError
    <2>2. PICK c \in {disk[op.slot], Garbage} : disk' = [disk EXCEPT ![op.slot] = c]
      BY <1>3 DEF DosError
    <2>3. FALSE \in BOOLEAN
      OBVIOUS
    <2>4. /\ Pages' /\ Asked' /\ Working' /\ pc' = "ready" /\ op' \in Op
          /\ idleFlags' \subseteq IdleFlags /\ mem' \in [LinPages -> Content]
      BY <2>1, <2>3, <1>1, <1>3, WriteReturnsIs
    <2>5. disk' \in [Slots -> Content]
      BY <2>2, <1>2 DEF Structure, Types, Content
    <2>6. Types'
      BY <2>4, <2>5, <1>1 DEF Structure, Types, Calm, Pcs
    <2>7. Devices'
      BY <2>4, <1>1, <1>3, SizeAssumption DEF Structure, Devices, Direct, ByDos
    <2> QED
      BY <2>1, <2>4, <2>6, <2>7 DEF Structure
  <1>4. CASE pc = "dos_read"
    <2>1. pc' = "ready" /\ op' = NoOp /\ UNCHANGED <<disk, idleFlags, present, dirty, mem>>
      BY <1>4 DEF DosError
    <2>2. Types'
      BY <2>1, <1>1, NoOpIs DEF Structure, Types, Calm, Pcs
    <2>3. Pages'
      BY <2>1, <1>1, CalmIs DEF Structure, Pages, Calm
    <2>4. Asked'
      BY <2>1, <1>1, CalmAsked
    <2>5. Working'
      BY <2>1 DEF Working, Transferring, Direct, ByDos, Reading
    <2>6. Devices'
      BY <2>1, <1>1, <1>4, SizeAssumption DEF Structure, Devices, Direct, ByDos
    <2>7. ASSUME Kept PROVE Kept'
      <3>1. Writing = {} /\ Writing' = {}
        BY <2>1, <1>4 DEF Writing
      <3> QED
        BY <3>1, <2>1, <2>7, <1>1 DEF Kept, Stored
    <2> QED
      BY <2>2, <2>3, <2>4, <2>5, <2>6, <2>7 DEF Structure
  <1> QED
    BY <1>1, <1>3, <1>4

\* PageSwap_Idle, the beginning of PageSwap_Grow_File and steps that change nothing
\* at all: only the pager moves.
LEMMA IdleKeeps ==
  ASSUME Structure, Idle \/ GrowFile \/ UNCHANGED vars
  PROVE  Structure' /\ (Kept => Kept')
  <1>1. /\ UNCHANGED <<path, file, disk, buffer, ioSem, ioBusy, op, present, dirty, everDirty, mem>>
        /\ Calm
    BY DEF Idle, IdleFewDirty, IdleStart, IdleAgain, IdleStop, IdleUnchanged, GrowFile, vars,
           diskVars, pteVars, Calm
  <1>2. /\ pc' = pc \/ (pc \in {"ready", "idle"} /\ pc' \in {"ready", "idle", "grow"})
        /\ idleFlags' \subseteq IdleFlags
        /\ pc' = pc \/ pc' # "grow" => dosCount' = dosCount
        /\ pc' # pc /\ pc' = "grow" => dosCount' = dosCount + 1 /\ request # NoRequest
    BY DEF Idle, IdleFewDirty, IdleStart, IdleAgain, IdleStop, IdleUnchanged, GrowFile, vars,
           diskVars, pteVars, MayPrepage, AtIdle, NotFull, IsWriting, IdleFlags, Structure, Types
  <1>3. Types'
    BY <1>1, <1>2 DEF Structure, Types, Calm, Pcs
  <1>4. Pages'
    BY <1>1, CalmIs DEF Structure, Pages, Calm
  <1>5. Asked'
    BY <1>1, <1>2, CalmIs DEF Structure, Asked, Calm
  <1>6. Working'
    BY <1>1, <1>2, CalmIs DEF Structure, Working, Transferring, Direct, ByDos, Reading
  <1>7. Devices'
    BY <1>1, <1>2, SizeAssumption DEF Structure, Devices, Direct, ByDos
  <1>8. ASSUME Kept PROVE Kept'
    <2>1. Writing' = Writing /\ (pc' = "woken" => pc = "woken")
      BY <1>1, <1>2 DEF Writing
    <2> QED
      BY <2>1, <1>1, <1>8 DEF Kept, Stored
  <1> QED
    BY <1>3, <1>4, <1>5, <1>6, <1>7, <1>8 DEF Structure


(***************************************************************************)
(* The invariant holds, and what follows from it.                          *)
(***************************************************************************)
LEMMA NextKeeps ==
  ASSUME ~Moves, Structure, [Next]_vars
  PROVE  Structure' /\ ("write" \notin Errors => (Kept => Kept'))
  <1>1. CASE PagingOut
    BY <1>1, PagingOutKeeps
  <1>2. CASE \E p \in LinPages : InIgnore(p) \/ InRead(p) \/ Write(p)
    <2>1. PICK p \in LinPages : InIgnore(p) \/ InRead(p) \/ Write(p)
      BY <1>2
    <2> QED
      BY <2>1, InIgnoreKeeps, InReadKeeps, WriteKeeps
  <1>3. CASE Transfer
    <2>1. CASE DiskWrite
      BY <2>1, DiskWriteKeeps
    <2>2. CASE DiskRead
      BY <2>2, DiskReadKeeps
    <2>3. CASE DiskWoken
      BY <2>3, WokenKeeps
    <2>4. CASE DosWritten
      BY <2>4, DosWrittenKeeps
    <2>5. CASE DosRead
      BY <2>5, DosReadKeeps
    <2>6. CASE DosError
      BY <2>6, DosErrorKeeps
    <2>7. CASE GrowFileDone
      BY <2>7, GrowFileDoneKeeps
    <2> QED
      BY <1>3, <2>1, <2>2, <2>3, <2>4, <2>5, <2>6, <2>7 DEF Transfer
  <1>4. CASE VHD
    BY <1>4, VHDWrittenKeeps, VHDReadKeeps DEF VHD
  <1>5. CASE \E h \in Handles : TestCreate(h) \/ Destroy(h) \/ \E k \in Handles : Reallocate(h, k)
    <2>1. PICK h \in Handles : TestCreate(h) \/ Destroy(h) \/ \E k \in Handles : Reallocate(h, k)
      BY <1>5
    <2>2. CASE TestCreate(h)
      BY <2>2, TestCreateKeeps
    <2>3. CASE Destroy(h)
      BY <2>3, DestroyKeeps
    <2>4. CASE \E k \in Handles : Reallocate(h, k)
      <3>1. PICK k \in Handles : Reallocate(h, k)
        BY <2>4
      <3> QED
        BY <3>1, ReallocateKeeps
    <2> QED
      BY <2>1, <2>2, <2>3, <2>4
  <1>6. CASE Idle \/ GrowFile \/ UNCHANGED vars
    BY <1>6, IdleKeeps
  <1> QED
    BY <1>1, <1>2, <1>3, <1>4, <1>5, <1>6 DEF Next

LEMMA InitHolds ==
  ASSUME Init
  PROVE  Structure /\ Kept
  <1> DEFINE cur == IF path = "dos" THEN FilePages ELSE MaxPages
  <1>1. cur \in 1 .. MaxPages /\ file = FirstFile(cur)
    BY SizeAssumption DEF Init
  <1> HIDE DEF cur
  <1>2. FileOK(file) /\ Used(file) = {}
    BY <1>1, FirstFileIs
  <1>3. /\ path \in Paths /\ disk = [s \in Slots |-> Garbage] /\ buffer = NoWrite
        /\ ioSem = 1 /\ ioBusy = FALSE /\ dosCount = 0 /\ idleFlags = {} /\ pc = "ready"
        /\ op = NoOp /\ request = NoRequest /\ handles = {}
        /\ present = {} /\ dirty = {} /\ everDirty = {} /\ mem = [p \in LinPages |-> Garbage]
    BY DEF Init
  <1>4. Types
    <2>1. disk \in [Slots -> Content] /\ mem \in [LinPages -> Content]
      BY <1>3 DEF Content
    <2>2. buffer \in [slot : Slots \cup {Nil}, data : Content]
      BY <1>3 DEF NoWrite, Content
    <2> QED
      BY <2>1, <2>2, <1>3, NoOpIs, NoRequestIs DEF Types, Pcs
  <1>5. Pages
    BY <1>2, <1>3 DEF Pages, HandlesOK, Alive
  <1>6. Asked
    BY <1>3, NoRequestIs DEF Asked
  <1>7. Working
    BY <1>3 DEF Working, Transferring, Direct, ByDos, Reading
  <1>8. Devices
    BY <1>3, SizeAssumption DEF Devices, Direct, ByDos, NoWrite
  <1>9. Kept
    <2>1. Writing = {}
      BY <1>3 DEF Writing
    <2> QED
      BY <2>1, <1>2, <1>3 DEF Kept
  <1> QED
    BY <1>4, <1>5, <1>6, <1>7, <1>8, <1>9 DEF Structure

LEMMA StructureAlways ==
  ASSUME ~Moves
  PROVE  Spec => []Structure
  <1>1. Init => Structure
    BY InitHolds
  <1>2. Structure /\ [Next]_vars => Structure'
    BY NextKeeps
  <1> QED
    BY <1>1, <1>2, PTL DEF Spec

LEMMA KeptAlways ==
  ASSUME ~Moves, "write" \notin Errors
  PROVE  Spec => [](Structure /\ Kept)
  <1>1. Init => Structure /\ Kept
    BY InitHolds
  <1>2. Structure /\ Kept /\ [Next]_vars => (Structure /\ Kept)'
    BY NextKeeps
  <1> QED
    BY <1>1, <1>2, PTL DEF Spec

LEMMA TypesFollow ==
  ASSUME Structure
  PROVE  TypeOK
  <1>1. /\ file \in File /\ Alive \subseteq LinPages
    BY AliveIs
  <1>2. ioSem \in 0 .. 1 /\ dosCount \in 0 .. MaxErrors + 1
    BY SizeAssumption DEF Structure, Devices
  <1>3. handles \subseteq Handles /\ present \subseteq LinPages /\ everDirty \subseteq LinPages
        /\ dirty \subseteq present
    BY <1>1 DEF Structure, Pages, HandlesOK
  <1> QED
    BY <1>1, <1>2, <1>3 DEF TypeOK, Structure, Types

\* Every slot below the end of the file is on one list; a slot with a successor
\* is on a list that does not come back to it.
LEMMA SlotsFollow ==
  ASSUME Structure
  PROVE  SlotsPartition /\ FreshSlotsFree
  <1>1. FileOK(file) /\ file \in File
    BY AliveIs
  <1>2. /\ Tidy(file) /\ Listed(file) /\ Hashed(file)
        /\ \A l \in Lists : On(file, l) \in SUBSET Slots
    BY <1>1, OnIs DEF FileOK
  <1>3. \A s \in Slots : s < file.cur <=> \E l \in Lists : s \in On(file, l)
    BY <1>2, ListsAre DEF Listed, Used, Free, Lists
  <1>4. ASSUME NEW s \in Slots
        PROVE  Cardinality({l \in Lists : s \in On(file, l)}) = IF s < file.cur THEN 1 ELSE 0
    <2> DEFINE L == {l \in Lists : s \in On(file, l)}
    <2>1. CASE s < file.cur
      <3>1. PICK l \in Lists : s \in On(file, l)
        BY <2>1, <1>3
      <3>2. L = {l}
        BY <3>1, <1>2 DEF Tidy
      <3> HIDE DEF L
      <3> QED
        BY <3>2, <2>1, FS_Singleton DEF L
    <2>2. CASE ~(s < file.cur)
      <3>1. L = {}
        BY <2>2, <1>3
      <3> HIDE DEF L
      <3> QED
        BY <3>1, <2>2, FS_EmptySet DEF L
    <2> QED
      BY <2>1, <2>2
  <1>5. ASSUME NEW s \in Slots, file.next[s] # Nil
        PROVE  s \notin From(file.next, file.next[s])
    <2>1. s < file.cur
      BY <1>5, <1>1, <1>2, SizeAssumption DEF Listed, Slots, File
    <2>2. PICK l \in Lists : s \in On(file, l)
      BY <2>1, <1>3
    <2> QED
      BY <2>2, <1>2, <1>5 DEF Tidy, Loopless, Chain
  <1>6. InUse = Used(file)
    BY DEF InUse, Used
  <1>7. SlotsPartition
    BY <1>2, <1>4, <1>5, <1>6 DEF SlotsPartition, Listed, Hashed, Free, Structure, Pages
  <1>8. ASSUME NEW s \in 0 .. file.cur - 1, file.entry[s] = 0
        PROVE  s \in On(file, FreeList)
    <2>1. s \in Slots /\ s < file.cur
      BY <1>1, SizeAssumption DEF File, Slots
    <2> QED
      BY <2>1, <1>2, <1>8 DEF Listed, Hashed, Free
  <1> QED
    BY <1>7, <1>8 DEF FreshSlotsFree

LEMMA MemoryFollows ==
  ASSUME Structure, Kept
  PROVE  MemoryKept
  <1> SUFFICES ASSUME NEW p \in Usable PROVE Found(p) = p
    BY DEF MemoryKept
  <1> DEFINE s == FindPage(file, p)
  <1>1. p \in LinPages /\ p \in Int /\ FileOK(file)
    BY AliveIs, PagesInt
  <1>2. CASE p \in present \cup Writing
    <2>1. p \in present \/ (p = op.page /\ pc \in {"write", "dos_write"})
      BY <1>2 DEF Writing
    <2>2. p \in present \/ p \in everDirty
      BY <2>1 DEF Structure, Working, Transferring, Direct, ByDos
    <2>3. Found(p) = mem[p]
      BY <2>1, <2>2 DEF Found
    <2> QED
      BY <2>3, <1>2 DEF Kept
  <1>3. CASE p \notin present \cup Writing
    <2>1. ~(p \in present \/ (p = op.page /\ pc \in {"write", "dos_write"}))
      BY <1>3 DEF Writing
    <2>2. CASE p \notin everDirty
      BY <2>1, <2>2 DEF Found
    <2>3. CASE p \in everDirty
      <3>1. PICK t \in Used(file) : file.entry[t] = p
        BY <2>3, <1>3 DEF Kept
      <3>2. s = t /\ s # Nil
        BY <3>1, <1>1, FindPageIs, AliveIs
      <3> HIDE DEF s
      <3>3. Found(p) = IF s = buffer.slot THEN buffer.data ELSE disk[s]
        BY <2>1, <2>3, <3>2 DEF Found, s
      <3>4. file.entry[t] \in everDirty \ (dirty \cup Writing)
        BY <3>1, <2>3, <1>3 DEF Structure, Pages
      <3>5. Stored(t) = p
        BY <3>1, <3>4 DEF Kept
      <3> QED
        BY <3>2, <3>3, <3>5 DEF Stored
    <2> QED
      BY <2>2, <2>3
  <1> QED
    BY <1>2, <1>3

\* Every variable keeps its type: a request is for memory that may be asked for, a
\* dirty page is in memory, PS_Disk_IO_Sem has a token or none and PS_DOS_IO_Count
\* stays in its bounds.
THEOREM PageTypes ==
  ASSUME ~Moves
  PROVE  Spec => []TypeOK
  <1>1. Structure => TypeOK
    BY TypesFollow
  <1> QED
    BY <1>1, StructureAlways, PTL

\* The table of slots stays well formed through all that PageSwap_Out, the search
\* for a victim, PageSwap_Destroy, PageSwap_Create and the growing of the file do to
\* it: each slot is on one list without loops, the count of free slots is right, and
\* the slots of a chain hold different pages of its bucket, all of them alive.
THEOREM PageSlots ==
  ASSUME ~Moves
  PROVE  Spec => []SlotsPartition
  <1>1. Structure => SlotsPartition
    BY SlotsFollow
  <1> QED
    BY <1>1, StructureAlways, PTL

\* A slot that was never used is on the free list, so that the search of
\* PageSwap_Out for it, which does not look for the end of the list, finds it.
THEOREM PageFresh ==
  ASSUME ~Moves
  PROVE  Spec => []FreshSlotsFree
  <1>1. Structure => FreshSlotsFree
    BY SlotsFollow
  <1> QED
    BY <1>1, StructureAlways, PTL

\* Paging is invisible: every page that programs may use holds what was last
\* written to it, in memory, in its slot, or in PS_Async_Buff on the way there.  A
\* failed write may spoil the slot of a page that is not dirty, so that the theorem
\* leaves such failures out.
THEOREM PageMemory ==
  ASSUME ~Moves, "write" \notin Errors
  PROVE  Spec => []MemoryKept
  <1>1. Structure /\ Kept => MemoryKept
    BY MemoryFollows
  <1> QED
    BY <1>1, KeptAlways, PTL

=============================================================================
