--------------------------- MODULE HpFonts_proofs ---------------------------
(***************************************************************************)
(* Proofs about HpFonts, for any number of fonts of any size, any memory   *)
(* and any limits of the printer, and one device context: two that share   *)
(* the font summary do break what is proved here (see OneDC).              *)
(***************************************************************************)
EXTENDS HpFonts, FiniteSetTheorems, TLAPS

(***************************************************************************)
(* The memory that a set of fonts takes.  MemOf is a fold, a recursive     *)
(* function on the subsets.  What it computes is proved by the least       *)
(* counterexample: a set of finite sets that is not empty has an element   *)
(* with no smaller one in it.                                              *)
(***************************************************************************)
LEMMA FontsFinite == IsFiniteSet(Fonts)
  BY HpFontsAssumption, FS_Union DEF Fonts

LEMMA LeastSet ==
  ASSUME NEW T \in SUBSET (SUBSET Fonts), T # {}
  PROVE  \E x \in T : \A y \in T : y \subseteq x => y = x
  <1>1. IsWellFoundedOn(StrictSubsetOrdering(Fonts), SUBSET Fonts)
    BY FontsFinite, FS_StrictSubsetOrderingWellFounded, FS_FiniteSubsetsOfFinite
  <1>2. \E x \in T : \A y \in T : <<y, x>> \notin StrictSubsetOrdering(Fonts)
    BY <1>1, WFMin
  <1> QED
    BY <1>2 DEF StrictSubsetOrdering

Pick(s) == CHOOSE x \in s : TRUE

LEMMA PickIs == ASSUME NEW s, s # {} PROVE Pick(s) \in s
  BY DEF Pick

\* g is the function by which the fold over T is defined
IsSum(g, T) ==
  g = [s \in SUBSET T |-> IF s = {} THEN 0 ELSE Mem[Pick(s)] + g[s \ {Pick(s)}]]

LEMMA MemOfIs == ASSUME NEW T PROVE MemOf(T) = (CHOOSE g : IsSum(g, T))[T]
  BY DEF MemOf, MapThenSumSet, MapThenFoldSet, IsSum, Pick

LEMMA SumAt ==
  ASSUME NEW T, NEW g, IsSum(g, T), NEW s \in SUBSET T
  PROVE  g[s] = IF s = {} THEN 0 ELSE Mem[Pick(s)] + g[s \ {Pick(s)}]
  BY DEF IsSum

LEMMA SumsAgree ==
  ASSUME NEW A \in SUBSET Fonts, NEW B \in SUBSET Fonts,
         NEW g, IsSum(g, A), NEW h, IsSum(h, B)
  PROVE  \A s \in SUBSET (A \cap B) : g[s] = h[s]
  <1> DEFINE Bad == {s \in SUBSET (A \cap B) : g[s] # h[s]}
  <1> SUFFICES ASSUME Bad # {} PROVE FALSE
    OBVIOUS
  <1>1. Bad \in SUBSET (SUBSET Fonts)
    OBVIOUS
  <1>2. PICK s \in Bad : \A y \in Bad : y \subseteq s => y = s
    BY <1>1, LeastSet
  <1>3. s \in SUBSET A /\ s \in SUBSET B /\ g[s] # h[s]
    OBVIOUS
  <1>4. s # {}
    BY <1>3, SumAt
  <1> DEFINE r == s \ {Pick(s)}
  <1>5. r # s /\ r \subseteq s
    BY <1>4, PickIs
  <1>6. r \in SUBSET (A \cap B) /\ r \notin Bad
    BY <1>2, <1>3, <1>5
  <1>7. g[r] = h[r]
    BY <1>6
  <1> QED
    BY <1>3, <1>4, <1>7, SumAt

LEMMA SumExists == \A T \in SUBSET Fonts : \E g : IsSum(g, T)
  <1> DEFINE Bad == {T \in SUBSET Fonts : ~ \E g : IsSum(g, T)}
  <1> SUFFICES ASSUME Bad # {} PROVE FALSE
    OBVIOUS
  <1>0. Bad \in SUBSET (SUBSET Fonts)
    OBVIOUS
  <1>1. PICK T \in Bad : \A U \in Bad : U \subseteq T => U = T
    BY <1>0, LeastSet
  <1> DEFINE G(U) == CHOOSE g : IsSum(g, U)
             u(s) == s \ {Pick(s)}
             h == [s \in SUBSET T |-> IF s = {} THEN 0 ELSE Mem[Pick(s)] + G(u(s))[u(s)]]
  <1>2. T \in SUBSET Fonts
    OBVIOUS
  <1>3. ASSUME NEW U \in SUBSET T, U # T
        PROVE  IsSum(G(U), U) /\ U \in SUBSET Fonts
    BY <1>1, <1>2, <1>3
  <1>4. ASSUME NEW s \in SUBSET T, s # {}
        PROVE  u(s) \in SUBSET T /\ u(s) # T /\ u(s) \subseteq s /\ u(s) # s
    BY <1>4, PickIs
  <1>5. ASSUME NEW s \in SUBSET T
        PROVE  h[s] = IF s = {} THEN 0 ELSE Mem[Pick(s)] + G(u(s))[u(s)]
    OBVIOUS
  <1> HIDE DEF G, u, h
  <1>6. ASSUME NEW v \in SUBSET T, v # T
        PROVE  h[v] = G(v)[v]
    <2>1. IsSum(G(v), v) /\ v \in SUBSET Fonts
      BY <1>3, <1>6
    <2>2. v \in SUBSET v
      OBVIOUS
    <2>3. G(v)[v] = IF v = {} THEN 0 ELSE Mem[Pick(v)] + G(v)[u(v)]
      BY <2>1, <2>2, SumAt DEF u
    <2>4. CASE v = {}
      BY <1>5, <2>3, <2>4
    <2>5. CASE v # {}
      <3>1. u(v) \in SUBSET T /\ u(v) # T /\ u(v) \subseteq v
        BY <1>4, <2>5
      <3>2. IsSum(G(u(v)), u(v)) /\ u(v) \in SUBSET Fonts
        BY <1>3, <3>1
      <3>3. u(v) \in SUBSET (v \cap u(v))
        BY <3>1
      <3>4. G(v)[u(v)] = G(u(v))[u(v)]
        BY <2>1, <3>2, <3>3, SumsAgree
      <3> QED
        BY <1>5, <2>3, <2>5, <3>4
    <2> QED
      BY <2>4, <2>5
  <1>7. ASSUME NEW s \in SUBSET T
        PROVE  h[s] = IF s = {} THEN 0 ELSE Mem[Pick(s)] + h[s \ {Pick(s)}]
    <2>1. CASE s = {}
      BY <1>5, <2>1
    <2>2. CASE s # {}
      <3>1. h[u(s)] = G(u(s))[u(s)]
        BY <1>4, <1>6, <2>2
      <3> QED
        BY <1>5, <2>2, <3>1 DEF u
    <2> QED
      BY <2>1, <2>2
  <1>8. h = [s \in SUBSET T |-> h[s]]
    BY DEF h
  <1>9. IsSum(h, T)
    BY <1>7, <1>8 DEF IsSum
  <1> QED
    BY <1>9

\* The fold takes the fonts one by one, in the order of CHOOSE ...
LEMMA MemOfStep ==
  ASSUME NEW T \in SUBSET Fonts
  PROVE  MemOf(T) = IF T = {} THEN 0 ELSE Mem[Pick(T)] + MemOf(T \ {Pick(T)})
  <1> DEFINE G(U) == CHOOSE g : IsSum(g, U)
             r == T \ {Pick(T)}
  <1>1. \A U \in SUBSET Fonts : IsSum(G(U), U) /\ MemOf(U) = G(U)[U]
    BY SumExists, MemOfIs
  <1>2. r \in SUBSET Fonts /\ r \in SUBSET (T \cap r) /\ T \in SUBSET T
    OBVIOUS
  <1> HIDE DEF G
  <1>3. G(T)[T] = IF T = {} THEN 0 ELSE Mem[Pick(T)] + G(T)[r]
    <2>1. IsSum(G(T), T)
      BY <1>1
    <2> QED
      BY <1>2, <2>1, SumAt
  <1> HIDE DEF r
  <1>4. G(T)[r] = G(r)[r]
    BY <1>1, <1>2, SumsAgree
  <1> QED
    BY <1>1, <1>2, <1>3, <1>4 DEF r

LEMMA MemOfEmpty == MemOf({}) = 0
  <1>1. {} \in SUBSET Fonts
    OBVIOUS
  <1> DEFINE T == {}
  <1>2. T = {} /\ T \in SUBSET Fonts
    OBVIOUS
  <1> HIDE DEF T
  <1>3. MemOf(T) = 0
    BY <1>2, MemOfStep
  <1> QED
    BY <1>2, <1>3

LEMMA MemIs == \A f \in Fonts : Mem[f] \in Nat \ {0}
  BY HpFontsAssumption DEF Fonts

LEMMA MemOfNat == \A T \in SUBSET Fonts : MemOf(T) \in Nat
  <1> DEFINE Bad == {T \in SUBSET Fonts : MemOf(T) \notin Nat}
  <1> SUFFICES ASSUME Bad # {} PROVE FALSE
    OBVIOUS
  <1>0. Bad \in SUBSET (SUBSET Fonts)
    OBVIOUS
  <1>1. PICK T \in Bad : \A U \in Bad : U \subseteq T => U = T
    BY <1>0, LeastSet
  <1>2. T \in SUBSET Fonts /\ MemOf(T) \notin Nat
    OBVIOUS
  <1>3. T # {}
    BY <1>2, MemOfEmpty
  <1>4. Pick(T) \in T
    BY <1>3, PickIs
  <1>5. MemOf(T \ {Pick(T)}) \in Nat
    BY <1>1, <1>2, <1>4
  <1> QED
    BY <1>2, <1>3, <1>4, <1>5, MemOfStep, MemIs

\* ... and in any order.
LEMMA MemOfRemove ==
  \A T \in SUBSET Fonts : \A x \in T : MemOf(T) = Mem[x] + MemOf(T \ {x})
  <1> DEFINE Bad == {T \in SUBSET Fonts : \E x \in T : MemOf(T) # Mem[x] + MemOf(T \ {x})}
  <1> SUFFICES ASSUME Bad # {} PROVE FALSE
    OBVIOUS
  <1>0. Bad \in SUBSET (SUBSET Fonts)
    OBVIOUS
  <1>1. PICK T \in Bad : \A U \in Bad : U \subseteq T => U = T
    BY <1>0, LeastSet
  <1>2. T \in SUBSET Fonts
    OBVIOUS
  <1>3. PICK x \in T : MemOf(T) # Mem[x] + MemOf(T \ {x})
    OBVIOUS
  <1> DEFINE y == Pick(T)
  <1>4. y \in T
    BY <1>3, PickIs
  <1>5. MemOf(T) = Mem[y] + MemOf(T \ {y})
    BY <1>2, <1>3, MemOfStep
  <1> HIDE DEF y
  <1>6. x # y
    BY <1>3, <1>5
  <1>7. T \ {y} \in SUBSET Fonts /\ T \ {y} \notin Bad /\ T \ {x} \in SUBSET Fonts
        /\ T \ {x} \notin Bad
    BY <1>1, <1>2, <1>3, <1>4
  <1>8. MemOf(T \ {y}) = Mem[x] + MemOf((T \ {y}) \ {x})
    BY <1>6, <1>7
  <1>9. MemOf(T \ {x}) = Mem[y] + MemOf((T \ {x}) \ {y})
    BY <1>4, <1>6, <1>7
  <1>10. (T \ {y}) \ {x} = (T \ {x}) \ {y} /\ (T \ {x}) \ {y} \in SUBSET Fonts
    BY <1>2
  <1>11. Mem[x] \in Nat /\ Mem[y] \in Nat /\ MemOf((T \ {x}) \ {y}) \in Nat
    BY <1>2, <1>4, <1>10, MemIs, MemOfNat
  <1> QED
    BY <1>3, <1>5, <1>8, <1>9, <1>10, <1>11

LEMMA MemOfAdd ==
  ASSUME NEW T \in SUBSET Fonts, NEW x \in Fonts, x \notin T
  PROVE  MemOf(T \cup {x}) = MemOf(T) + Mem[x]
  <1>1. T \cup {x} \in SUBSET Fonts /\ (T \cup {x}) \ {x} = T
    OBVIOUS
  <1>2. MemOf(T \cup {x}) = Mem[x] + MemOf(T)
    BY <1>1, MemOfRemove
  <1> QED
    BY <1>2, MemIs, MemOfNat

\* Fewer fonts take no more memory.
LEMMA MemOfSubset ==
  ASSUME NEW A \in SUBSET Fonts
  PROVE  \A B \in SUBSET Fonts : A \subseteq B => MemOf(A) <= MemOf(B)
  <1> DEFINE Bad == {B \in SUBSET Fonts : A \subseteq B /\ ~(MemOf(A) <= MemOf(B))}
  <1> SUFFICES ASSUME Bad # {} PROVE FALSE
    OBVIOUS
  <1>0. Bad \in SUBSET (SUBSET Fonts)
    OBVIOUS
  <1>1. PICK B \in Bad : \A U \in Bad : U \subseteq B => U = B
    BY <1>0, LeastSet
  <1>2. B \in SUBSET Fonts /\ A \subseteq B /\ ~(MemOf(A) <= MemOf(B))
    OBVIOUS
  <1>3. MemOf(A) \in Nat /\ MemOf(B) \in Nat
    BY <1>2, MemOfNat
  <1>4. A # B
    BY <1>2, <1>3
  <1>5. PICK x \in B : x \notin A
    BY <1>2, <1>4
  <1>6. B \ {x} \in SUBSET Fonts /\ A \subseteq B \ {x} /\ B \ {x} \notin Bad
    BY <1>1, <1>2, <1>5
  <1>7. MemOf(A) <= MemOf(B \ {x}) /\ MemOf(B \ {x}) \in Nat
    BY <1>6, MemOfNat
  <1>8. MemOf(B) = Mem[x] + MemOf(B \ {x}) /\ Mem[x] \in Nat
    BY <1>2, <1>5, MemOfRemove, MemIs
  <1> QED
    BY <1>2, <1>3, <1>7, <1>8
-----------------------------------------------------------------------------
(* Types.  d is the device context of a call, r and p its structure and    *)
(* its printer after it, l and o the summary after it.                     *)

Devices == [doc: {"none", "ok", "failed"}, page: {"none", "text"},
            ectl: Fonts \cup {NoFont}, freeMem: Int, totSoft: Int,
            pgSoft: Int, fontSub: BOOLEAN, scans: Nat]

Printers == [loaded: SUBSET Temp, selected: Fonts \cup {Courier, Missing},
             used: SUBSET (Fonts \cup {Courier, Missing}),
             want: Fonts \cup {NoFont}, got: Fonts \cup {Courier, Missing, NoFont}]

Counts == {l \in [Fonts -> Nat \cup {-1}] : \A f \in Perm : l[f] = -1}

LEMMA TypesAre ==
  TypeOK <=> /\ lru \in Counts /\ onPage \in [Fonts -> BOOLEAN]
             /\ dev \in [DCs -> Devices] /\ printer \in [DCs -> Printers]
  BY DEF TypeOK, Counts, Devices, Printers

\* What the printer of d holds when q has been sent to it
Got(d, q) == IF dev[d].doc = "ok" THEN q ELSE printer[d]

Becomes(d, l, o, r, p) ==
  /\ lru' = l /\ onPage' = o
  /\ dev' = [dev EXCEPT ![d] = r] /\ printer' = [printer EXCEPT ![d] = p]

LEMMA TypesStep ==
  ASSUME TypeOK, NEW d \in DCs, NEW l \in Counts, NEW o \in [Fonts -> BOOLEAN],
         NEW r \in Devices, NEW p \in Printers, Becomes(d, l, o, r, p)
  PROVE  TypeOK'
  <1>1. /\ lru' \in Counts /\ onPage' \in [Fonts -> BOOLEAN]
        /\ dev' \in [DCs -> Devices] /\ printer' \in [DCs -> Printers]
    BY TypesAre DEF Becomes
  <1> QED
    BY <1>1 DEF TypeOK, Counts, Devices, Printers

LEMMA GotIs ==
  ASSUME TypeOK, NEW d \in DCs, NEW q, dev[d].doc = "ok" => q \in Printers
  PROVE  Got(d, q) \in Printers
  BY TypesAre DEF Got

LEMMA FontsApart ==
  /\ Temp \subseteq Fonts /\ Perm \subseteq Fonts /\ Temp \cap Perm = {}
  /\ NoFile \subseteq Temp /\ Courier \notin Fonts /\ Missing \notin Fonts /\ NoFont \notin Fonts
  /\ Courier # Missing /\ Courier # NoFont /\ Missing # NoFont
  BY HpFontsAssumption DEF Fonts

-----------------------------------------------------------------------------
(* The summary after a call.                                               *)

LEMMA TouchIs ==
  ASSUME NEW l \in Counts, NEW f \in Fonts
  PROVE  /\ Touch(l, f) \in Counts
         /\ \A g \in Fonts \ {f} : Touch(l, f)[g] = -1 <=> l[g] = -1
         /\ f \in Temp => Touch(l, f)[f] # -1
  BY FontsApart DEF Touch, Counts

LEMMA ForgetIs ==
  ASSUME NEW l \in Counts, NEW v \in Temp
  PROVE  /\ [l EXCEPT ![v] = -1] \in Counts
         /\ \A g \in Fonts \ {v} : [l EXCEPT ![v] = -1][g] = l[g]
         /\ [l EXCEPT ![v] = -1][v] = -1
  BY FontsApart DEF Counts

LEMMA OnPageIs ==
  ASSUME NEW o \in [Fonts -> BOOLEAN], NEW f \in Fonts
  PROVE  /\ [o EXCEPT ![f] = TRUE] \in [Fonts -> BOOLEAN]
         /\ [o EXCEPT ![f] = TRUE][f] = TRUE
         /\ \A g \in Fonts : o[g] => [o EXCEPT ![f] = TRUE][g]
  OBVIOUS

-----------------------------------------------------------------------------
(* The printer after a call.                                               *)

LEMMA SelectIdIs ==
  ASSUME NEW p \in Printers, NEW f \in Fonts, NEW x, x = SelectId(p, f)
  PROVE  /\ x \in Printers /\ x.loaded = p.loaded /\ x.used = p.used
         /\ f \in p.loaded \cup Perm => x.selected = f
         /\ f \notin p.loaded \cup Perm => x.selected = Missing
  BY DEF SelectId, Printers

LEMMA LoadIs ==
  ASSUME NEW p \in Printers, NEW f \in Temp, NEW x, x = Load(p, f)
  PROVE  /\ x \in Printers /\ x.used = p.used
         /\ f \notin NoFile => x.loaded = p.loaded \cup {f} /\ x.selected = f
         /\ f \in NoFile => x.loaded = p.loaded /\ x.selected \in {f, Missing}
         /\ x.selected = f => f \in x.loaded
  <1>1. f \in Fonts /\ f \notin Perm
    BY FontsApart
  <1>2. CASE f \in NoFile
    <2>1. x = SelectId(p, f)
      BY <1>2 DEF Load
    <2>2. f # Missing
      BY <1>1, FontsApart
    <2> QED
      BY <1>1, <1>2, <2>1, <2>2, SelectIdIs
  <1>3. CASE f \notin NoFile
    <2> DEFINE s == p.loaded \cup {f}
    <2>1. x = [p EXCEPT !.loaded = s, !.selected = f]
      BY <1>3 DEF Load
    <2>2. s \in SUBSET Temp /\ f \in s
      BY DEF Printers
    <2> HIDE DEF s
    <2>3. x \in Printers /\ x.used = p.used /\ x.loaded = s /\ x.selected = f
      BY <1>1, <2>1, <2>2 DEF Printers
    <2> QED
      BY <1>3, <2>2, <2>3 DEF s
  <1> QED
    BY <1>2, <1>3

LEMMA DeleteIs ==
  ASSUME NEW p \in Printers, NEW v, NEW x, x = Delete(p, v)
  PROVE  x \in Printers /\ x.loaded = p.loaded \ {v} /\ x.used = p.used
  BY DEF Delete, Printers

LEMMA CourierIs ==
  ASSUME NEW p \in Printers, NEW x, x = [p EXCEPT !.selected = Courier]
  PROVE  x \in Printers /\ x.loaded = p.loaded /\ x.used = p.used /\ x.selected = Courier
  BY DEF Printers

LEMMA PrintedIs ==
  ASSUME NEW x \in Printers, NEW f \in Fonts, NEW q, q = Printed(x, f)
  PROVE  /\ q \in Printers /\ q.loaded = x.loaded /\ q.selected = x.selected
         /\ q.used = x.used \cup {x.selected} /\ q.want = f /\ q.got = x.selected
  BY DEF Printed, Printers
-----------------------------------------------------------------------------
(* The steps, each with what it makes of d's structure.                    *)

LEMMA DevIs ==
  ASSUME TypeOK, NEW d \in DCs
  PROVE  /\ dev[d] \in Devices /\ printer[d] \in Printers /\ dev \in [DCs -> Devices]
         /\ lru \in Counts /\ onPage \in [Fonts -> BOOLEAN]
  BY TypesAre

LEMMA ScannedIs ==
  ASSUME NEW r \in Devices, NEW set \in SUBSET Fonts, NEW s, s = Scanned(r, set)
  PROVE  /\ s \in Devices /\ s.freeMem = AvailMem - MemOf(set)
         /\ s.totSoft = r.totSoft + Cardinality(set) /\ Cardinality(set) \in Nat
         /\ s.doc = r.doc /\ s.page = r.page /\ s.ectl = r.ectl /\ s.fontSub = r.fontSub
  <1>1. Cardinality(set) \in Nat /\ MemOf(set) \in Nat /\ AvailMem \in Nat
    BY FontsFinite, FS_Subset, FS_CardinalityType, MemOfNat, HpFontsAssumption
  <1> DEFINE mem == AvailMem - MemOf(set)
             tot == r.totSoft + Cardinality(set)
  <1>2. mem \in Int /\ tot \in Int /\ r.scans + 1 \in Nat
    BY <1>1 DEF Devices
  <1>3. s = [r EXCEPT !.freeMem = mem, !.totSoft = tot, !.scans = r.scans + 1]
    BY DEF Scanned
  <1> HIDE DEF mem, tot
  <1>4. /\ s \in Devices /\ s.freeMem = mem /\ s.totSoft = tot
        /\ s.doc = r.doc /\ s.page = r.page /\ s.ectl = r.ectl /\ s.fontSub = r.fontSub
    BY <1>2, <1>3 DEF Devices
  <1> QED
    BY <1>1, <1>4 DEF mem, tot

\* Fields that are BOOLEAN are set apart from the others, which SMT needs
Subbed(s, r, b) ==
  /\ s \in Devices /\ s.fontSub = b
  /\ s.doc = r.doc /\ s.page = r.page /\ s.ectl = r.ectl
  /\ s.totSoft = r.totSoft /\ s.freeMem = r.freeMem

LEMMA FontSubIs ==
  ASSUME NEW r \in Devices, NEW b \in BOOLEAN, NEW s, s = [r EXCEPT !.fontSub = b]
  PROVE  Subbed(s, r, b)
  BY DEF Devices, Subbed

NoCounts == [f \in Fonts |-> -1]
NoPages  == [f \in Fonts |-> FALSE]

\* A document starts, or it does not
Starts(d, r) ==
  /\ Becomes(d, NoCounts, NoPages, r, NewPrinter)
  /\ dev[d].doc = "none" /\ r.page = dev[d].page /\ r.doc \in {"none", "ok"}
  /\ r.freeMem = AvailMem - MemOf(Perm) /\ r.totSoft = dev[d].totSoft + Cardinality(Perm)
  /\ r.doc = "ok" => r.freeMem >= MINMEM

LEMMA NothingIs ==
  NoCounts \in Counts /\ NoPages \in [Fonts -> BOOLEAN] /\ NewPrinter \in Printers
  BY FontsApart DEF NoCounts, NoPages, Counts, NewPrinter, Printers

LEMMA StartDocIs ==
  ASSUME TypeOK, NEW d \in DCs, StartDoc(d)
  PROVE  \E r \in Devices : Starts(d, r)
  <1> DEFINE no == FALSE
             e == [dev[d] EXCEPT !.pgSoft = 0, !.fontSub = no]
             s == Scanned(e, Perm)
  <1>1. e \in Devices /\ e.doc = dev[d].doc /\ e.page = dev[d].page /\ e.totSoft = dev[d].totSoft
    <2> DEFINE t == [dev[d] EXCEPT !.pgSoft = 0]
    <2>1. t \in Devices /\ t.doc = dev[d].doc /\ t.page = dev[d].page /\ t.totSoft = dev[d].totSoft
      BY DevIs DEF Devices
    <2>2. no \in BOOLEAN /\ e = [t EXCEPT !.fontSub = no]
      OBVIOUS
    <2> HIDE DEF no, t, e
    <2>3. Subbed(e, t, no)
      BY <2>1, <2>2, FontSubIs
    <2> QED
      BY <2>1, <2>3 DEF Subbed
  <1>2. PICK opens \in BOOLEAN :
          dev' = [dev EXCEPT ![d] =
                    IF s.freeMem >= MINMEM /\ opens THEN [s EXCEPT !.doc = "ok"] ELSE s]
    BY DEF StartDoc
  <1>3. /\ dev[d].doc = "none" /\ lru' = NoCounts /\ onPage' = NoPages
        /\ printer' = [printer EXCEPT ![d] = NewPrinter]
    BY DEF StartDoc, ForgetFonts, NoCounts, NoPages
  <1>4. s = Scanned(e, Perm) /\ Perm \in SUBSET Fonts
    BY FontsApart
  <1> HIDE DEF e, s
  <1>5. /\ s \in Devices /\ s.freeMem = AvailMem - MemOf(Perm)
        /\ s.totSoft = e.totSoft + Cardinality(Perm) /\ s.doc = e.doc /\ s.page = e.page
    BY <1>1, <1>4, ScannedIs
  <1>6. CASE s.freeMem >= MINMEM /\ opens
    <2> DEFINE r == [s EXCEPT !.doc = "ok"]
    <2>1. /\ r \in Devices /\ r.doc = "ok" /\ r.page = s.page /\ r.freeMem = s.freeMem
          /\ r.totSoft = s.totSoft
      BY <1>5 DEF Devices
    <2>2. dev' = [dev EXCEPT ![d] = r]
      BY <1>2, <1>6
    <2> HIDE DEF r
    <2>3. Starts(d, r)
      BY <1>1, <1>3, <1>5, <1>6, <2>1, <2>2 DEF Starts, Becomes
    <2> QED
      BY <2>1, <2>3
  <1>7. CASE ~(s.freeMem >= MINMEM /\ opens)
    <2>1. dev' = [dev EXCEPT ![d] = s]
      BY <1>2, <1>7
    <2>2. Starts(d, s)
      BY <1>1, <1>3, <1>5, <2>1 DEF Starts, Becomes
    <2> QED
      BY <1>5, <2>2
  <1> QED
    BY <1>6, <1>7

\* The fonts that the summary has in the printer
Held(l) == Perm \cup {f \in Temp : l[f] # -1}

LEMMA HeldIs ==
  ASSUME NEW l
  PROVE  /\ Held(l) \in SUBSET Fonts /\ IsFiniteSet(Held(l)) /\ Cardinality(Held(l)) \in Nat
         /\ MemOf(Held(l)) \in Nat
  <1>1. Held(l) \in SUBSET Fonts
    BY FontsApart DEF Held
  <1> QED
    BY <1>1, FontsFinite, FS_Subset, FS_CardinalityType, MemOfNat

Scans(d, o, r) ==
  /\ Becomes(d, lru, o, r, printer[d])
  /\ dev[d].doc # "none" /\ dev[d].page = "none"
  /\ r.doc = dev[d].doc /\ r.page = "none" /\ r.ectl = dev[d].ectl /\ r.fontSub = dev[d].fontSub
  /\ r.freeMem = AvailMem - MemOf(Held(lru))
  /\ r.totSoft = dev[d].totSoft + Cardinality(Held(lru))

LEMMA NewFrameIs ==
  ASSUME TypeOK, NEW d \in DCs, NewFrame(d)
  PROVE  \E r \in Devices, o \in [Fonts -> BOOLEAN] : Scans(d, o, r)
  <1> DEFINE r == Scanned(dev[d], Held(lru))
             o == [f \in Fonts |-> IF f \in Held(lru) THEN FALSE ELSE onPage[f]]
  <1>1. Perm \cup Downloaded = Held(lru)
    BY DEF Held, Downloaded
  <1>2. /\ dev' = [dev EXCEPT ![d] = r] /\ onPage' = o /\ lru' = lru /\ printer' = printer
        /\ dev[d].doc # "none" /\ dev[d].page = "none"
    BY <1>1 DEF NewFrame
  <1>3. o \in [Fonts -> BOOLEAN] /\ dev[d] \in Devices /\ Held(lru) \in SUBSET Fonts
        /\ r = Scanned(dev[d], Held(lru))
    BY DevIs, HeldIs
  <1> HIDE DEF r, o
  <1>4. /\ r \in Devices /\ r.freeMem = AvailMem - MemOf(Held(lru))
        /\ r.totSoft = dev[d].totSoft + Cardinality(Held(lru)) /\ r.doc = dev[d].doc
        /\ r.page = dev[d].page /\ r.ectl = dev[d].ectl /\ r.fontSub = dev[d].fontSub
    BY <1>3, ScannedIs
  <1>5. printer' = [printer EXCEPT ![d] = printer[d]]
    BY <1>2, TypesAre
  <1>6. Scans(d, o, r)
    BY <1>2, <1>4, <1>5 DEF Scans, Becomes
  <1> QED
    BY <1>3, <1>4, <1>6

\* Steps that leave the summary and the counters alone
Same(r, s) == r.freeMem = s.freeMem /\ r.totSoft = s.totSoft /\ r.fontSub = s.fontSub

LEMMA StartPageIs ==
  ASSUME TypeOK, NEW d \in DCs, StartPage(d)
  PROVE  \E r \in Devices, q \in Printers :
            /\ Becomes(d, lru, onPage, r, q) /\ dev[d].doc = "ok" /\ dev[d].page = "none"
            /\ r.doc = "ok" /\ r.page = "text" /\ r.ectl = NoFont /\ Same(r, dev[d])
            /\ q.loaded = printer[d].loaded /\ q.used = {} /\ q.want = NoFont /\ q.got = NoFont
  <1> DEFINE r == [dev[d] EXCEPT !.page = "text", !.ectl = NoFont]
             q == [printer[d] EXCEPT !.used = {}, !.want = NoFont, !.got = NoFont]
  <1>1. /\ r \in Devices /\ r.doc = dev[d].doc /\ r.page = "text" /\ r.ectl = NoFont
        /\ Same(r, dev[d])
    BY DevIs DEF Devices, Same
  <1>2. /\ q \in Printers /\ q.loaded = printer[d].loaded /\ q.used = {}
        /\ q.want = NoFont /\ q.got = NoFont
    BY DevIs DEF Printers
  <1>3. dev' = [dev EXCEPT ![d] = r]
    BY DevIs DEF StartPage
  <1>4. dev[d].doc = "ok" /\ dev[d].page = "none" /\ UNCHANGED <<lru, onPage>>
        /\ printer' = [printer EXCEPT ![d] = q]
    BY DEF StartPage, Receives
  <1> HIDE DEF r, q
  <1> QED
    BY <1>1, <1>2, <1>3, <1>4 DEF Becomes

LEMMA EndPageIs ==
  ASSUME TypeOK, NEW d \in DCs, EndPage(d)
  PROVE  \E r \in Devices, q \in Printers :
            /\ Becomes(d, lru, onPage, r, q) /\ dev[d].doc = "ok"
            /\ r.doc = "ok" /\ r.page = "none" /\ Same(r, dev[d])
            /\ q.loaded = printer[d].loaded /\ q.used = {}
            /\ q.want = printer[d].want /\ q.got = printer[d].got
  <1> DEFINE r == [dev[d] EXCEPT !.page = "none"]
             q == [printer[d] EXCEPT !.selected = Courier, !.used = {}]
  <1>1. r \in Devices /\ r.doc = dev[d].doc /\ r.page = "none" /\ Same(r, dev[d])
    BY DevIs DEF Devices, Same
  <1>2. /\ q \in Printers /\ q.loaded = printer[d].loaded /\ q.used = {}
        /\ q.want = printer[d].want /\ q.got = printer[d].got
    BY DevIs DEF Printers
  <1>3. dev' = [dev EXCEPT ![d] = r]
    BY DevIs DEF EndPage
  <1>4. dev[d].doc = "ok" /\ UNCHANGED <<lru, onPage>> /\ printer' = [printer EXCEPT ![d] = q]
    BY DEF EndPage, Receives
  <1> HIDE DEF r, q
  <1> QED
    BY <1>1, <1>2, <1>3, <1>4 DEF Becomes

\* A job that fails or ends: nothing reaches the printer any more
LEMMA EndsIs ==
  ASSUME TypeOK, NEW d \in DCs, WriteFails(d) \/ EndDoc(d)
  PROVE  \E r \in Devices :
            /\ Becomes(d, lru, onPage, r, printer[d]) /\ r.totSoft = dev[d].totSoft
            /\ r.doc # "ok" /\ (r.doc = "none" => r.page = "none")
            /\ r.doc # "none" => dev[d].doc # "none" /\ r.freeMem = dev[d].freeMem
  <1>1. printer = [printer EXCEPT ![d] = printer[d]]
    BY TypesAre
  <1>2. CASE WriteFails(d)
    <2> DEFINE r == [dev[d] EXCEPT !.doc = "failed"]
    <2>1. /\ r \in Devices /\ r.doc = "failed" /\ r.totSoft = dev[d].totSoft
          /\ r.freeMem = dev[d].freeMem
      BY DevIs DEF Devices
    <2>2. dev' = [dev EXCEPT ![d] = r] /\ dev[d].doc = "ok" /\ UNCHANGED <<lru, onPage, printer>>
      BY <1>2, DevIs DEF WriteFails
    <2> HIDE DEF r
    <2> QED
      BY <1>1, <2>1, <2>2 DEF Becomes
  <1>3. CASE EndDoc(d)
    <2> DEFINE r == [dev[d] EXCEPT !.doc = "none", !.page = "none"]
    <2>1. r \in Devices /\ r.doc = "none" /\ r.page = "none" /\ r.totSoft = dev[d].totSoft
      BY DevIs DEF Devices
    <2>2. dev' = [dev EXCEPT ![d] = r] /\ UNCHANGED <<lru, onPage, printer>>
      BY <1>3, DevIs DEF EndDoc
    <2> HIDE DEF r
    <2> QED
      BY <1>1, <2>1, <2>2 DEF Becomes
  <1> QED
    BY <1>2, <1>3
-----------------------------------------------------------------------------
(* Strings.                                                                *)

\* A string of f is printed by a printer in the state x
Prints(d, f, l, o, r, x) ==
  /\ Becomes(d, l, o, r, Got(d, Printed(x, f)))
  /\ l \in Counts /\ o \in [Fonts -> BOOLEAN] /\ r \in Devices /\ x \in Printers
  /\ x.used = printer[d].used
  /\ dev[d].page = "text" /\ r.page = "text" /\ r.ectl = f /\ r.doc = dev[d].doc
  /\ dev[d].fontSub => r.fontSub
  /\ \A g \in Fonts : onPage[g] => o[g]

LEMMA PrintAgainIs ==
  ASSUME TypeOK, NEW d \in DCs, NEW f \in Fonts, PrintAgain(d, f)
  PROVE  Prints(d, f, lru, onPage, dev[d], printer[d]) /\ dev[d].ectl = f
  <1>1. dev = [dev EXCEPT ![d] = dev[d]]
    BY TypesAre
  <1>2. Becomes(d, lru, onPage, dev[d], Got(d, Printed(printer[d], f)))
    BY <1>1 DEF PrintAgain, Becomes, Receives, Got
  <1> QED
    BY <1>2, DevIs DEF Prints, PrintAgain

\* Every count of fonts on a page is an integer
LEMMA CountedIs ==
  ASSUME TypeOK, NEW d \in DCs, NEW f \in Fonts
  PROVE  Counted(dev[d], f) \in Int
  BY DevIs DEF Counted, Devices

LEMMA SelectLoadedIs ==
  ASSUME TypeOK, NEW d \in DCs, NEW f \in Fonts, SelectLoaded(d, f)
  PROVE  \E r : /\ Prints(d, f, Touch(lru, f), [onPage EXCEPT ![f] = TRUE], r,
                          SelectId(printer[d], f))
                /\ Same(r, dev[d]) /\ f \in Held(lru)
  <1> DEFINE n == Counted(dev[d], f)
             r == [dev[d] EXCEPT !.ectl = f, !.pgSoft = n]
             x == SelectId(printer[d], f)
             l == Touch(lru, f)
             o == [onPage EXCEPT ![f] = TRUE]
  <1>1. n \in Int
    BY CountedIs
  <1>2. dev' = [dev EXCEPT ![d] = r]
    BY DevIs DEF SelectLoaded
  <1>3. lru' = l /\ onPage' = o /\ dev[d].page = "text"
        /\ printer' = [printer EXCEPT ![d] = Got(d, Printed(x, f))]
    BY DEF SelectLoaded, Receives, Got
  <1>4. f \in Held(lru)
    BY FontsApart DEF SelectLoaded, Held, Fonts
  <1> HIDE DEF n
  <1>5. /\ r \in Devices /\ r.ectl = f /\ r.page = dev[d].page /\ r.doc = dev[d].doc
        /\ Same(r, dev[d])
    BY <1>1, DevIs DEF Devices, Same
  <1>6. l \in Counts /\ o \in [Fonts -> BOOLEAN] /\ \A g \in Fonts : onPage[g] => o[g]
    BY DevIs, TouchIs, OnPageIs
  <1>7. x \in Printers /\ x.used = printer[d].used
    BY DevIs, SelectIdIs
  <1> HIDE DEF r, x, l, o
  <1>8. Prints(d, f, l, o, r, x)
    BY <1>2, <1>3, <1>5, <1>6, <1>7 DEF Prints, Becomes, Same
  <1> QED
    BY <1>4, <1>5, <1>8 DEF x, l, o

LEMMA DownloadIs ==
  ASSUME TypeOK, NEW d \in DCs, NEW f \in Fonts, Download(d, f)
  PROVE  \E r : /\ Prints(d, f, Touch(lru, f), [onPage EXCEPT ![f] = TRUE], r,
                          Load(printer[d], f))
                /\ r.freeMem = dev[d].freeMem - Mem[f] /\ r.totSoft = dev[d].totSoft + 1
                /\ f \in Temp /\ lru[f] = -1
                /\ dev[d].freeMem >= Mem[f] + MINMEM /\ dev[d].totSoft < MaxSoft
  <1> DEFINE n == Counted(dev[d], f)
             mem == dev[d].freeMem - Mem[f]
             tot == dev[d].totSoft + 1
             r == [dev[d] EXCEPT !.ectl = f, !.pgSoft = n, !.freeMem = mem, !.totSoft = tot]
             x == Load(printer[d], f)
             l == Touch(lru, f)
             o == [onPage EXCEPT ![f] = TRUE]
  <1>1. /\ dev[d].freeMem \in Int /\ dev[d].totSoft \in Int /\ Mem[f] \in Nat
        /\ MINMEM \in Nat /\ MaxSoft \in Nat
    BY DevIs, MemIs, HpFontsAssumption DEF Devices
  <1>2. n \in Int /\ mem \in Int /\ tot \in Int
    BY <1>1, CountedIs
  <1>3. dev' = [dev EXCEPT ![d] = r]
    BY DevIs DEF Download
  <1>4. lru' = l /\ onPage' = o /\ dev[d].page = "text" /\ f \in Temp /\ lru[f] = -1
        /\ printer' = [printer EXCEPT ![d] = Got(d, Printed(x, f))]
    BY DEF Download, NeedsDownload, Receives, Got
  <1>5. dev[d].freeMem >= Mem[f] + MINMEM /\ dev[d].totSoft < MaxSoft
    BY <1>1 DEF Download, Full
  <1> HIDE DEF n
  <1>6. /\ r \in Devices /\ r.ectl = f /\ r.page = dev[d].page /\ r.doc = dev[d].doc
        /\ r.freeMem = mem /\ r.totSoft = tot /\ r.fontSub = dev[d].fontSub
    <2> HIDE DEF mem, tot
    <2> QED
      BY <1>2, DevIs DEF Devices
  <1>7. l \in Counts /\ o \in [Fonts -> BOOLEAN] /\ \A g \in Fonts : onPage[g] => o[g]
    BY DevIs, TouchIs, OnPageIs
  <1>8. x \in Printers /\ x.used = printer[d].used
    BY <1>4, DevIs, LoadIs
  <1> HIDE DEF r, x, l, o
  <1>9. Prints(d, f, l, o, r, x)
    BY <1>3, <1>4, <1>6, <1>7, <1>8 DEF Prints, Becomes
  <1> QED
    BY <1>4, <1>5, <1>6, <1>9 DEF x, l, o

\* A font that makes room: not one of the page, not a smaller one, not f itself
Victim(v, f) == v \in Temp /\ lru[v] # -1 /\ ~onPage[v] /\ Mem[f] <= Mem[v] /\ v # f

LEMMA VictimIs ==
  ASSUME TypeOK, NEW f \in Temp, lru[f] = -1, NEW v \in Oldest(Victims(f))
  PROVE  Victim(v, f)
  <1>1. v \in Fonts /\ ~onPage[v] /\ Mem[v] >= Mem[f] /\ lru[v] > -1
    BY DEF Oldest, Victims
  <1>2. Mem[v] \in Nat /\ Mem[f] \in Nat
    BY <1>1, MemIs, FontsApart
  <1>3. v \notin Perm
    BY <1>1 DEF TypeOK
  <1> QED
    BY <1>1, <1>2, <1>3 DEF Victim, Fonts

LEMMA DownloadOverIs ==
  ASSUME TypeOK, NEW d \in DCs, NEW f \in Fonts, DownloadOver(d, f)
  PROVE  \E r, v : /\ Prints(d, f, Touch([lru EXCEPT ![v] = -1], f), [onPage EXCEPT ![f] = TRUE],
                             r, Load(Delete(printer[d], v), f))
                   /\ r.freeMem = dev[d].freeMem - Mem[v] /\ r.totSoft = dev[d].totSoft
                   /\ f \in Temp /\ lru[f] = -1 /\ Victim(v, f)
  <1>1. f \in Temp /\ lru[f] = -1 /\ dev[d].page = "text"
    BY DEF DownloadOver, NeedsDownload
  <1>2. PICK v \in Oldest(Victims(f)) :
          /\ lru' = Touch([lru EXCEPT ![v] = -1], f)
          /\ onPage' = [onPage EXCEPT ![f] = TRUE]
          /\ dev' = [dev EXCEPT ![d].ectl = f, ![d].pgSoft = Counted(dev[d], f) - 1,
                                ![d].freeMem = @ - Mem[v]]
          /\ Receives(d, Printed(Load(Delete(printer[d], v), f), f))
    BY DEF DownloadOver
  <1>3. Victim(v, f)
    BY <1>1, VictimIs
  <1> DEFINE n == Counted(dev[d], f) - 1
             mem == dev[d].freeMem - Mem[v]
             r == [dev[d] EXCEPT !.ectl = f, !.pgSoft = n, !.freeMem = mem]
             y == Delete(printer[d], v)
             x == Load(y, f)
             k == [lru EXCEPT ![v] = -1]
             l == Touch(k, f)
             o == [onPage EXCEPT ![f] = TRUE]
  <1>4. n \in Int /\ mem \in Int
    <2>1. dev[d].freeMem \in Int /\ Mem[v] \in Nat
      BY <1>3, DevIs, MemIs, FontsApart DEF Devices, Victim
    <2> QED
      BY <2>1, CountedIs
  <1>5. dev' = [dev EXCEPT ![d] = r]
    BY <1>2, DevIs
  <1>6. lru' = l /\ onPage' = o /\ printer' = [printer EXCEPT ![d] = Got(d, Printed(x, f))]
    BY <1>2 DEF Receives, Got
  <1> HIDE DEF n
  <1>7. /\ r \in Devices /\ r.ectl = f /\ r.page = dev[d].page /\ r.doc = dev[d].doc
        /\ r.freeMem = mem /\ r.totSoft = dev[d].totSoft /\ r.fontSub = dev[d].fontSub
    <2> HIDE DEF mem
    <2> QED
      BY <1>4, DevIs DEF Devices
  <1>8. l \in Counts /\ o \in [Fonts -> BOOLEAN] /\ \A g \in Fonts : onPage[g] => o[g]
    <2>1. k \in Counts
      BY <1>3, DevIs, ForgetIs DEF Victim
    <2> HIDE DEF k
    <2> QED
      BY <2>1, DevIs, TouchIs, OnPageIs
  <1>9. x \in Printers /\ x.used = printer[d].used
    <2>1. y \in Printers /\ y.used = printer[d].used
      BY DevIs, DeleteIs
    <2> HIDE DEF y
    <2> QED
      BY <1>1, <2>1, LoadIs
  <1> HIDE DEF r, x, l, o
  <1>10. Prints(d, f, l, o, r, x)
    BY <1>1, <1>5, <1>6, <1>7, <1>8, <1>9 DEF Prints, Becomes
  <1> QED
    BY <1>1, <1>3, <1>7, <1>10 DEF x, l, o

\* The default font stands in for f, and the user is warned
Warned(r, s, f) ==
  /\ r \in Devices /\ r.ectl = f /\ r.page = s.page /\ r.doc = s.doc
  /\ r.freeMem = s.freeMem /\ r.totSoft = s.totSoft /\ r.fontSub = TRUE

LEMMA WarnedIs ==
  ASSUME NEW s \in Devices, NEW f \in Fonts, NEW r, r = [s EXCEPT !.ectl = f, !.fontSub = TRUE]
  PROVE  Warned(r, s, f)
  <1> DEFINE t == [s EXCEPT !.ectl = f]
             yes == TRUE
  <1>1. /\ t \in Devices /\ t.ectl = f /\ t.page = s.page /\ t.doc = s.doc
        /\ t.freeMem = s.freeMem /\ t.totSoft = s.totSoft
    BY DEF Devices
  <1>2. yes \in BOOLEAN /\ r = [t EXCEPT !.fontSub = yes]
    OBVIOUS
  <1> HIDE DEF t, yes
  <1>3. Subbed(r, t, yes)
    BY <1>1, <1>2, FontSubIs
  <1> QED
    BY <1>1, <1>3 DEF yes, Subbed, Warned

LEMMA SubstituteIs ==
  ASSUME TypeOK, NEW d \in DCs, NEW f \in Fonts, Substitute(d, f)
  PROVE  \E r : /\ Prints(d, f, lru, onPage, r, [printer[d] EXCEPT !.selected = Courier])
                /\ r.freeMem = dev[d].freeMem /\ r.totSoft = dev[d].totSoft /\ r.fontSub = TRUE
  <1> DEFINE r == [dev[d] EXCEPT !.ectl = f, !.fontSub = TRUE]
             x == [printer[d] EXCEPT !.selected = Courier]
  <1>1. dev' = [dev EXCEPT ![d] = r]
    BY DevIs DEF Substitute
  <1>2. /\ lru' = lru /\ onPage' = onPage /\ dev[d].page = "text"
        /\ printer' = [printer EXCEPT ![d] = Got(d, Printed(x, f))]
    BY DEF Substitute, NeedsDownload, Receives, Got
  <1>3. Warned(r, dev[d], f)
    BY DevIs, WarnedIs
  <1>4. x \in Printers /\ x.used = printer[d].used
    BY DevIs, CourierIs
  <1> HIDE DEF r, x
  <1>5. Prints(d, f, lru, onPage, r, x)
    BY <1>1, <1>2, <1>3, <1>4, DevIs DEF Prints, Becomes, Warned
  <1> QED
    BY <1>3, <1>5 DEF x, Warned

\* There is no file for f, after a victim v has been deleted for it
Emptied(d, f, r, v) ==
  /\ Prints(d, f, [lru EXCEPT ![v] = -1], onPage, r,
            [Delete(printer[d], v) EXCEPT !.selected = Courier])
  /\ r.freeMem = dev[d].freeMem + Mem[f] - Mem[v] /\ r.totSoft = dev[d].totSoft - 1
  /\ r.fontSub = TRUE /\ Victim(v, f)

LEMMA NoFileNameIs ==
  ASSUME TypeOK, NEW d \in DCs, NEW f \in Fonts, NoFileName(d, f)
  PROVE  \/ \E r : /\ Prints(d, f, lru, onPage, r, [printer[d] EXCEPT !.selected = Courier])
                   /\ r.freeMem = dev[d].freeMem /\ r.totSoft = dev[d].totSoft
                   /\ r.fontSub = TRUE
         \/ \E r, v : Emptied(d, f, r, v)
  <1>1. f \in Temp /\ lru[f] = -1 /\ dev[d].page = "text" /\ onPage' = onPage
    BY DEF NoFileName, NeedsDownload
  <1>2. CASE /\ lru' = lru /\ dev' = [dev EXCEPT ![d].ectl = f, ![d].fontSub = TRUE]
             /\ Receives(d, Printed([printer[d] EXCEPT !.selected = Courier], f))
    <2> DEFINE r == [dev[d] EXCEPT !.ectl = f, !.fontSub = TRUE]
               x == [printer[d] EXCEPT !.selected = Courier]
    <2>1. dev' = [dev EXCEPT ![d] = r]
      BY <1>2, DevIs
    <2>2. printer' = [printer EXCEPT ![d] = Got(d, Printed(x, f))]
      BY <1>2 DEF Receives, Got
    <2>3. Warned(r, dev[d], f)
      BY DevIs, WarnedIs
    <2>4. x \in Printers /\ x.used = printer[d].used
      BY DevIs, CourierIs
    <2> HIDE DEF r, x
    <2>5. Prints(d, f, lru, onPage, r, x)
      BY <1>1, <1>2, <2>1, <2>2, <2>3, <2>4, DevIs DEF Prints, Becomes, Warned
    <2> QED
      BY <2>3, <2>5 DEF x, Warned
  <1>3. CASE \E v \in Oldest(Victims(f)) :
               /\ lru' = [lru EXCEPT ![v] = -1]
               /\ dev' = [dev EXCEPT ![d].ectl = f, ![d].fontSub = TRUE,
                            ![d].pgSoft = @ - 1, ![d].totSoft = @ - 1,
                            ![d].freeMem = @ + Mem[f] - Mem[v]]
               /\ Receives(d, Printed([Delete(printer[d], v) EXCEPT !.selected = Courier], f))
    <2>1. PICK v \in Oldest(Victims(f)) :
            /\ lru' = [lru EXCEPT ![v] = -1]
            /\ dev' = [dev EXCEPT ![d].ectl = f, ![d].fontSub = TRUE,
                         ![d].pgSoft = @ - 1, ![d].totSoft = @ - 1,
                         ![d].freeMem = @ + Mem[f] - Mem[v]]
            /\ Receives(d, Printed([Delete(printer[d], v) EXCEPT !.selected = Courier], f))
      BY <1>3
    <2>2. Victim(v, f)
      BY <1>1, VictimIs
    <2> DEFINE w == [dev[d] EXCEPT !.ectl = f, !.fontSub = TRUE]
               n == dev[d].pgSoft - 1
               mem == dev[d].freeMem + Mem[f] - Mem[v]
               tot == dev[d].totSoft - 1
               r == [w EXCEPT !.pgSoft = n, !.totSoft = tot, !.freeMem = mem]
               y == Delete(printer[d], v)
               x == [y EXCEPT !.selected = Courier]
               l == [lru EXCEPT ![v] = -1]
    <2>3. Warned(w, dev[d], f)
      BY DevIs, WarnedIs
    <2>4. n \in Int /\ mem \in Int /\ tot \in Int
      <3>1. dev[d].freeMem \in Int /\ dev[d].totSoft \in Int /\ dev[d].pgSoft \in Int
            /\ Mem[v] \in Nat /\ Mem[f] \in Nat
        BY <2>2, DevIs, MemIs, FontsApart DEF Devices, Victim
      <3> QED
        BY <3>1
    <2>5. dev' = [dev EXCEPT ![d] = r]
      BY <2>1, DevIs
    <2>6. lru' = l /\ printer' = [printer EXCEPT ![d] = Got(d, Printed(x, f))]
      BY <2>1 DEF Receives, Got
    <2>7. /\ r \in Devices /\ r.ectl = f /\ r.page = dev[d].page /\ r.doc = dev[d].doc
          /\ r.freeMem = mem /\ r.totSoft = tot /\ r.fontSub = TRUE
      <3> HIDE DEF w, n, mem, tot
      <3> QED
        BY <2>3, <2>4 DEF Devices, Warned
    <2>8. l \in Counts
      BY <2>2, DevIs, ForgetIs DEF Victim
    <2>9. x \in Printers /\ x.used = printer[d].used
      <3>1. y \in Printers /\ y.used = printer[d].used
        BY DevIs, DeleteIs
      <3> HIDE DEF y
      <3> QED
        BY <3>1, CourierIs
    <2> HIDE DEF r, x, l
    <2>10. Prints(d, f, l, onPage, r, x)
      BY <1>1, <2>5, <2>6, <2>7, <2>8, <2>9, DevIs DEF Prints, Becomes
    <2>11. Emptied(d, f, r, v)
      BY <2>2, <2>7, <2>10 DEF Emptied, x, l
    <2> QED
      BY <2>11
  <1> QED
    BY <1>2, <1>3 DEF NoFileName

-----------------------------------------------------------------------------
LEMMA PrintTyped ==
  ASSUME TypeOK, NEW d \in DCs, NEW f \in Fonts, NEW l, NEW o, NEW r, NEW x,
         Prints(d, f, l, o, r, x)
  PROVE  TypeOK'
  <1>1. /\ l \in Counts /\ o \in [Fonts -> BOOLEAN] /\ r \in Devices /\ x \in Printers
        /\ Becomes(d, l, o, r, Got(d, Printed(x, f)))
    BY DEF Prints
  <1>2. Printed(x, f) \in Printers
    BY <1>1, PrintedIs
  <1>3. Got(d, Printed(x, f)) \in Printers
    BY <1>2, GotIs
  <1> QED
    BY <1>1, <1>3, TypesStep

LEMMA StringIs ==
  ASSUME TypeOK, NEW d \in DCs, NEW f \in Fonts, PrintString(d, f)
  PROVE  \E l, o, r, x : Prints(d, f, l, o, r, x)
  <1>1. CASE PrintAgain(d, f)
    BY <1>1, PrintAgainIs
  <1>2. CASE SelectLoaded(d, f)
    BY <1>2, SelectLoadedIs
  <1>3. CASE Download(d, f)
    BY <1>3, DownloadIs
  <1>4. CASE DownloadOver(d, f)
    BY <1>4, DownloadOverIs
  <1>5. CASE Substitute(d, f)
    BY <1>5, SubstituteIs
  <1>6. CASE NoFileName(d, f)
    BY <1>6, NoFileNameIs DEF Emptied
  <1> QED
    BY <1>1, <1>2, <1>3, <1>4, <1>5, <1>6 DEF PrintString

\* Type correctness of the font summary, the device contexts and their printers:
\* for any number of device contexts, any fonts and any memory.
THEOREM FontsTypes == Spec => []TypeOK
  <1>1. Init => TypeOK
    <2> SUFFICES ASSUME Init PROVE TypeOK
      OBVIOUS
    <2>1. lru = NoCounts /\ onPage = NoPages
      BY DEF Init, NoCounts, NoPages
    <2>2. NewDevice \in Devices
      BY HpFontsAssumption DEF NewDevice, Devices
    <2>3. dev \in [DCs -> Devices] /\ printer \in [DCs -> Printers]
      BY <2>2, NothingIs DEF Init
    <2> QED
      BY <2>1, <2>3, NothingIs, TypesAre
  <1>2. TypeOK /\ [Next]_vars => TypeOK'
    <2> SUFFICES ASSUME TypeOK, [Next]_vars PROVE TypeOK'
      OBVIOUS
    <2>1. CASE UNCHANGED vars
      BY <2>1 DEF TypeOK, vars
    <2>2. ASSUME NEW d \in DCs, StartDoc(d)
          PROVE  TypeOK'
      BY <2>2, StartDocIs, NothingIs, TypesStep DEF Starts
    <2>3. ASSUME NEW d \in DCs, NewFrame(d)
          PROVE  TypeOK'
      BY <2>3, NewFrameIs, DevIs, TypesStep DEF Scans
    <2>4. ASSUME NEW d \in DCs, StartPage(d)
          PROVE  TypeOK'
      BY <2>4, StartPageIs, DevIs, TypesStep
    <2>5. ASSUME NEW d \in DCs, EndPage(d)
          PROVE  TypeOK'
      BY <2>5, EndPageIs, DevIs, TypesStep
    <2>6. ASSUME NEW d \in DCs, WriteFails(d) \/ EndDoc(d)
          PROVE  TypeOK'
      BY <2>6, EndsIs, DevIs, TypesStep
    <2>7. ASSUME NEW d \in DCs, NEW f \in Fonts, PrintString(d, f)
          PROVE  TypeOK'
      BY <2>7, StringIs, PrintTyped
    <2> QED
      BY <2>1, <2>2, <2>3, <2>4, <2>5, <2>6, <2>7 DEF Next
  <1> QED
    BY <1>1, <1>2, PTL DEF Spec
-----------------------------------------------------------------------------
(* What the driver believes and what is so.  The summary says what is in   *)
(* the printer of the one device context.  With two of them, the downloads *)
(* of one are remembered for the other (the summary is shared because it   *)
(* is thought to be read-only, fontman.c): then none of this is true.      *)

OneDC == \A d, e \in DCs : d = e

\* The user has downloaded no more permanent fonts than the printer holds
PermFits == Cardinality(Perm) <= MaxSoft

\* A string came out in its font, or it is known why not
Handed(r, p) ==
  /\ p.want = NoFont => p.got = NoFont
  /\ p.want # NoFont =>
       p.got = p.want \/ p.want \in NoFile \/ (p.got = Courier /\ (r.doc = "ok" => r.fontSub))

\* The fonts of the summary that have a file are those in the printer.  On a
\* page, those that were used are marked, and so is the font that is selected,
\* which is the one the driver asked for last.
Sent(l, o, r, p) ==
  /\ p.loaded = {f \in Temp : l[f] # -1} \ NoFile
  /\ r.page = "none" => p.used = {}
  /\ r.page = "text" =>
       /\ \A f \in p.used \cap Temp : o[f]
       /\ r.ectl # NoFont /\ p.selected \in Temp => p.selected \in p.loaded /\ o[p.selected]
       /\ \/ r.ectl = NoFont \/ r.ectl \in NoFile \/ p.selected = r.ectl
          \/ p.selected = Courier /\ r.fontSub

\* The counters are on the safe side of what the fonts of the summary take
Fits(l, r) ==
  /\ Cardinality(Held(l)) <= r.totSoft
  /\ PermFits => Cardinality(Held(l)) <= MaxSoft
  /\ r.freeMem + MemOf(Held(l)) <= AvailMem
  /\ MINMEM + MemOf(Held(l)) <= AvailMem

DeviceOK(l, o, r, p) ==
  /\ r.doc = "none" => r.page = "none"
  /\ 0 <= r.totSoft
  /\ p.used \cap Temp \subseteq p.loaded
  /\ Handed(r, p)
  /\ r.doc = "ok" => Sent(l, o, r, p)
  /\ r.doc # "none" => Fits(l, r)

Inv == TypeOK /\ \A d \in DCs : DeviceOK(lru, onPage, dev[d], printer[d])

LEMMA InvStep ==
  ASSUME Inv, OneDC, TypeOK', NEW d \in DCs, NEW l, NEW o, NEW r, NEW p,
         Becomes(d, l, o, r, p), DeviceOK(l, o, r, p)
  PROVE  Inv'
  <1>1. /\ dev \in [DCs -> Devices] /\ printer \in [DCs -> Printers]
        /\ dev' = [dev EXCEPT ![d] = r] /\ printer' = [printer EXCEPT ![d] = p]
        /\ lru' = l /\ onPage' = o
    BY TypesAre DEF Inv, Becomes
  <1>2. dev'[d] = r /\ printer'[d] = p
    BY <1>1
  <1>3. \A e \in DCs : e = d
    BY DEF OneDC
  <1>4. \A e \in DCs : DeviceOK(lru', onPage', dev'[e], printer'[e])
    BY <1>1, <1>2, <1>3
  <1> QED
    BY <1>4 DEF Inv, DeviceOK, Handed, Sent, Fits

-----------------------------------------------------------------------------
(* The fonts in the printer after a call.                                  *)

\* What the fonts of the summary take when f is loaded ...
LEMMA HeldMore ==
  ASSUME NEW l \in Counts, NEW f \in Temp, l[f] = -1
  PROVE  /\ Held(Touch(l, f)) = Held(l) \cup {f} /\ f \notin Held(l)
         /\ Cardinality(Held(Touch(l, f))) = Cardinality(Held(l)) + 1
         /\ MemOf(Held(Touch(l, f))) = MemOf(Held(l)) + Mem[f]
  <1>1. Held(Touch(l, f)) = Held(l) \cup {f} /\ f \notin Held(l) /\ f \in Fonts
    BY FontsApart, TouchIs DEF Held
  <1> QED
    BY <1>1, HeldIs, FS_AddElement, MemOfAdd

\* ... and when v is deleted.
LEMMA HeldLess ==
  ASSUME NEW l \in Counts, NEW v \in Temp, l[v] # -1, NEW k, k = [l EXCEPT ![v] = -1]
  PROVE  /\ Held(k) = Held(l) \ {v}
         /\ Cardinality(Held(k)) = Cardinality(Held(l)) - 1
         /\ MemOf(Held(k)) = MemOf(Held(l)) - Mem[v]
  <1>1. Held(k) = Held(l) \ {v} /\ v \in Held(l) /\ v \in Fonts
    BY FontsApart, ForgetIs DEF Held
  <1>2. MemOf(Held(l)) = Mem[v] + MemOf(Held(k)) /\ MemOf(Held(k)) \in Nat /\ Mem[v] \in Nat
    BY <1>1, HeldIs, MemOfRemove, MemIs
  <1>3. Cardinality(Held(k)) = Cardinality(Held(l)) - 1
    BY <1>1, HeldIs, FS_RemoveElement
  <1>4. MemOf(Held(k)) = MemOf(Held(l)) - Mem[v]
    BY <1>2
  <1> QED
    BY <1>1, <1>3, <1>4

LEMMA HeldSame ==
  ASSUME NEW l \in Counts, NEW f \in Held(l)
  PROVE  Held(Touch(l, f)) = Held(l)
  BY FontsApart, TouchIs DEF Held

\* A string is printed: what has to hold of the printer's state x before it.
Legible(l, o, r, x, f) ==
  /\ x.loaded = {g \in Temp : l[g] # -1} \ NoFile
  /\ \A g \in x.used \cap Temp : o[g] /\ g \in x.loaded
  /\ x.selected \in Temp => x.selected \in x.loaded /\ o[x.selected]
  /\ f \in NoFile \/ x.selected = f \/ (x.selected = Courier /\ r.fontSub)

LEMMA PrintKeeps ==
  ASSUME Inv, OneDC, NEW d \in DCs, NEW f \in Fonts, NEW l, NEW o, NEW r, NEW x,
         Prints(d, f, l, o, r, x), 0 <= r.totSoft, Fits(l, r),
         dev[d].doc = "ok" => Legible(l, o, r, x, f)
  PROVE  Inv'
  <1> DEFINE q == Printed(x, f)
             p == Got(d, q)
             s == printer[d]
  <1>1. /\ TypeOK /\ dev[d] \in Devices /\ s \in Printers
        /\ DeviceOK(lru, onPage, dev[d], s)
    BY DevIs DEF Inv
  <1>2. /\ x \in Printers /\ Becomes(d, l, o, r, p) /\ x.used = s.used
        /\ r.doc = dev[d].doc /\ dev[d].page = "text" /\ r.page = "text" /\ r.ectl = f
    BY DEF Prints
  <1>3. TypeOK'
    BY <1>1, PrintTyped
  <1>4. r.doc # "none"
    BY <1>1, <1>2 DEF DeviceOK
  <1>5. DeviceOK(l, o, r, p)
    <2>1. CASE dev[d].doc = "ok"
      <3>1. p = q /\ q = Printed(x, f) /\ r.doc = "ok"
        BY <1>2, <2>1 DEF Got
      <3> HIDE DEF q, p, s
      <3>2. /\ q \in Printers /\ q.loaded = x.loaded /\ q.selected = x.selected
            /\ q.used = x.used \cup {x.selected} /\ q.want = f /\ q.got = x.selected
        BY <1>2, <3>1, PrintedIs
      <3>3. Legible(l, o, r, x, f)
        BY <2>1
      <3>4. Handed(r, q)
        BY <3>2, <3>3, FontsApart DEF Handed, Legible
      <3>5. Sent(l, o, r, q)
        BY <1>2, <3>2, <3>3 DEF Sent, Legible
      <3>6. q.used \cap Temp \subseteq q.loaded
        BY <3>2, <3>3 DEF Legible
      <3> QED
        BY <1>4, <3>1, <3>4, <3>5, <3>6 DEF DeviceOK
    <2>2. CASE dev[d].doc # "ok"
      <3>1. p = s /\ r.doc # "ok"
        BY <1>2, <2>2 DEF Got
      <3> HIDE DEF q, p, s
      <3>2. Handed(r, s)
        BY <1>1, <3>1 DEF Handed, DeviceOK
      <3>3. s.used \cap Temp \subseteq s.loaded
        BY <1>1 DEF DeviceOK
      <3> QED
        BY <1>4, <3>1, <3>2, <3>3 DEF DeviceOK
    <2> QED
      BY <2>1, <2>2
  <1> HIDE DEF p, q, s
  <1> QED
    BY <1>2, <1>3, <1>5, InvStep
-----------------------------------------------------------------------------
(* Every step keeps the invariant.                                         *)

LEMMA AtDevice ==
  ASSUME Inv, NEW d \in DCs
  PROVE  /\ TypeOK /\ dev[d] \in Devices /\ printer[d] \in Printers
         /\ lru \in Counts /\ onPage \in [Fonts -> BOOLEAN]
         /\ DeviceOK(lru, onPage, dev[d], printer[d])
         /\ dev[d].freeMem \in Int /\ dev[d].totSoft \in Int
  BY DevIs DEF Inv, Devices

LEMMA AgainKeeps ==
  ASSUME Inv, OneDC, NEW d \in DCs, NEW f \in Fonts, PrintAgain(d, f)
  PROVE  Inv'
  <1> DEFINE r == dev[d]
             x == printer[d]
  <1>1. TypeOK /\ DeviceOK(lru, onPage, r, x)
    BY AtDevice
  <1>2. Prints(d, f, lru, onPage, r, x) /\ r.ectl = f
    BY <1>1, PrintAgainIs
  <1>3. f # NoFont
    BY FontsApart
  <1> HIDE DEF r, x
  <1>4. r.page = "text" /\ r.doc # "none"
    BY <1>1, <1>2 DEF DeviceOK, Prints
  <1>5. 0 <= r.totSoft /\ Fits(lru, r)
    BY <1>1, <1>4 DEF DeviceOK
  <1>6. ASSUME dev[d].doc = "ok"
        PROVE  Legible(lru, onPage, r, x, f)
    <2>1. Sent(lru, onPage, r, x) /\ x.used \cap Temp \subseteq x.loaded
      BY <1>1, <1>6 DEF DeviceOK, r
    <2> QED
      BY <1>2, <1>3, <1>4, <2>1 DEF Sent, Legible
  <1> QED
    BY <1>2, <1>5, <1>6, PrintKeeps

LEMMA SelectLoadedKeeps ==
  ASSUME Inv, OneDC, NEW d \in DCs, NEW f \in Fonts, SelectLoaded(d, f)
  PROVE  Inv'
  <1> DEFINE p == printer[d]
             l == Touch(lru, f)
             o == [onPage EXCEPT ![f] = TRUE]
             x == SelectId(p, f)
  <1>1. TypeOK /\ DeviceOK(lru, onPage, dev[d], p) /\ p \in Printers /\ lru \in Counts
    BY AtDevice
  <1>2. PICK r : Prints(d, f, l, o, r, x) /\ Same(r, dev[d]) /\ f \in Held(lru)
    BY <1>1, SelectLoadedIs
  <1>3. Held(l) = Held(lru)
    BY <1>1, <1>2, HeldSame
  <1>4. o[f] = TRUE /\ \A g \in Fonts : onPage[g] => o[g]
    BY AtDevice, OnPageIs
  <1>5. {g \in Temp : l[g] # -1} = {g \in Temp : lru[g] # -1}
    BY <1>3, FontsApart DEF Held
  <1>6. /\ x \in Printers /\ x.loaded = p.loaded /\ x.used = p.used
        /\ f \in p.loaded \cup Perm => x.selected = f
        /\ f \notin p.loaded \cup Perm => x.selected = Missing
    BY <1>1, SelectIdIs
  <1> HIDE DEF l, o, x, p
  <1>7. dev[d].page = "text" /\ dev[d].doc # "none"
    BY <1>1, <1>2 DEF DeviceOK, Prints
  <1>8. 0 <= r.totSoft /\ Fits(l, r)
    BY <1>1, <1>2, <1>3, <1>7 DEF DeviceOK, Same, Fits
  <1>9. ASSUME dev[d].doc = "ok"
        PROVE  Legible(l, o, r, x, f)
    <2>1. Sent(lru, onPage, dev[d], p) /\ p.used \cap Temp \subseteq p.loaded
      BY <1>1, <1>9 DEF DeviceOK
    <2>2. x.loaded = {g \in Temp : l[g] # -1} \ NoFile
      BY <1>5, <1>6, <2>1 DEF Sent
    <2>3. \A g \in x.used \cap Temp : o[g] /\ g \in x.loaded
      BY <1>4, <1>6, <1>7, <2>1, FontsApart DEF Sent
    <2>4. f \in NoFile \/ x.selected = f
      BY <1>2, <1>6, <2>1 DEF Sent, Held
    <2>5. x.selected \in Temp => x.selected \in x.loaded /\ o[x.selected]
      BY <1>4, <1>6, FontsApart
    <2> QED
      BY <2>2, <2>3, <2>4, <2>5 DEF Legible
  <1> QED
    BY <1>2, <1>8, <1>9, PrintKeeps

LEMMA DownloadKeeps ==
  ASSUME Inv, OneDC, NEW d \in DCs, NEW f \in Fonts, Download(d, f)
  PROVE  Inv'
  <1> DEFINE p == printer[d]
             l == Touch(lru, f)
             o == [onPage EXCEPT ![f] = TRUE]
             x == Load(p, f)
  <1>1. /\ TypeOK /\ DeviceOK(lru, onPage, dev[d], p) /\ p \in Printers /\ lru \in Counts
        /\ dev[d].freeMem \in Int /\ dev[d].totSoft \in Int
    BY AtDevice
  <1>2. PICK r : /\ Prints(d, f, l, o, r, x)
                 /\ r.freeMem = dev[d].freeMem - Mem[f] /\ r.totSoft = dev[d].totSoft + 1
                 /\ f \in Temp /\ lru[f] = -1
                 /\ dev[d].freeMem >= Mem[f] + MINMEM /\ dev[d].totSoft < MaxSoft
    BY <1>1, DownloadIs
  <1>3. /\ Held(l) = Held(lru) \cup {f}
        /\ Cardinality(Held(l)) = Cardinality(Held(lru)) + 1
        /\ MemOf(Held(l)) = MemOf(Held(lru)) + Mem[f]
    BY <1>1, <1>2, HeldMore
  <1>4. o[f] = TRUE /\ \A g \in Fonts : onPage[g] => o[g]
    BY AtDevice, OnPageIs
  <1>5. {g \in Temp : l[g] # -1} = {g \in Temp : lru[g] # -1} \cup {f}
    BY <1>2, <1>3, FontsApart DEF Held
  <1>6. /\ x \in Printers /\ x.used = p.used
        /\ f \notin NoFile => x.loaded = p.loaded \cup {f} /\ x.selected = f
        /\ f \in NoFile => x.loaded = p.loaded /\ x.selected \in {f, Missing}
        /\ x.selected = f => f \in x.loaded
    BY <1>1, <1>2, LoadIs
  <1> HIDE DEF l, o, x, p
  <1>7. dev[d].page = "text" /\ dev[d].doc # "none"
    BY <1>1, <1>2 DEF DeviceOK, Prints
  <1>8. 0 <= r.totSoft /\ Fits(l, r)
    <2>1. /\ Mem[f] \in Nat /\ MINMEM \in Nat /\ MaxSoft \in Nat /\ AvailMem \in Nat
          /\ Cardinality(Held(lru)) \in Nat /\ MemOf(Held(lru)) \in Nat
      BY MemIs, HpFontsAssumption, HeldIs
    <2>2. 0 <= dev[d].totSoft /\ Fits(lru, dev[d])
      BY <1>1, <1>7 DEF DeviceOK
    <2> QED
      BY <1>1, <1>2, <1>3, <2>1, <2>2 DEF Fits
  <1>9. ASSUME dev[d].doc = "ok"
        PROVE  Legible(l, o, r, x, f)
    <2>1. Sent(lru, onPage, dev[d], p) /\ p.used \cap Temp \subseteq p.loaded
      BY <1>1, <1>9 DEF DeviceOK
    <2>2. x.loaded = {g \in Temp : l[g] # -1} \ NoFile
      BY <1>5, <1>6, <2>1 DEF Sent
    <2>3. \A g \in x.used \cap Temp : o[g] /\ g \in x.loaded
      BY <1>4, <1>6, <1>7, <2>1, FontsApart DEF Sent
    <2>4. f \in NoFile \/ x.selected = f
      BY <1>6
    <2>5. x.selected \in Temp => x.selected \in x.loaded /\ o[x.selected]
      BY <1>4, <1>6, FontsApart
    <2> QED
      BY <2>2, <2>3, <2>4, <2>5 DEF Legible
  <1> QED
    BY <1>2, <1>8, <1>9, PrintKeeps

LEMMA DownloadOverKeeps ==
  ASSUME Inv, OneDC, NEW d \in DCs, NEW f \in Fonts, DownloadOver(d, f)
  PROVE  Inv'
  <1>1. /\ TypeOK /\ DeviceOK(lru, onPage, dev[d], printer[d]) /\ printer[d] \in Printers
        /\ lru \in Counts /\ dev[d].freeMem \in Int /\ dev[d].totSoft \in Int
    BY AtDevice
  <1>2. PICK r, v : /\ Prints(d, f, Touch([lru EXCEPT ![v] = -1], f), [onPage EXCEPT ![f] = TRUE],
                             r, Load(Delete(printer[d], v), f))
                    /\ r.freeMem = dev[d].freeMem - Mem[v] /\ r.totSoft = dev[d].totSoft
                    /\ f \in Temp /\ lru[f] = -1 /\ Victim(v, f)
    BY <1>1, DownloadOverIs
  <1> DEFINE p == printer[d]
             k == [lru EXCEPT ![v] = -1]
             l == Touch(k, f)
             o == [onPage EXCEPT ![f] = TRUE]
             y == Delete(p, v)
             x == Load(y, f)
  <1>3. k \in Counts /\ v \in Temp /\ lru[v] # -1 /\ k[f] = -1 /\ v # f /\ ~onPage[v]
        /\ Mem[f] <= Mem[v] /\ f \in Fonts /\ v \in Fonts
    BY <1>1, <1>2, ForgetIs, FontsApart DEF Victim
  <1>4. /\ Held(k) = Held(lru) \ {v}
        /\ Cardinality(Held(k)) = Cardinality(Held(lru)) - 1
        /\ MemOf(Held(k)) = MemOf(Held(lru)) - Mem[v]
    BY <1>1, <1>3, HeldLess
  <1> HIDE DEF k
  <1>5. /\ Held(l) = Held(k) \cup {f}
        /\ Cardinality(Held(l)) = Cardinality(Held(k)) + 1
        /\ MemOf(Held(l)) = MemOf(Held(k)) + Mem[f]
    BY <1>2, <1>3, HeldMore
  <1>6. o[f] = TRUE /\ \A g \in Fonts : onPage[g] => o[g]
    BY AtDevice, OnPageIs
  <1>7. {g \in Temp : l[g] # -1} = ({g \in Temp : lru[g] # -1} \ {v}) \cup {f}
    BY <1>2, <1>3, <1>4, <1>5, FontsApart DEF Held
  <1>8. y \in Printers /\ y.loaded = p.loaded \ {v} /\ y.used = p.used
    BY <1>1, DeleteIs
  <1> HIDE DEF y
  <1>9. /\ x \in Printers /\ x.used = y.used
        /\ f \notin NoFile => x.loaded = y.loaded \cup {f} /\ x.selected = f
        /\ f \in NoFile => x.loaded = y.loaded /\ x.selected \in {f, Missing}
        /\ x.selected = f => f \in x.loaded
    BY <1>2, <1>8, LoadIs
  <1>10. Prints(d, f, l, o, r, x)
    BY <1>2 DEF k, y
  <1> HIDE DEF l, o, x, p
  <1>11. dev[d].page = "text" /\ dev[d].doc # "none"
    BY <1>1, <1>10 DEF DeviceOK, Prints
  <1>12. 0 <= r.totSoft /\ Fits(l, r)
    <2>1. /\ Mem[f] \in Nat /\ Mem[v] \in Nat /\ MINMEM \in Nat /\ MaxSoft \in Nat
          /\ AvailMem \in Nat
          /\ Cardinality(Held(lru)) \in Nat /\ MemOf(Held(lru)) \in Nat
      BY <1>3, MemIs, HpFontsAssumption, HeldIs
    <2>2. 0 <= dev[d].totSoft /\ Fits(lru, dev[d])
      BY <1>1, <1>11 DEF DeviceOK
    <2>3. /\ Cardinality(Held(l)) = Cardinality(Held(lru))
          /\ MemOf(Held(l)) = MemOf(Held(lru)) - Mem[v] + Mem[f]
      BY <1>4, <1>5, <2>1
    <2> QED
      BY <1>1, <1>2, <1>3, <2>1, <2>2, <2>3 DEF Fits
  <1>13. ASSUME dev[d].doc = "ok"
         PROVE  Legible(l, o, r, x, f)
    <2>1. Sent(lru, onPage, dev[d], p) /\ p.used \cap Temp \subseteq p.loaded
      BY <1>1, <1>13 DEF DeviceOK, p
    <2>2. x.loaded = {g \in Temp : l[g] # -1} \ NoFile
      BY <1>3, <1>7, <1>8, <1>9, <2>1 DEF Sent
    <2>3. \A g \in p.used \cap Temp : onPage[g] /\ g \in p.loaded
      BY <1>11, <2>1 DEF Sent
    <2>4. \A g \in x.used \cap Temp : o[g] /\ g \in x.loaded
      BY <1>3, <1>6, <1>8, <1>9, <2>3, FontsApart
    <2>5. x.selected \in Temp => x.selected \in x.loaded /\ o[x.selected]
      BY <1>6, <1>9, FontsApart
    <2> QED
      BY <1>9, <2>2, <2>4, <2>5 DEF Legible
  <1> QED
    BY <1>10, <1>12, <1>13, PrintKeeps
\* The default font stands in, and nothing else changes.
LEMMA CourierKeeps ==
  ASSUME Inv, OneDC, NEW d \in DCs, NEW f \in Fonts, NEW r,
         Prints(d, f, lru, onPage, r, [printer[d] EXCEPT !.selected = Courier]),
         r.freeMem = dev[d].freeMem, r.totSoft = dev[d].totSoft, r.fontSub = TRUE
  PROVE  Inv'
  <1> DEFINE p == printer[d]
             x == [p EXCEPT !.selected = Courier]
  <1>1. TypeOK /\ DeviceOK(lru, onPage, dev[d], p) /\ p \in Printers
    BY AtDevice
  <1>2. x \in Printers /\ x.loaded = p.loaded /\ x.used = p.used /\ x.selected = Courier
    BY <1>1, CourierIs
  <1>3. Prints(d, f, lru, onPage, r, x)
    OBVIOUS
  <1> HIDE DEF p, x
  <1>4. dev[d].page = "text" /\ dev[d].doc # "none"
    BY <1>1, <1>3 DEF DeviceOK, Prints
  <1>5. 0 <= r.totSoft /\ Fits(lru, r)
    BY <1>1, <1>4 DEF DeviceOK, Fits
  <1>6. ASSUME dev[d].doc = "ok"
        PROVE  Legible(lru, onPage, r, x, f)
    <2>1. Sent(lru, onPage, dev[d], p) /\ p.used \cap Temp \subseteq p.loaded
      BY <1>1, <1>6 DEF DeviceOK
    <2> QED
      BY <1>2, <1>4, <2>1, FontsApart DEF Sent, Legible
  <1> QED
    BY <1>3, <1>5, <1>6, PrintKeeps

LEMMA EmptiedKeeps ==
  ASSUME Inv, OneDC, NEW d \in DCs, NEW f \in Fonts, NEW r, NEW v, Emptied(d, f, r, v)
  PROVE  Inv'
  <1>1. /\ TypeOK /\ DeviceOK(lru, onPage, dev[d], printer[d]) /\ printer[d] \in Printers
        /\ lru \in Counts /\ dev[d].freeMem \in Int /\ dev[d].totSoft \in Int
    BY AtDevice
  <1> DEFINE p == printer[d]
             k == [lru EXCEPT ![v] = -1]
             y == Delete(p, v)
             x == [y EXCEPT !.selected = Courier]
  <1>2. v \in Temp /\ lru[v] # -1 /\ ~onPage[v] /\ Mem[f] <= Mem[v] /\ v \in Fonts
    BY FontsApart DEF Emptied, Victim
  <1>3. /\ Held(k) = Held(lru) \ {v}
        /\ Cardinality(Held(k)) = Cardinality(Held(lru)) - 1
        /\ MemOf(Held(k)) = MemOf(Held(lru)) - Mem[v]
    BY <1>1, <1>2, HeldLess
  <1>4. {g \in Temp : k[g] # -1} = {g \in Temp : lru[g] # -1} \ {v}
    BY <1>3, FontsApart DEF Held
  <1>5. y \in Printers /\ y.loaded = p.loaded \ {v} /\ y.used = p.used
    BY <1>1, DeleteIs
  <1>6. x \in Printers /\ x.loaded = y.loaded /\ x.used = y.used /\ x.selected = Courier
    <2> HIDE DEF y
    <2> QED
      BY <1>5, CourierIs
  <1>7. /\ Prints(d, f, k, onPage, r, x) /\ r.fontSub = TRUE
        /\ r.freeMem = dev[d].freeMem + Mem[f] - Mem[v] /\ r.totSoft = dev[d].totSoft - 1
    BY DEF Emptied
  <1> HIDE DEF p, k, y, x
  <1>8. dev[d].page = "text" /\ dev[d].doc # "none"
    BY <1>1, <1>7 DEF DeviceOK, Prints
  <1>9. 0 <= r.totSoft /\ Fits(k, r)
    <2>1. /\ Mem[f] \in Nat /\ Mem[v] \in Nat /\ MINMEM \in Nat /\ MaxSoft \in Nat
          /\ AvailMem \in Nat
          /\ Cardinality(Held(lru)) \in Nat /\ MemOf(Held(lru)) \in Nat
          /\ Cardinality(Held(k)) \in Nat
      BY <1>2, MemIs, HpFontsAssumption, HeldIs
    <2>2. Fits(lru, dev[d])
      BY <1>1, <1>8 DEF DeviceOK
    <2> QED
      BY <1>1, <1>2, <1>3, <1>7, <2>1, <2>2 DEF Fits
  <1>10. ASSUME dev[d].doc = "ok"
         PROVE  Legible(k, onPage, r, x, f)
    <2>1. Sent(lru, onPage, dev[d], p) /\ p.used \cap Temp \subseteq p.loaded
      BY <1>1, <1>10 DEF DeviceOK, p
    <2>2. x.loaded = {g \in Temp : k[g] # -1} \ NoFile
      BY <1>4, <1>5, <1>6, <2>1 DEF Sent
    <2>3. \A g \in p.used \cap Temp : onPage[g] /\ g \in p.loaded
      BY <1>8, <2>1 DEF Sent
    <2>4. \A g \in x.used \cap Temp : onPage[g] /\ g \in x.loaded
      BY <1>2, <1>5, <1>6, <2>3
    <2> QED
      BY <1>6, <1>7, <2>2, <2>4, FontsApart DEF Legible
  <1> QED
    BY <1>7, <1>9, <1>10, PrintKeeps

LEMMA StringKeeps ==
  ASSUME Inv, OneDC, NEW d \in DCs, NEW f \in Fonts, PrintString(d, f)
  PROVE  Inv'
  <1>0. TypeOK
    BY AtDevice
  <1>1. CASE PrintAgain(d, f)
    BY <1>1, AgainKeeps
  <1>2. CASE SelectLoaded(d, f)
    BY <1>2, SelectLoadedKeeps
  <1>3. CASE Download(d, f)
    BY <1>3, DownloadKeeps
  <1>4. CASE DownloadOver(d, f)
    BY <1>4, DownloadOverKeeps
  <1>5. CASE Substitute(d, f)
    BY <1>0, <1>5, SubstituteIs, CourierKeeps
  <1>6. CASE NoFileName(d, f)
    BY <1>0, <1>6, NoFileNameIs, CourierKeeps, EmptiedKeeps
  <1> QED
    BY <1>1, <1>2, <1>3, <1>4, <1>5, <1>6 DEF PrintString

\* A new document has nothing in the printer but the permanent fonts.
LEMMA StartDocKeeps ==
  ASSUME Inv, OneDC, TypeOK', NEW d \in DCs, StartDoc(d)
  PROVE  Inv'
  <1>1. /\ TypeOK /\ DeviceOK(lru, onPage, dev[d], printer[d]) /\ dev[d].totSoft \in Int
    BY AtDevice
  <1>2. PICK r \in Devices : Starts(d, r)
    BY <1>1, StartDocIs
  <1>3. /\ Becomes(d, NoCounts, NoPages, r, NewPrinter) /\ dev[d].doc = "none"
        /\ r.page = dev[d].page /\ r.doc \in {"none", "ok"}
        /\ r.freeMem = AvailMem - MemOf(Perm) /\ r.totSoft = dev[d].totSoft + Cardinality(Perm)
        /\ r.doc = "ok" => r.freeMem >= MINMEM
    BY <1>2 DEF Starts
  <1>4. 0 <= dev[d].totSoft /\ dev[d].page = "none"
    BY <1>1, <1>3 DEF DeviceOK
  <1>5. \A f \in Temp : NoCounts[f] = -1
    BY FontsApart DEF NoCounts
  <1>6. Held(NoCounts) = Perm
    BY <1>5 DEF Held
  <1>7. MemOf(Perm) \in Nat /\ Cardinality(Perm) \in Nat /\ AvailMem \in Nat /\ MINMEM \in Nat
    BY <1>6, HeldIs, HpFontsAssumption
  <1>8. r.doc = "ok" => Fits(NoCounts, r)
    BY <1>1, <1>3, <1>4, <1>6, <1>7 DEF Fits, PermFits
  <1>9. /\ NewPrinter.loaded = {} /\ NewPrinter.used = {} /\ NewPrinter.want = NoFont
        /\ NewPrinter.got = NoFont
    BY DEF NewPrinter
  <1>10. Handed(r, NewPrinter)
    BY <1>9 DEF Handed
  <1>11. Sent(NoCounts, NoPages, r, NewPrinter)
    BY <1>3, <1>4, <1>5, <1>9 DEF Sent
  <1>12. DeviceOK(NoCounts, NoPages, r, NewPrinter)
    BY <1>1, <1>3, <1>4, <1>7, <1>8, <1>9, <1>10, <1>11 DEF DeviceOK
  <1> QED
    BY <1>3, <1>12, InvStep

LEMMA NewFrameKeeps ==
  ASSUME Inv, OneDC, TypeOK', NEW d \in DCs, NewFrame(d)
  PROVE  Inv'
  <1> DEFINE p == printer[d]
  <1>1. TypeOK /\ DeviceOK(lru, onPage, dev[d], p) /\ dev[d].totSoft \in Int
    BY AtDevice
  <1>2. PICK r \in Devices, o \in [Fonts -> BOOLEAN] : Scans(d, o, r)
    BY <1>1, NewFrameIs
  <1>3. /\ Becomes(d, lru, o, r, p) /\ dev[d].doc # "none" /\ dev[d].page = "none"
        /\ r.doc = dev[d].doc /\ r.page = "none" /\ r.fontSub = dev[d].fontSub
        /\ r.freeMem = AvailMem - MemOf(Held(lru))
        /\ r.totSoft = dev[d].totSoft + Cardinality(Held(lru))
    BY <1>2 DEF Scans
  <1> HIDE DEF p
  <1>4. 0 <= dev[d].totSoft /\ Fits(lru, dev[d])
    BY <1>1, <1>3 DEF DeviceOK
  <1>5. MemOf(Held(lru)) \in Nat /\ Cardinality(Held(lru)) \in Nat /\ AvailMem \in Nat
    BY HeldIs, HpFontsAssumption
  <1>6. 0 <= r.totSoft /\ Fits(lru, r)
    BY <1>1, <1>3, <1>4, <1>5 DEF Fits
  <1>7. Handed(r, p) /\ p.used \cap Temp \subseteq p.loaded
    BY <1>1, <1>3 DEF DeviceOK, Handed
  <1>8. r.doc = "ok" => Sent(lru, o, r, p)
    BY <1>1, <1>3 DEF DeviceOK, Sent
  <1>9. DeviceOK(lru, o, r, p)
    BY <1>3, <1>6, <1>7, <1>8 DEF DeviceOK
  <1> QED
    BY <1>3, <1>9, InvStep

LEMMA PageKeeps ==
  ASSUME Inv, OneDC, TypeOK', NEW d \in DCs, StartPage(d) \/ EndPage(d)
  PROVE  Inv'
  <1> DEFINE p == printer[d]
  <1>1. TypeOK /\ DeviceOK(lru, onPage, dev[d], p)
    BY AtDevice
  <1>2. PICK r, q :
          /\ Becomes(d, lru, onPage, r, q) /\ dev[d].doc = "ok" /\ r.doc = "ok"
          /\ Same(r, dev[d]) /\ q.loaded = p.loaded /\ q.used = {}
          /\ r.page = "text" => r.ectl = NoFont
          /\ \/ q.want = NoFont /\ q.got = NoFont
             \/ q.want = p.want /\ q.got = p.got
    <2>1. CASE StartPage(d)
      BY <1>1, <2>1, StartPageIs
    <2>2. CASE EndPage(d)
      BY <1>1, <2>2, EndPageIs
    <2> QED
      BY <2>1, <2>2
  <1> HIDE DEF p
  <1>3. 0 <= r.totSoft /\ Fits(lru, r)
    BY <1>1, <1>2 DEF DeviceOK, Same, Fits
  <1>4. Handed(r, q)
    BY <1>1, <1>2 DEF DeviceOK, Handed, Same
  <1>5. Sent(lru, onPage, r, q)
    BY <1>1, <1>2 DEF DeviceOK, Sent
  <1>6. DeviceOK(lru, onPage, r, q)
    BY <1>2, <1>3, <1>4, <1>5 DEF DeviceOK
  <1> QED
    BY <1>2, <1>6, InvStep

LEMMA EndsKeeps ==
  ASSUME Inv, OneDC, TypeOK', NEW d \in DCs, WriteFails(d) \/ EndDoc(d)
  PROVE  Inv'
  <1> DEFINE p == printer[d]
  <1>1. TypeOK /\ DeviceOK(lru, onPage, dev[d], p)
    BY AtDevice
  <1>2. PICK r : /\ Becomes(d, lru, onPage, r, p) /\ r.totSoft = dev[d].totSoft
                 /\ r.doc # "ok" /\ (r.doc = "none" => r.page = "none")
                 /\ r.doc # "none" => dev[d].doc # "none" /\ r.freeMem = dev[d].freeMem
    BY <1>1, EndsIs
  <1> HIDE DEF p
  <1>3. DeviceOK(lru, onPage, r, p)
    BY <1>1, <1>2 DEF DeviceOK, Handed, Fits
  <1> QED
    BY <1>2, <1>3, InvStep

LEMMA FontsInv == ASSUME OneDC PROVE Spec => []Inv
  <1>1. Init => Inv
    <2> SUFFICES ASSUME Init PROVE Inv
      OBVIOUS
    <2>1. TypeOK
      <3>1. lru = NoCounts /\ onPage = NoPages
        BY DEF Init, NoCounts, NoPages
      <3>2. NewDevice \in Devices
        BY HpFontsAssumption DEF NewDevice, Devices
      <3>3. dev \in [DCs -> Devices] /\ printer \in [DCs -> Printers]
        BY <3>2, NothingIs DEF Init
      <3> QED
        BY <3>1, <3>3, NothingIs, TypesAre
    <2>2. ASSUME NEW d \in DCs
          PROVE  DeviceOK(lru, onPage, dev[d], printer[d])
      BY DEF Init, DeviceOK, NewDevice, NewPrinter, Handed
    <2> QED
      BY <2>1, <2>2 DEF Inv
  <1>2. TypeOK /\ TypeOK' /\ Inv /\ [Next]_vars => Inv'
    <2> SUFFICES ASSUME TypeOK', Inv, [Next]_vars PROVE Inv'
      OBVIOUS
    <2>1. CASE UNCHANGED vars
      BY <2>1 DEF vars, Inv, DeviceOK, Handed, Sent, Fits
    <2>2. ASSUME NEW d \in DCs, StartDoc(d)
          PROVE  Inv'
      BY <2>2, StartDocKeeps
    <2>3. ASSUME NEW d \in DCs, NewFrame(d)
          PROVE  Inv'
      BY <2>3, NewFrameKeeps
    <2>4. ASSUME NEW d \in DCs, StartPage(d) \/ EndPage(d)
          PROVE  Inv'
      BY <2>4, PageKeeps
    <2>5. ASSUME NEW d \in DCs, WriteFails(d) \/ EndDoc(d)
          PROVE  Inv'
      BY <2>5, EndsKeeps
    <2>6. ASSUME NEW d \in DCs, NEW f \in Fonts, PrintString(d, f)
          PROVE  Inv'
      BY <2>6, StringKeeps
    <2> QED
      BY <2>1, <2>2, <2>3, <2>4, <2>5, <2>6 DEF Next
  <1> QED
    BY <1>1, <1>2, FontsTypes, PTL DEF Spec

\* For any fonts: a string that can be printed in its font is, or the default font
\* stands in and the user was warned (str_out, LoadFontString, DownLoadSoft).
THEOREM FontsAsAsked == ASSUME OneDC PROVE Spec => []FontAsAsked
  <1>1. Inv => FontAsAsked
    BY DEF Inv, DeviceOK, Handed, FontAsAsked
  <1> QED
    BY <1>1, FontsInv, PTL

\* Making room never takes a font that the page in work uses (UnloadSofts, onPage),
\* whatever the fonts' sizes and the printer's limits.
THEOREM FontsStayOnPage == ASSUME OneDC PROVE Spec => []PageFontsKept
  <1>1. Inv => PageFontsKept
    BY DEF Inv, DeviceOK, PageFontsKept
  <1> QED
    BY <1>1, FontsInv, PTL

\* The printer's memory holds every font that was sent to it, the permanent ones
\* and what the page needs, and it never has more fonts than it can, for fonts of
\* any size (DownLoadSoft, UnloadSofts, ScanSofts).
THEOREM FontsFitPrinter == ASSUME OneDC, PermFits PROVE Spec => []PrinterFits
  <1>1. Inv => PrinterFits
    <2> SUFFICES ASSUME Inv, NEW d \in DCs, dev[d].doc = "ok"
                 PROVE  /\ MemOf(printer[d].loaded \cup Perm) + MINMEM <= AvailMem
                        /\ Cardinality(printer[d].loaded \cup Perm) <= MaxSoft
      BY DEF PrinterFits
    <2> DEFINE held == printer[d].loaded \cup Perm
    <2>1. DeviceOK(lru, onPage, dev[d], printer[d])
      BY AtDevice
    <2>2. Fits(lru, dev[d]) /\ held \subseteq Held(lru)
      BY <2>1 DEF DeviceOK, Sent, Held
    <2> HIDE DEF held
    <2>3. /\ Held(lru) \in SUBSET Fonts /\ IsFiniteSet(Held(lru))
          /\ Cardinality(Held(lru)) \in Nat /\ MemOf(Held(lru)) \in Nat
      BY HeldIs
    <2>4. held \in SUBSET Fonts
      BY <2>2, <2>3
    <2>5. MemOf(held) <= MemOf(Held(lru)) /\ MemOf(held) \in Nat
      BY <2>2, <2>3, <2>4, MemOfSubset, MemOfNat
    <2>6. Cardinality(held) <= Cardinality(Held(lru)) /\ Cardinality(held) \in Nat
      BY <2>2, <2>3, FS_Subset, FS_CardinalityType
    <2>7. MINMEM + MemOf(Held(lru)) <= AvailMem /\ Cardinality(Held(lru)) <= MaxSoft
          /\ MINMEM \in Nat /\ AvailMem \in Nat /\ MaxSoft \in Nat
      BY <2>2, HpFontsAssumption DEF Fits
    <2> QED
      BY <2>3, <2>5, <2>6, <2>7 DEF held
  <1> QED
    BY <1>1, FontsInv, PTL

=============================================================================
