---------------------------- MODULE HpPage_proofs ----------------------------
(***************************************************************************)
(* Proofs about the graphics of a page (HpPage), for bands of any depth,   *)
(* bytes of any width, printers, papers, drawings and places of the cursor *)
(* after the text: what is drawn fits its bitmap, and what is printed is   *)
(* all that can be, at its place.                                          *)
(*                                                                         *)
(* The two orientations are one argument.  Along is the axis of the dots in*)
(* a row, Down the axis on which rows follow.  On both, the position of    *)
(* the paper plus the error that the driver carries is twelve times the    *)
(* position that the driver means.                                         *)
(***************************************************************************)
EXTENDS HpPage, FiniteSetTheorems, TLAPS

LEMMA Units == DEPTH \in Nat \ {0} /\ BYTE \in Nat \ {0} /\ GAP \in Nat
  BY HpPageAssumption

USE Units

Cursors == [n : Nat, skip : BOOLEAN, grx : BOOLEAN, curx : Int, cury : Int, xerr : Int,
            yerr : -4 .. 5, xOffset : Int, yOffset : Int, bmWidthBytes : Nat, bmHeight : Nat,
            text : Int]
Points  == Int \X Int
Marks   == [dot : Points, start : Nat, at : Points]
Papers  == [x : Int, y : Int, graphics : BOOLEAN, margin : Int,
            marks : SUBSET Marks]
Worlds  == [dc : Cursors, paper : Papers, rel : Nat]

\* The first LaserJet in landscape is left out where positions matter.
Exact == ~(device.land /\ device.jet)

\* Where the paper is, with the error carried, on the axis of the dots in a row and on
\* the one on which rows follow; the driver's own idea of the first.
Along(q)    == IF device.land THEN q.paper.y + q.dc.yerr ELSE q.paper.x + q.dc.xerr
Down(q)     == IF device.land THEN q.paper.x + q.dc.xerr ELSE q.paper.y + q.dc.yerr
CurAlong(q) == IF device.land THEN q.dc.cury ELSE q.dc.curx
CurDown(q)  == IF device.land THEN q.dc.curx ELSE q.dc.cury
Dir         == IF device.land THEN -1 ELSE 1

\* The errors are those of a rounding.
SmallErrors(d) ==
  IF device.jet THEN ~device.land => d.xerr \in -4 .. 0 ELSE d.xerr = 0 /\ d.yerr = 0

Tolerance == IF device.jet THEN -5 .. 5 ELSE {0}

MarkInPlace(m, text) ==
  \A axis \in {1, 2} :
     (axis = 1 => ~OnTrust(m, text)) => m.at[axis] - 12 * Scale * m.dot[axis] \in Tolerance

InPlace(p, text) == \A m \in p.marks : MarkInPlace(m, text)

\* The driver knows where the paper is: it has moved since the text, which leaves the
\* paper elsewhere on the x axis.
KnowsAlong(q) == CurAlong(q) \in Nat /\ (device.land \/ CurAlong(q) # q.dc.text)
KnowsDown(q) == CurDown(q) \in Nat /\ (device.land => CurDown(q) # q.dc.text)

Printed(p) == {m.dot : m \in p.marks}

\* The rows of a band.
InBand(d, band) ==
  LET rect == BandRect(band)
  IN  /\ d[1] \in rect.left .. rect.right - 1
      /\ d[2] \in rect.top .. rect.bottom - 1

-----------------------------------------------------------------------------
(* The invariant.                                                          *)

Inks_ == ink \subseteq (0 .. Width - 1) \X (0 .. Height - 1)

\* The driver and the printer.
TypesOf(c, p) ==
  /\ c \in Cursors /\ c.n \in 0 .. NumBands + 1
  /\ p \in Papers /\ ~p.graphics
  /\ Printed(p) \subseteq ink

\* The bitmap is that of the band that is not sent yet.
BandsOf(c, b) ==
  /\ c.n = 0 => b = {} /\ c.bmWidthBytes * c.bmHeight <= BandBitmapSize
  /\ c.n = 1 => /\ b = {} /\ c.bmWidthBytes = 0 /\ c.bmHeight = 0 /\ ~c.grx
                /\ c.cury = -1 /\ c.xerr = 0 /\ c.yerr = 0
  /\ c.n > 1 => /\ b = Drawn(c.n - 1)
                /\ c.bmWidthBytes = BandBitmap(c.n - 1).bytes
                /\ c.bmHeight = BandBitmap(c.n - 1).rows
                /\ b # {} => c.grx

\* The bands before that one are printed.
SheetOf(n, p) ==
  /\ n = 1 => p.marks = {}
  /\ \A d \in ink, band \in 1 .. NumBands :
       InBand(d, band) /\ ~Unprintable(d) /\ (n = 0 \/ band < n - 1) => d \in Printed(p)

\* The paper is where the driver thinks it is, or at the start of the band.
PositionOf(c, p) ==
  LET q == [dc |-> c, paper |-> p]
  IN  /\ SmallErrors(c)
      /\ InPlace(p, c.text)
      /\ KnowsAlong(q) => Along(q) = 12 * CurAlong(q)
      /\ KnowsDown(q) => Down(q) = 12 * CurDown(q)
      /\ c.n > 1 /\ ~c.skip => Down(q) = 12 * BandStart(c.n - 1)

Inv ==
  /\ device \in Devices /\ Inks_
  /\ TypesOf(dc, paper)
  /\ BandsOf(dc, bitmap)
  /\ SheetOf(dc.n, paper)
  /\ Exact /\ ~Shifts /\ ~BandOnTrust(dc.text) => PositionOf(dc, paper)

-----------------------------------------------------------------------------
(* Numbers.                                                                *)

\* The least of some natural numbers, and the greatest of some below a bound.
LEMMA LeastNat ==
  ASSUME NEW T \in SUBSET Nat, T # {}
  PROVE  \E x \in T : \A y \in T : x <= y
  <1> DEFINE R == OpToRel(<, Nat)
  <1>1. IsWellFoundedOn(R, Nat)
    BY NatLessThanWellFounded
  <1>2. \A m, n \in Nat : m < n => <<m, n>> \in R
    BY DEF OpToRel
  <1> HIDE DEF R
  <1>3. \E x \in T : \A y \in T : <<y, x>> \notin R
    BY <1>1, WFMin
  <1>4. PICK x \in T : \A y \in T : <<y, x>> \notin R
    BY <1>3
  <1>5. \A y \in T : y \in Nat /\ x \in Nat
    OBVIOUS
  <1>6. \A y \in T : ~(y < x)
    BY <1>2, <1>4, <1>5
  <1> QED
    BY <1>5, <1>6

LEMMA MinIs ==
  ASSUME NEW T \in SUBSET Nat, T # {}
  PROVE  Min(T) \in T /\ \A y \in T : Min(T) <= y
  BY LeastNat DEF Min

LEMMA MaxIs ==
  ASSUME NEW n \in Nat, NEW T \in SUBSET (0 .. n), T # {}
  PROVE  Max(T) \in T /\ \A y \in T : y <= Max(T)
  <1> DEFINE D == {n - y : y \in T}
  <1>0. \A y \in T : y \in Nat /\ y <= n /\ n - y \in Nat
    OBVIOUS
  <1>1. D \in SUBSET Nat /\ D # {}
    BY <1>0
  <1>2. PICK z \in D : \A y \in D : z <= y
    BY <1>1, LeastNat
  <1>3. PICK x \in T : z = n - x
    BY <1>2
  <1>4. ASSUME NEW y \in T
        PROVE  x >= y
    <2>1. n - y \in D
      OBVIOUS
    <2>2. n - x <= n - y
      BY <1>2, <1>3, <2>1
    <2> QED
      BY <1>0, <2>2
  <1>5. \A y \in T : y <= x /\ x >= y
    BY <1>0, <1>4
  <1>6. Max(T) \in T /\ \A y \in T : Max(T) >= y
    BY <1>5 DEF Max
  <1> QED
    BY <1>0, <1>6

\* The geometry of the device in dots.
LEMMA Sizes ==
  ASSUME device \in Devices
  PROVE  /\ device \in Device
         /\ Scale \in {1, 2, 4}
         /\ Width \in Nat /\ Height \in Nat /\ Extent \in Nat
         /\ Extent >= DEPTH
  <1>1. device \in Device
    BY HpPageAssumption
  <1>2. Scale \in {1, 2, 4}
    <2>1. device.sf \in 0 .. 2
      BY <1>1 DEF Device
    <2>2. device.sf = 0 \/ device.sf = 1 \/ device.sf = 2
      BY <2>1
    <2>3. 2 ^ 0 = 1 /\ 2 ^ 1 = 2 /\ 2 ^ 2 = 4
      OBVIOUS
    <2> QED
      BY <2>2, <2>3, Zenon DEF Scale
  <1>3. Width \in Nat /\ Height \in Nat
    BY <1>1, <1>2 DEF Width, Height, Device
  <1>4. DEPTH * Scale < IF device.land THEN device.xImage ELSE device.yImage
    BY HpPageAssumption DEF Scale
  <1>5. ASSUME NEW v \in Nat, DEPTH * Scale < v
        PROVE  v \div Scale >= DEPTH
    BY <1>2, <1>5
  <1>6. Extent >= DEPTH
    BY <1>1, <1>4, <1>5 DEF Extent, Width, Height, Device
  <1> QED
    BY <1>1, <1>2, <1>3, <1>6 DEF Extent

LEMMA DivFacts ==
  ASSUME NEW a \in Nat, NEW b \in Nat \ {0}
  PROVE  a \div b \in Nat /\ b * (a \div b) <= a /\ a < b * (a \div b) + b
  OBVIOUS

\* A row is rounded to whole words, and a band as deep as a word is not.
LEMMA WordFacts ==
  /\ \A v \in Nat : NumBytes(v) \in Nat /\ v <= NumBytes(v) * BYTE
  /\ \A v, w \in Nat : v <= w => NumBytes(v) <= NumBytes(w)
  /\ NumBytes(DEPTH) * BYTE = DEPTH
  <1> DEFINE W == 2 * BYTE
  <1>0. W \in Nat \ {0}
    OBVIOUS
  <1>1. ASSUME NEW v \in Nat
        PROVE  NumBytes(v) \in Nat /\ v <= NumBytes(v) * BYTE
    <2> DEFINE k == (v + W - 1) \div W
    <2>1. k \in Nat /\ v + W - 1 < W * k + W
      <3>1. v + W - 1 \in Nat
        BY <1>0
      <3> HIDE DEF W
      <3> QED
        BY <1>0, <3>1, DivFacts
    <2>2. NumBytes(v) = k * 2
      BY DEF NumBytes
    <2> HIDE DEF k
    <2>3. NumBytes(v) * BYTE = W * k
      BY <2>1, <2>2
    <2> QED
      BY <2>1, <2>2, <2>3
  <1>2. ASSUME NEW v \in Nat, NEW w \in Nat, v <= w
        PROVE  NumBytes(v) <= NumBytes(w)
    <2> DEFINE a == v + W - 1
               b == w + W - 1
    <2>1. a \in Nat /\ b \in Nat /\ a <= b
      BY <1>2
    <2>2. a \div W <= b \div W
      <3> HIDE DEF a, b, W
      <3> QED
        BY <1>0, <2>1
    <2>3. a \div W \in Nat /\ b \div W \in Nat
      BY <1>0, <2>1, DivFacts
    <2> QED
      BY <2>2, <2>3 DEF NumBytes
  <1>3. NumBytes(DEPTH) * BYTE = DEPTH
    <2> DEFINE k == DEPTH \div W
    <2>1. DEPTH = W * k /\ k \in Nat
      BY <1>0, HpPageAssumption
    <2>2. (DEPTH + W - 1) \div W = k
      <3> HIDE DEF k
      <3> QED
        BY <1>0, <2>1
    <2> HIDE DEF k
    <2>3. NumBytes(DEPTH) = k * 2
      BY <2>2 DEF NumBytes
    <2> QED
      BY <2>1, <2>3
  <1> QED
    BY <1>1, <1>2, <1>3

-----------------------------------------------------------------------------
(* Cursor movements.                                                       *)

\* What a movement leaves alone.
SameBand(d, e) ==
  /\ e.n = d.n /\ e.skip = d.skip /\ e.grx = d.grx
  /\ e.xOffset = d.xOffset /\ e.yOffset = d.yOffset
  /\ e.bmWidthBytes = d.bmWidthBytes /\ e.bmHeight = d.bmHeight /\ e.text = d.text

\* What the end of a band leaves alone.
SameSize(d, e) ==
  e.n = d.n /\ e.bmWidthBytes = d.bmWidthBytes /\ e.bmHeight = d.bmHeight /\ e.text = d.text

SamePaper(p, r) == r.graphics = p.graphics /\ r.margin = p.margin /\ r.marks = p.marks

LEMMA Rounding ==
  ASSUME NEW v \in Int
  PROVE  /\ RoundedUp(v) \in Int /\ ErrorUp(v) \in -4 .. 0
         /\ 5 * RoundedUp(v) + ErrorUp(v) = 12 * v
         /\ DivC(12 * v, 5) \in Int /\ ModC(12 * v, 5) \in -4 .. 4
         /\ v >= 0 => ModC(12 * v, 5) >= 0
         /\ 5 * DivC(12 * v, 5) + ModC(12 * v, 5) = 12 * v
  <1> DEFINE w == 12 * v
  <1>1. w \in Int
    OBVIOUS
  <1>2. RoundedUp(v) = (w + 4) \div 5 /\ ErrorUp(v) = w - 5 * RoundedUp(v)
    BY DEF RoundedUp, ErrorUp
  <1>3. DivC(w, 5) = (IF w < 0 THEN -((-w) \div 5) ELSE w \div 5) /\ ModC(w, 5) = w - 5 * DivC(w, 5)
    BY DEF DivC, ModC
  <1>4. v >= 0 => w >= 0
    OBVIOUS
  <1> HIDE DEF w
  <1>5. RoundedUp(v) \in Int /\ ErrorUp(v) \in -4 .. 0 /\ 5 * RoundedUp(v) + ErrorUp(v) = w
    BY <1>1, <1>2
  <1>6. /\ DivC(w, 5) \in Int /\ ModC(w, 5) \in -4 .. 4 /\ (w >= 0 => ModC(w, 5) >= 0)
        /\ 5 * DivC(w, 5) + ModC(w, 5) = w
    <2>1. CASE w < 0
      <3> DEFINE u == -w
                 d == u \div 5
      <3>1. u \in Nat /\ w = -u
        BY <1>1, <2>1
      <3>2. d \in Nat /\ 5 * d <= u /\ u <= 5 * d + 4
        BY <3>1
      <3>3. DivC(w, 5) = -d
        BY <1>3, <2>1
      <3> HIDE DEF u, d
      <3> QED
        BY <1>1, <1>3, <2>1, <3>1, <3>2, <3>3
    <2>2. CASE w >= 0
      <3> DEFINE d == w \div 5
      <3>1. d \in Nat /\ 5 * d <= w /\ w <= 5 * d + 4
        BY <1>1, <2>2
      <3>2. DivC(w, 5) = d
        BY <1>1, <1>3, <2>2
      <3> HIDE DEF d
      <3> QED
        BY <1>1, <1>3, <2>2, <3>1, <3>2
    <2> QED
      BY <1>1, <2>1, <2>2
  <1> QED
    BY <1>4, <1>5, <1>6 DEF w

\* What a movement leaves, on the axis of Y and on the axis of X.
MovedY(q, y, rel, r) ==
  /\ r \in Worlds /\ r.rel = q.rel
  /\ SameBand(q.dc, r.dc) /\ r.dc.curx = q.dc.curx /\ r.dc.xerr = q.dc.xerr
  /\ SamePaper(q.paper, r.paper) /\ r.paper.x = q.paper.x
  /\ r.dc.cury = IF rel THEN q.dc.cury + y ELSE y
  /\ rel => r.paper.y + r.dc.yerr = q.paper.y + q.dc.yerr + 12 * y
  /\ ~device.jet => r.dc.yerr = q.dc.yerr /\ (~rel => r.paper.y = 12 * y)

MovedX(q, x, rel, r) ==
  /\ r \in Worlds /\ r.rel = q.rel
  /\ SameBand(q.dc, r.dc) /\ r.dc.cury = q.dc.cury /\ r.dc.yerr = q.dc.yerr
  /\ SamePaper(q.paper, r.paper) /\ r.paper.y = q.paper.y
  /\ r.dc.curx = IF rel THEN q.dc.curx + x ELSE x
  /\ ~device.jet => /\ r.dc.xerr = q.dc.xerr
                    /\ r.paper.x = IF rel THEN q.paper.x + 12 * x ELSE 12 * x
  /\ device.jet /\ ~device.land /\ ~rel =>
       r.dc.xerr \in -4 .. 0 /\ r.paper.x + r.dc.xerr = 12 * x

\* SetY on any printer.
LEMMA SetYFacts ==
  ASSUME device \in Devices, NEW q \in Worlds, NEW y \in Int, NEW rel \in BOOLEAN, rel \/ y >= 0
  PROVE  MovedY(q, y, rel, SetY(q, y, rel))
  <1> USE DEF MovedY
  <1> DEFINE c == IF rel THEN q.dc.cury + y ELSE y
             err == q.dc.yerr + ModC(12 * y, 5)
             adjust == IF rel /\ err < 0 THEN -1 ELSE IF err > 5 THEN 1 ELSE 0
             e == err - 5 * adjust
             v == DivC(12 * y, 5) + adjust
  <1>1. device.jet \in BOOLEAN /\ c \in Int
    BY Sizes DEF Device, Worlds, Cursors
  <1>2. CASE ~device.jet
    <2> DEFINE py == IF rel THEN q.paper.y + y * 12 ELSE y * 12
    <2>1. SetY(q, y, rel) = [dc |-> [q.dc EXCEPT !.cury = c],
                             paper |-> [q.paper EXCEPT !.y = py], rel |-> q.rel]
      BY <1>2 DEF SetY, GoY, Worlds, Cursors, Papers
    <2>2. py \in Int
      BY DEF Worlds, Papers
    <2> HIDE DEF c
    <2>3. QED
      BY <1>1, <1>2, <2>1, <2>2 DEF Worlds, Cursors, Papers, SameBand, SamePaper, c
  <1>3. CASE device.jet
    <2> DEFINE py == IF rel THEN q.paper.y + v * 5 ELSE v * 5
    <2>1. SetY(q, y, rel) = [dc |-> [q.dc EXCEPT !.cury = c, !.yerr = e],
                             paper |-> [q.paper EXCEPT !.y = py], rel |-> q.rel]
      BY <1>3 DEF SetY, GoY, Worlds, Cursors, Papers
    <2>2. e \in -4 .. 5 /\ v \in Int /\ 5 * v + e = q.dc.yerr + 12 * y
      <3> DEFINE m == ModC(12 * y, 5)
                 k == DivC(12 * y, 5)
      <3>1. /\ k \in Int /\ m \in -4 .. 4 /\ (y >= 0 => m >= 0)
            /\ 5 * k + m = 12 * y
        BY Rounding
      <3>2. q.dc.yerr \in -4 .. 5
        BY DEF Worlds, Cursors
      <3> HIDE DEF m, k
      <3>3. rel => m >= -4
        BY <3>1
      <3>4. err = q.dc.yerr + m
        BY DEF m
      <3>5. v = k + adjust
        BY DEF k
      <3> HIDE DEF err
      <3> QED
        BY <3>1, <3>2, <3>3, <3>4, <3>5
    <2>4. py \in Int /\ q.paper.y \in Int
      BY <2>2 DEF Worlds, Papers
    <2>5. rel => py + e = q.paper.y + q.dc.yerr + 12 * y
      <3>1. q.dc.yerr \in Int
        BY DEF Worlds, Cursors
      <3> HIDE DEF v, e
      <3> QED
        BY <2>2, <2>4, <3>1
    <2> HIDE DEF c, e, py
    <2>6. [q.dc EXCEPT !.cury = c, !.yerr = e] \in Cursors
      BY <1>1, <2>2 DEF Worlds, Cursors
    <2>7. [q.paper EXCEPT !.y = py] \in Papers
      BY <2>4 DEF Worlds, Papers
    <2>8. SetY(q, y, rel) \in Worlds
      BY <2>1, <2>6, <2>7 DEF Worlds
    <2> DEFINE r == SetY(q, y, rel)
    <2>9. q.dc \in Cursors /\ q.paper \in Papers
      BY DEF Worlds
    <2>10. /\ r.rel = q.rel /\ SameBand(q.dc, r.dc)
           /\ r.dc.curx = q.dc.curx /\ r.dc.xerr = q.dc.xerr
           /\ r.dc.cury = c /\ r.dc.yerr = e
      <3>1. r.rel = q.rel /\ r.dc = [q.dc EXCEPT !.cury = c, !.yerr = e]
        BY <2>1
      <3> HIDE DEF r
      <3>2. SameBand(q.dc, r.dc) /\ r.dc.curx = q.dc.curx /\ r.dc.xerr = q.dc.xerr
        BY <2>9, <3>1 DEF Cursors, SameBand
      <3>3. r.dc.cury = c /\ r.dc.yerr = e
        BY <2>9, <3>1 DEF Cursors
      <3> QED
        BY <3>1, <3>2, <3>3
    <2>11. SamePaper(q.paper, r.paper) /\ r.paper.x = q.paper.x /\ r.paper.y = py
      BY <2>1, <2>9 DEF Papers, SamePaper
    <2> HIDE DEF r
    <2> QED
      BY <1>1, <1>3, <2>5, <2>8, <2>10, <2>11 DEF c, r
  <1> QED
    BY <1>1, <1>2, <1>3

\* SetX: on the first LaserJet in landscape, only that the types are kept.
LEMMA SetXFacts ==
  ASSUME device \in Devices, NEW q \in Worlds, NEW x \in Int, NEW rel \in BOOLEAN
  PROVE  MovedX(q, x, rel, SetX(q, x, rel))
  <1> USE DEF MovedX
  <1> DEFINE c == IF rel THEN q.dc.curx + x ELSE x
             err == q.dc.xerr - ModC(12 * x, 5)
             adjust == IF err < 0 THEN -1 ELSE 0
             e == IF device.land THEN err - 5 * adjust ELSE ErrorUp(x)
             v == IF device.land THEN DivC(12 * x, 5) + adjust ELSE RoundedUp(x)
  <1>1. device.jet \in BOOLEAN /\ device.land \in BOOLEAN /\ c \in Int
    BY Sizes DEF Device, Worlds, Cursors
  <1>2. CASE ~device.jet
    <2> DEFINE px == IF rel THEN q.paper.x + x * 12 ELSE x * 12
    <2>1. SetX(q, x, rel) = [dc |-> [q.dc EXCEPT !.curx = c],
                             paper |-> [q.paper EXCEPT !.x = px], rel |-> q.rel]
      BY <1>2 DEF SetX, GoX, Worlds, Cursors, Papers
    <2>2. px \in Int
      BY DEF Worlds, Papers
    <2> HIDE DEF c
    <2> QED
      BY <1>1, <1>2, <2>1, <2>2 DEF Worlds, Cursors, Papers, SameBand, SamePaper, c
  <1>3. CASE device.jet
    <2> DEFINE px == IF rel THEN q.paper.x + v * 5 ELSE v * 5
    <2>1. SetX(q, x, rel) = [dc |-> [q.dc EXCEPT !.curx = c, !.xerr = e],
                             paper |-> [q.paper EXCEPT !.x = px], rel |-> q.rel]
      BY <1>1, <1>3 DEF SetX, GoX, Worlds, Cursors, Papers
    <2>2. e \in Int /\ v \in Int
      <3>1. ModC(12 * x, 5) \in -4 .. 4 /\ DivC(12 * x, 5) \in Int
        BY Rounding
      <3>3. RoundedUp(x) \in Int /\ ErrorUp(x) \in -4 .. 0
        BY Rounding
      <3>2. q.dc.xerr \in Int
        BY DEF Worlds, Cursors
      <3> QED
        BY <1>1, <3>1, <3>2, <3>3
    <2>3. ~device.land => e \in -4 .. 0 /\ 5 * v + e = 12 * x
      BY <1>1, Rounding
    <2>4. px \in Int
      BY <2>2 DEF Worlds, Papers
    <2>5. device.jet /\ ~device.land /\ ~rel => px = 5 * v
      BY <2>2
    <2> HIDE DEF c, e, v, px
    <2>6. [q.dc EXCEPT !.curx = c, !.xerr = e] \in Cursors
      BY <1>1, <2>2 DEF Worlds, Cursors
    <2>7. [q.paper EXCEPT !.x = px] \in Papers
      BY <2>4 DEF Worlds, Papers
    <2>8. SetX(q, x, rel) \in Worlds
      BY <2>1, <2>6, <2>7 DEF Worlds
    <2> DEFINE r == SetX(q, x, rel)
    <2>9. q.dc \in Cursors /\ q.paper \in Papers
      BY DEF Worlds
    <2>10. /\ r.rel = q.rel /\ SameBand(q.dc, r.dc)
           /\ r.dc.cury = q.dc.cury /\ r.dc.yerr = q.dc.yerr
           /\ r.dc.curx = c /\ r.dc.xerr = e
      <3>1. r.rel = q.rel /\ r.dc = [q.dc EXCEPT !.curx = c, !.xerr = e]
        BY <2>1
      <3> HIDE DEF r
      <3>2. SameBand(q.dc, r.dc) /\ r.dc.cury = q.dc.cury /\ r.dc.yerr = q.dc.yerr
        BY <2>9, <3>1 DEF Cursors, SameBand
      <3>3. r.dc.curx = c /\ r.dc.xerr = e
        BY <2>9, <3>1 DEF Cursors
      <3> QED
        BY <3>1, <3>2, <3>3
    <2>11. SamePaper(q.paper, r.paper) /\ r.paper.y = q.paper.y /\ r.paper.x = px
      BY <2>1, <2>9 DEF Papers, SamePaper
    <2>12. ~device.land /\ ~rel => e \in -4 .. 0 /\ px + e = 12 * x
      BY <1>3, <2>2, <2>3, <2>5
    <2> HIDE DEF r
    <2> QED
      BY <1>1, <1>3, <2>8, <2>10, <2>11, <2>12 DEF c, r
  <1> QED
    BY <1>1, <1>2, <1>3

-----------------------------------------------------------------------------
(* One strip of a raster row.                                              *)

RowDots == [p : Nat, dot : Points]
StripsOf == [start : Nat, end : Nat]

\* The printer is where row R goes, but for the blank rows that it has not skipped.
OnRow(q, R) ==
  /\ SmallErrors(q.dc) /\ InPlace(q.paper, q.dc.text)
  /\ Down(q) + Dir * (12 * (q.rel * Scale)) = 12 * (R * Scale)
  /\ KnowsAlong(q) => Along(q) = 12 * CurAlong(q)
  /\ q.paper.graphics => q.paper.margin = IF device.land THEN q.paper.y ELSE q.paper.x

\* The dots of row R, which a printer in landscape prints to the left of R.
RowAt(row, R) ==
  \A e \in row : e.p = PlaceOf(e.dot) /\ RowOf(e.dot) = IF device.land THEN R - 1 ELSE R

LEMMA EndFacts ==
  ASSUME NEW q \in Worlds
  PROVE  LET r == EndGraphics(q)
         IN  /\ r \in Worlds /\ r.dc = q.dc /\ r.rel = q.rel /\ ~r.paper.graphics
             /\ r.paper.x = q.paper.x /\ r.paper.y = q.paper.y /\ r.paper.marks = q.paper.marks
             /\ r.paper.margin = q.paper.margin
  BY DEF EndGraphics, Worlds, Papers

LEMMA StartFacts ==
  ASSUME device \in Devices, NEW q \in Worlds
  PROVE  LET r == StartGraphics([q EXCEPT !.rel = 0])
         IN  /\ r \in Worlds /\ r.dc = q.dc /\ r.rel = 0 /\ r.paper.graphics
             /\ r.paper.x = q.paper.x /\ r.paper.y = q.paper.y /\ r.paper.marks = q.paper.marks
             /\ r.paper.margin = IF q.paper.graphics THEN q.paper.margin
                                 ELSE IF device.land THEN q.paper.y ELSE q.paper.x
  <1> DEFINE w == [q EXCEPT !.rel = 0]
  <1>1. w \in Worlds /\ w.dc = q.dc /\ w.rel = 0 /\ w.paper = q.paper
    BY DEF Worlds
  <1>2. device.land \in BOOLEAN
    BY Sizes DEF Device
  <1> HIDE DEF w
  <1>3. CASE q.paper.graphics
    BY <1>1, <1>3 DEF StartGraphics, w
  <1>4. CASE ~q.paper.graphics
    <2> DEFINE m == IF device.land THEN q.paper.y ELSE q.paper.x
    <2>1. m \in Int
      BY <1>2 DEF Worlds, Papers
    <2>2. StartGraphics(w) = [w EXCEPT !.paper.graphics = TRUE, !.paper.margin = m]
      BY <1>1, <1>4 DEF StartGraphics
    <2> HIDE DEF m
    <2>3. StartGraphics(w) = [dc |-> w.dc, rel |-> 0, paper |->
             [q.paper EXCEPT !.graphics = TRUE, !.margin = m]]
      BY <1>1, <2>2 DEF Worlds, Papers
    <2>4. [q.paper EXCEPT !.graphics = TRUE, !.margin = m] \in Papers
      BY <2>1 DEF Worlds, Papers
    <2>5. StartGraphics(w) \in Worlds
      BY <1>1, <2>3, <2>4 DEF Worlds
    <2> DEFINE r == StartGraphics(w)
    <2>6. r.dc = q.dc /\ r.rel = 0 /\ r.paper = [q.paper EXCEPT !.graphics = TRUE, !.margin = m]
      BY <1>1, <2>3
    <2> HIDE DEF r
    <2>7. /\ r.paper.graphics /\ r.paper.margin = m /\ r.paper.x = q.paper.x
          /\ r.paper.y = q.paper.y /\ r.paper.marks = q.paper.marks
      BY <2>6 DEF Worlds, Papers
    <2> QED
      BY <1>4, <2>5, <2>6, <2>7 DEF m, r, w
  <1> QED
    BY <1>3, <1>4

\* What the transfer of a strip leaves.
StripDone(q, row, strip, r) ==
  LET dots == {e \in row : e.p \div BYTE \in strip.start .. strip.end - 1}
  IN  /\ r \in Worlds /\ r.dc = q.dc /\ r.rel = q.rel
      /\ r.paper.graphics = q.paper.graphics /\ r.paper.margin = q.paper.margin
      /\ r.paper.x = IF device.land THEN q.paper.x - 12 * Scale ELSE q.paper.x
      /\ r.paper.y = IF device.land THEN q.paper.y ELSE q.paper.y + 12 * Scale
      /\ r.paper.marks = q.paper.marks \cup {Mark(q, e, strip) : e \in dots}

LEMMA TransferFacts ==
  ASSUME device \in Devices, NEW q \in Worlds, NEW row \in SUBSET RowDots,
         NEW strip \in StripsOf
  PROVE  StripDone(q, row, strip, Transfer(q, row, strip))
  <1> DEFINE dots == {e \in row : e.p \div BYTE \in strip.start .. strip.end - 1}
             marks == q.paper.marks \cup {Mark(q, e, strip) : e \in dots}
             px == IF device.land THEN q.paper.x - 12 * Scale ELSE q.paper.x
             py == IF device.land THEN q.paper.y ELSE q.paper.y + 12 * Scale
  <1>1. device.land \in BOOLEAN /\ Scale \in Int
    BY Sizes DEF Device
  <1>2. px \in Int /\ py \in Int
    BY <1>1 DEF Worlds, Papers
  <1>3. ASSUME NEW e \in row
        PROVE  Mark(q, e, strip) \in Marks
    <2> DEFINE along == q.paper.margin + (e.p - strip.start * BYTE) * 12 * Scale
    <2>1. e.p \in Int /\ e.dot \in Points /\ strip.start * BYTE \in Int /\ strip.start \in Nat
      BY DEF RowDots, StripsOf
    <2>2. along \in Int
      BY <1>1, <2>1 DEF Worlds, Papers
    <2>3. q.paper.x - 12 * Scale \in Int /\ q.paper.y \in Int
      BY <1>1 DEF Worlds, Papers
    <2> HIDE DEF along
    <2>4. Mark(q, e, strip) =
            [dot |-> e.dot, start |-> strip.start,
             at |-> IF device.land THEN <<q.paper.x - 12 * Scale, along>> ELSE <<along, q.paper.y>>]
      BY DEF Mark, along
    <2> QED
      BY <1>1, <2>1, <2>2, <2>3, <2>4 DEF Points, Marks
  <1>4. marks \in SUBSET Marks
    BY <1>3 DEF Worlds, Papers
  <1> HIDE DEF marks
  <1>5. Transfer(q, row, strip) =
          [dc |-> q.dc, rel |-> q.rel,
           paper |-> [q.paper EXCEPT !.x = px, !.y = py, !.marks = marks]]
    <2> DEFINE mp == [q.paper EXCEPT !.marks = marks]
               done == [q EXCEPT !.paper.marks = marks]
    <2>1. done = [dc |-> q.dc, rel |-> q.rel, paper |-> mp]
      BY DEF Worlds, Papers
    <2>2. Transfer(q, row, strip) =
            IF device.land THEN [done EXCEPT !.paper.x = @ - 12 * Scale]
            ELSE [done EXCEPT !.paper.y = @ + 12 * Scale]
      BY DEF Transfer, marks
    <2>m. mp.x = q.paper.x /\ mp.y = q.paper.y
      BY DEF Worlds, Papers
    <2> HIDE DEF mp, done
    <2>a. [done EXCEPT !.paper.x = @ - 12 * Scale] =
             [dc |-> q.dc, rel |-> q.rel, paper |-> [mp EXCEPT !.x = q.paper.x - 12 * Scale]]
      BY <2>1, <2>m
    <2>b. [done EXCEPT !.paper.y = @ + 12 * Scale] =
             [dc |-> q.dc, rel |-> q.rel, paper |-> [mp EXCEPT !.y = q.paper.y + 12 * Scale]]
      BY <2>1, <2>m
    <2>3. [mp EXCEPT !.x = q.paper.x - 12 * Scale] =
             [q.paper EXCEPT !.x = q.paper.x - 12 * Scale, !.y = q.paper.y, !.marks = marks]
      BY DEF Worlds, Papers, mp
    <2>4. [mp EXCEPT !.y = q.paper.y + 12 * Scale] =
             [q.paper EXCEPT !.x = q.paper.x, !.y = q.paper.y + 12 * Scale, !.marks = marks]
      BY DEF Worlds, Papers, mp
    <2>5. CASE device.land
      BY <2>2, <2>a, <2>3, <2>5
    <2>6. CASE ~device.land
      BY <2>2, <2>b, <2>4, <2>6
    <2> QED
      BY <1>1, <2>5, <2>6
  <1> HIDE DEF px, py
  <1>6. [q.paper EXCEPT !.x = px, !.y = py, !.marks = marks] \in Papers
    BY <1>2, <1>4 DEF Worlds, Papers
  <1>7. Transfer(q, row, strip) \in Worlds
    BY <1>5, <1>6 DEF Worlds
  <1> DEFINE r == Transfer(q, row, strip)
  <1>8. r.dc = q.dc /\ r.rel = q.rel /\ r.paper = [q.paper EXCEPT !.x = px, !.y = py, !.marks = marks]
    BY <1>5
  <1> HIDE DEF r
  <1>9. /\ r.paper.graphics = q.paper.graphics /\ r.paper.margin = q.paper.margin
        /\ r.paper.x = px /\ r.paper.y = py /\ r.paper.marks = marks
    BY <1>8 DEF Worlds, Papers
  <1> QED
    BY <1>7, <1>8, <1>9 DEF px, py, marks, r, StripDone

\* The dots of a strip are printed, and nothing else.
StripInk(q, row, strip, r) ==
  /\ q.paper.marks \subseteq r.paper.marks
  /\ \A m \in r.paper.marks : m \in q.paper.marks \/ \E e \in row : m.dot = e.dot
  /\ \A e \in row : e.p \div BYTE \in strip.start .. strip.end - 1 => e.dot \in Printed(r.paper)

\* What the caller of a strip relies on: types and dots whatever happens to positions,
\* and positions where they are kept.
StripSent(q, row, strip, first, r) ==
  /\ r \in Worlds /\ r.rel = 0 /\ SameBand(q.dc, r.dc)
  /\ StripInk(q, row, strip, r)
  /\ Exact => \A R \in Int :
       /\ RowAt(row, R)
       /\ OnRow(q, IF first THEN R ELSE R + Dir)
       /\ first \/ q.rel = 0
       => OnRow(r, R + Dir)

\* The dots of a strip, from what the transfer leaves.
LEMMA StripDots ==
  ASSUME device \in Devices, NEW q \in Worlds, NEW go \in Worlds, NEW row \in SUBSET RowDots,
         NEW strip \in StripsOf, go.paper.marks = q.paper.marks,
         NEW r, r = Transfer(go, row, strip)
  PROVE  StripInk(q, row, strip, r)
  <1> DEFINE dots == {e \in row : e.p \div BYTE \in strip.start .. strip.end - 1}
  <1>1. r.paper.marks = q.paper.marks \cup {Mark(go, e, strip) : e \in dots}
    <2>1. StripDone(go, row, strip, r)
      BY TransferFacts
    <2> QED
      BY <2>1 DEF StripDone
  <1>2. \A e \in row : Mark(go, e, strip).dot = e.dot
    BY DEF Mark
  <1> QED
    BY <1>1, <1>2 DEF Printed, StripInk

LEMMA PortraitStrip ==
  ASSUME device \in Devices, ~device.land, NEW q \in Worlds, NEW row \in SUBSET RowDots,
         NEW strip \in StripsOf, NEW first \in BOOLEAN
  PROVE  StripSent(q, row, strip, first, SendStripPortrait(q, row, strip, first))
  <1> DEFINE pos == strip.start * BYTE * Scale
             moves == ~first \/ q.dc.curx # pos \/ q.rel # 0
             end == IF moves THEN EndGraphics(q) ELSE q
             back == IF first THEN end ELSE SetY(end, -Scale, TRUE)
             side == IF back.dc.curx # pos THEN SetX(back, pos, FALSE) ELSE back
             down == IF side.rel = 0 THEN side ELSE SetY(side, side.rel * Scale, TRUE)
             go == StartGraphics([down EXCEPT !.rel = 0])
             r == Transfer(go, row, strip)
  <1>0. SendStripPortrait(q, row, strip, first) = r
    BY DEF SendStripPortrait
  <1>t. /\ device.jet \in BOOLEAN /\ Scale \in {1, 2, 4} /\ Scale \in Nat
        /\ strip.start * BYTE \in Nat /\ pos \in Nat
    <2>1. device.jet \in BOOLEAN /\ Scale \in {1, 2, 4}
      BY Sizes DEF Device
    <2>2. strip.start * BYTE \in Nat
      BY DEF StripsOf
    <2> QED
      BY <2>1, <2>2
  <1> HIDE DEF pos
  <1>q. /\ q.dc \in Cursors /\ q.paper \in Papers /\ q.rel \in Nat
        /\ q.dc.xerr \in Int /\ q.dc.yerr \in -4 .. 5 /\ q.dc.curx \in Int /\ q.dc.cury \in Int
        /\ q.paper.x \in Int /\ q.paper.y \in Int /\ q.paper.margin \in Int
    BY DEF Worlds, Cursors, Papers
  <1>1. /\ end \in Worlds /\ end.dc = q.dc /\ end.rel = q.rel
        /\ end.paper.x = q.paper.x /\ end.paper.y = q.paper.y /\ end.paper.marks = q.paper.marks
        /\ end.paper.margin = q.paper.margin
        /\ end.paper.graphics => ~moves /\ q.paper.graphics
    BY EndFacts
  <1> HIDE DEF end
  <1>2. /\ back \in Worlds /\ SameBand(q.dc, back.dc) /\ back.rel = q.rel
        /\ back.dc.curx = q.dc.curx /\ back.dc.xerr = q.dc.xerr
        /\ SamePaper(end.paper, back.paper) /\ back.paper.x = q.paper.x
        /\ back.paper.y + back.dc.yerr =
             q.paper.y + q.dc.yerr - (IF first THEN 0 ELSE 12 * Scale)
        /\ ~device.jet => back.dc.yerr = q.dc.yerr
    <2>1. CASE first
      BY <1>1, <1>q, <1>t, <2>1 DEF SameBand, SamePaper
    <2>2. CASE ~first
      <3>1. -Scale \in Int /\ 12 * (-Scale) = -(12 * Scale) /\ TRUE \in BOOLEAN
        BY <1>t
      <3>2. back = SetY(end, -Scale, TRUE)
        BY <2>2
      <3> HIDE DEF back
      <3>3. MovedY(end, -Scale, TRUE, back)
        BY <1>1, <3>1, <3>2, SetYFacts
      <3>4. /\ back \in Worlds /\ back.rel = q.rel
            /\ SameBand(q.dc, back.dc) /\ back.dc.curx = q.dc.curx /\ back.dc.xerr = q.dc.xerr
            /\ SamePaper(end.paper, back.paper) /\ back.paper.x = q.paper.x
            /\ back.paper.y + back.dc.yerr = q.paper.y + q.dc.yerr + 12 * (-Scale)
            /\ ~device.jet => back.dc.yerr = q.dc.yerr
        BY <1>1, <3>3 DEF MovedY
      <3>5. q.paper.y + q.dc.yerr + 12 * (-Scale) = q.paper.y + q.dc.yerr - 12 * Scale
        BY <1>q, <1>t
      <3> QED
        BY <2>2, <3>4, <3>5
    <2> QED
      BY <2>1, <2>2
  <1> HIDE DEF back
  <1>b. back.paper.y \in Int /\ back.dc.yerr \in Int /\ back.paper.x \in Int
    BY <1>2 DEF Worlds, Cursors, Papers
  <1>3. /\ side \in Worlds /\ SameBand(q.dc, side.dc) /\ side.rel = q.rel
        /\ side.dc.curx = pos
        /\ SamePaper(end.paper, side.paper) /\ side.paper.y = back.paper.y
        /\ side.dc.yerr = back.dc.yerr
        /\ q.dc.curx = pos => side.paper.x = q.paper.x /\ side.dc.xerr = q.dc.xerr
        /\ q.dc.curx # pos => /\ SmallErrors(q.dc) => side.paper.x + side.dc.xerr = 12 * pos
                              /\ device.jet => side.dc.xerr \in -4 .. 0
                              /\ ~device.jet => side.dc.xerr = q.dc.xerr
    <2>1. CASE q.dc.curx = pos
      BY <1>2, <2>1
    <2>2. CASE q.dc.curx # pos
      <3>1. side = SetX(back, pos, FALSE)
        BY <1>2, <2>2
      <3>2. /\ side \in Worlds /\ side.rel = back.rel
            /\ SameBand(back.dc, side.dc) /\ side.dc.yerr = back.dc.yerr
            /\ SamePaper(back.paper, side.paper) /\ side.paper.y = back.paper.y
            /\ side.dc.curx = pos
            /\ ~device.jet => side.dc.xerr = back.dc.xerr /\ side.paper.x = 12 * pos
            /\ device.jet => side.dc.xerr \in -4 .. 0 /\ side.paper.x + side.dc.xerr = 12 * pos
        <4>1. FALSE \in BOOLEAN /\ pos \in Int
          BY <1>t
        <4> HIDE DEF side
        <4>2. MovedX(back, pos, FALSE, side)
          BY <1>2, <3>1, <4>1, SetXFacts
        <4> QED
          BY <4>2 DEF MovedX
      <3> HIDE DEF side
      <3>3. side.paper.x \in Int /\ side.dc.xerr \in Int
        BY <3>2 DEF Worlds, Cursors, Papers
      <3>4. SmallErrors(q.dc) => side.paper.x + side.dc.xerr = 12 * pos
        BY <1>2, <1>t, <3>2, <3>3 DEF SmallErrors
      <3>5. SameBand(q.dc, side.dc) /\ SamePaper(end.paper, side.paper)
        BY <1>2, <3>2 DEF SameBand, SamePaper
      <3> QED
        BY <1>2, <2>2, <3>2, <3>4, <3>5
    <2> QED
      BY <2>1, <2>2
  <1> HIDE DEF side
  <1>4. /\ down \in Worlds /\ SameBand(q.dc, down.dc) /\ down.dc.curx = pos
        /\ down.dc.xerr = side.dc.xerr /\ down.paper.x = side.paper.x
        /\ SamePaper(end.paper, down.paper)
        /\ down.paper.y + down.dc.yerr = side.paper.y + side.dc.yerr + 12 * (q.rel * Scale)
        /\ ~device.jet => down.dc.yerr = q.dc.yerr
    <2>s. side.paper.y \in Int /\ side.dc.yerr \in Int
      BY <1>3 DEF Worlds, Cursors, Papers
    <2>r. q.rel * Scale \in Int
      BY <1>q, <1>t
    <2>1. CASE q.rel = 0
      <3>1. down = side
        BY <1>3, <2>1
      <3>2. q.rel * Scale = 0
        BY <1>t, <2>1
      <3> HIDE DEF down
      <3> QED
        BY <1>2, <1>3, <2>s, <3>1, <3>2
    <2>2. CASE q.rel # 0
      <3>1. down = SetY(side, q.rel * Scale, TRUE)
        BY <1>3, <2>2
      <3> HIDE DEF down
      <3>2. /\ down \in Worlds /\ SameBand(side.dc, down.dc) /\ down.dc.curx = side.dc.curx
            /\ down.dc.xerr = side.dc.xerr
            /\ SamePaper(side.paper, down.paper) /\ down.paper.x = side.paper.x
            /\ down.paper.y + down.dc.yerr = side.paper.y + side.dc.yerr + 12 * (q.rel * Scale)
            /\ ~device.jet => down.dc.yerr = side.dc.yerr
        <4>1. MovedY(side, q.rel * Scale, TRUE, down)
          BY <1>3, <2>r, <3>1, SetYFacts
        <4> QED
          BY <4>1 DEF MovedY
      <3>3. SameBand(q.dc, down.dc) /\ SamePaper(end.paper, down.paper)
        BY <1>3, <3>2 DEF SameBand, SamePaper
      <3> QED
        BY <1>2, <1>3, <3>2, <3>3
    <2> QED
      BY <2>1, <2>2
  <1> HIDE DEF down
  <1>5. /\ go \in Worlds /\ go.dc = down.dc /\ go.rel = 0 /\ go.paper.graphics
        /\ go.paper.x = down.paper.x /\ go.paper.y = down.paper.y
        /\ go.paper.marks = down.paper.marks
        /\ go.paper.margin = IF down.paper.graphics THEN down.paper.margin ELSE down.paper.x
    BY <1>4, StartFacts
  <1> HIDE DEF go
  <1>6. /\ r \in Worlds /\ r.dc = go.dc /\ r.rel = 0
        /\ r.paper.graphics = go.paper.graphics /\ r.paper.margin = go.paper.margin
        /\ r.paper.x = go.paper.x /\ r.paper.y = go.paper.y + 12 * Scale
        /\ r.paper.marks = go.paper.marks \cup
             {Mark(go, e, strip) : e \in {f \in row : f.p \div BYTE \in strip.start .. strip.end - 1}}
    <2>1. StripDone(go, row, strip, r)
      BY <1>5, TransferFacts
    <2> HIDE DEF r
    <2> QED
      BY <1>5, <2>1 DEF StripDone
  <1>7. go.paper.marks = q.paper.marks
    BY <1>1, <1>4, <1>5 DEF SamePaper
  <1>8. StripInk(q, row, strip, r)
    <2>1. r = Transfer(go, row, strip)
      OBVIOUS
    <2> HIDE DEF r
    <2> QED
      BY <1>5, <1>7, <2>1, StripDots
  <1> HIDE DEF r
  <1>g. /\ go.paper.x \in Int /\ go.paper.y \in Int /\ go.paper.margin \in Int
        /\ go.dc.xerr \in Int /\ go.dc.yerr \in -4 .. 5
    BY <1>5 DEF Worlds, Cursors, Papers
  <1>9. ASSUME NEW R \in Int, RowAt(row, R), OnRow(q, IF first THEN R ELSE R + Dir),
               first \/ q.rel = 0
        PROVE  OnRow(r, R + Dir)
    <2> DEFINE S == Scale
    <2>d. Dir = 1
      BY DEF Dir
    <2>1. SmallErrors(q.dc) /\ InPlace(q.paper, q.dc.text)
      BY <1>9 DEF OnRow
    <2>t. go.dc.text = q.dc.text /\ r.dc.text = q.dc.text
      BY <1>4, <1>5, <1>6 DEF SameBand
    <2>2. pos # go.dc.text => go.paper.x + go.dc.xerr = 12 * pos
      <3>1. q.dc.curx = pos /\ pos # q.dc.text => q.paper.x + q.dc.xerr = 12 * pos
        BY <1>9, <1>t DEF OnRow, KnowsAlong, CurAlong, Along
      <3> QED
        BY <1>3, <1>4, <1>5, <2>1, <2>t, <3>1
    <2>3. SmallErrors(go.dc)
      BY <1>3, <1>4, <1>5, <1>t, <2>1 DEF SmallErrors
    <2>4. go.paper.margin = go.paper.x
      <3>1. CASE down.paper.graphics
        <4>1. ~moves /\ q.paper.graphics /\ down.paper.margin = q.paper.margin
          BY <1>1, <1>4, <3>1 DEF SamePaper
        <4>2. q.dc.curx = pos
          BY <4>1
        <4>4. side.paper.x = q.paper.x
          BY <1>3, <4>2
        <4>3. q.paper.margin = q.paper.x
          BY <1>9, <4>1 DEF OnRow
        <4> QED
          BY <1>4, <1>5, <3>1, <4>1, <4>3, <4>4
      <3>2. CASE ~down.paper.graphics
        BY <1>5, <3>2
      <3> QED
        BY <3>1, <3>2
    <2>5. R * S \in Int /\ (R + 1) * S = R * S + S
      BY <1>t
    <2>6. go.paper.y + go.dc.yerr = 12 * (R * S)
      <3>1. go.paper.y + go.dc.yerr =
              q.paper.y + q.dc.yerr - (IF first THEN 0 ELSE 12 * S) + 12 * (q.rel * S)
        BY <1>2, <1>3, <1>4, <1>5
      <3>2. q.rel * S \in Int
        BY <1>q, <1>t
      <3>3. CASE first
        <4>1. q.paper.y + q.dc.yerr + 12 * (q.rel * S) = 12 * (R * S)
          BY <1>9, <2>d, <3>2, <3>3 DEF OnRow, Down
        <4> QED
          BY <1>q, <1>t, <3>1, <3>2, <3>3, <4>1
      <3>4. CASE ~first
        <4>0. q.rel * S = 0
          BY <1>9, <1>t, <3>4
        <4>1. q.paper.y + q.dc.yerr + 12 * (q.rel * S) = 12 * ((R + 1) * S)
          BY <1>9, <2>d, <3>2, <3>4 DEF OnRow, Down
        <4>2. go.paper.y + go.dc.yerr = q.paper.y + (q.dc.yerr - 12 * S) + 12 * (q.rel * S)
          BY <3>1, <3>4
        <4> DEFINE z == q.paper.y + q.dc.yerr
                   k == q.rel * S
        <4>3. z \in Int /\ S \in Int
          BY <1>q, <1>t
        <4>8. q.paper.y + (q.dc.yerr - 12 * S) = z - 12 * S
          BY <1>q, <1>t
        <4>6. go.paper.y + go.dc.yerr = (z - 12 * S) + 12 * k
          BY <4>2, <4>8
        <4>7. k = 0
          BY <4>0
        <4> HIDE DEF z, k, S
        <4>4. z = 12 * (R * S) + 12 * S
          BY <2>5, <3>2, <4>0, <4>1, <4>3 DEF z
        <4>5. go.paper.y + go.dc.yerr = z - 12 * S
          BY <4>3, <4>6, <4>7
        <4> QED
          BY <2>5, <4>3, <4>4, <4>5 DEF z
      <3> QED
        BY <3>3, <3>4
    <2>7. ASSUME NEW e \in row
          PROVE  MarkInPlace(Mark(go, e, strip), go.dc.text)
      <3> DEFINE sb == strip.start * BYTE
                 along == go.paper.margin + (e.p - sb) * 12 * Scale
      <3>1. e.p \in Int /\ sb \in Int /\ e.dot \in Points
        BY <1>t DEF RowDots
      <3>2. e.dot[1] = e.p /\ e.dot[2] = R
        BY <1>9 DEF RowAt, PlaceOf, RowOf
      <3>3. Mark(go, e, strip) =
              [dot |-> e.dot, start |-> strip.start, at |-> <<along, go.paper.y>>]
        BY DEF Mark
      <3>4. pos # go.dc.text => along = 12 * (e.p * S) - go.dc.xerr
        <4>1. pos = sb * S
          BY DEF pos
        <4> HIDE DEF sb
        <4>2. (e.p - sb) * 12 * S = 12 * (e.p * S) - 12 * (sb * S)
          BY <1>t, <3>1
        <4>3. e.p * S \in Int /\ sb * S \in Int
          BY <1>t, <3>1
        <4> QED
          BY <1>g, <2>2, <2>4, <4>1, <4>2, <4>3
      <3>5. 12 * Scale * e.dot[1] = 12 * (e.p * S) /\ 12 * Scale * e.dot[2] = 12 * (R * S)
        BY <1>t, <3>1, <3>2
      <3>6. e.p * S \in Int
        BY <1>t, <3>1
      <3> HIDE DEF along
      <3>7. /\ pos # go.dc.text => along - 12 * (e.p * S) = -go.dc.xerr
            /\ go.paper.y - 12 * (R * S) = -go.dc.yerr
        BY <1>g, <2>5, <2>6, <3>4, <3>6
      <3>8. -go.dc.xerr \in Tolerance /\ -go.dc.yerr \in Tolerance
        BY <1>g, <1>t, <2>3 DEF SmallErrors, Tolerance
      <3>9. OnTrust(Mark(go, e, strip), go.dc.text) <=> pos = go.dc.text
        BY <3>3 DEF OnTrust, pos
      <3> QED
        BY <3>3, <3>5, <3>7, <3>8, <3>9 DEF MarkInPlace
    <2>8. InPlace(r.paper, r.dc.text)
      BY <1>6, <1>7, <2>1, <2>7, <2>t DEF InPlace
    <2>9. Down(r) + Dir * (12 * (r.rel * Scale)) = 12 * ((R + Dir) * Scale)
      <3>1. r.rel * S = 0
        BY <1>6, <1>t
      <3>2. Down(r) = 12 * (R * S) + 12 * S
        BY <1>6, <1>g, <1>t, <2>5, <2>6 DEF Down
      <3> QED
        BY <1>t, <2>d, <2>5, <3>1, <3>2
    <2>10. KnowsAlong(r) => Along(r) = 12 * CurAlong(r)
      BY <1>4, <1>5, <1>6, <2>2, <2>t DEF KnowsAlong, Along, CurAlong
    <2>11. r.paper.margin = r.paper.x
      BY <1>6, <2>4
    <2> QED
      BY <1>6, <2>3, <2>8, <2>9, <2>10, <2>11 DEF OnRow
  <1> QED
    <2>1. SameBand(q.dc, r.dc)
      BY <1>4, <1>5, <1>6
    <2> QED
      BY <1>0, <1>6, <1>8, <1>9, <2>1 DEF StripSent

LEMMA LandscapeStrip ==
  ASSUME device \in Devices, device.land, NEW q \in Worlds, NEW row \in SUBSET RowDots,
         NEW strip \in StripsOf, NEW first \in BOOLEAN
  PROVE  StripSent(q, row, strip, first, SendStripLandscape(q, row, strip, first))
  <1> DEFINE pos == strip.start * BYTE * Scale
             moves == ~first \/ q.dc.cury # pos \/ q.rel # 0
             end == IF moves THEN EndGraphics(q) ELSE q
             back == IF first THEN end ELSE SetX(end, Scale, TRUE)
             side == IF back.dc.cury # pos THEN SetY(back, pos, FALSE) ELSE back
             left == IF side.rel = 0 THEN side ELSE SetX(side, -side.rel * Scale, TRUE)
             go == StartGraphics([left EXCEPT !.rel = 0])
             r == Transfer(go, row, strip)
  <1>0. SendStripLandscape(q, row, strip, first) = r
    BY DEF SendStripLandscape
  <1>t. /\ device.jet \in BOOLEAN /\ Scale \in {1, 2, 4} /\ Scale \in Nat
        /\ strip.start * BYTE \in Nat /\ pos \in Nat
    <2>1. device.jet \in BOOLEAN /\ Scale \in {1, 2, 4}
      BY Sizes DEF Device
    <2>2. strip.start * BYTE \in Nat
      BY DEF StripsOf
    <2> QED
      BY <2>1, <2>2
  <1> HIDE DEF pos
  <1>q. /\ q.dc \in Cursors /\ q.paper \in Papers /\ q.rel \in Nat
        /\ q.dc.xerr \in Int /\ q.dc.yerr \in -4 .. 5 /\ q.dc.curx \in Int /\ q.dc.cury \in Int
        /\ q.paper.x \in Int /\ q.paper.y \in Int /\ q.paper.margin \in Int
    BY DEF Worlds, Cursors, Papers
  <1>1. /\ end \in Worlds /\ end.dc = q.dc /\ end.rel = q.rel
        /\ end.paper.x = q.paper.x /\ end.paper.y = q.paper.y /\ end.paper.marks = q.paper.marks
        /\ end.paper.margin = q.paper.margin
        /\ end.paper.graphics => ~moves /\ q.paper.graphics
    BY EndFacts
  <1> HIDE DEF end
  <1>2. /\ back \in Worlds /\ SameBand(q.dc, back.dc) /\ back.rel = q.rel
        /\ back.dc.cury = q.dc.cury /\ back.dc.yerr = q.dc.yerr
        /\ SamePaper(end.paper, back.paper) /\ back.paper.y = q.paper.y
        /\ ~device.jet => /\ back.dc.xerr = q.dc.xerr
                          /\ back.paper.x = q.paper.x + (IF first THEN 0 ELSE 12 * Scale)
    <2>1. CASE first
      BY <1>1, <1>q, <2>1 DEF SameBand, SamePaper
    <2>2. CASE ~first
      <3>1. Scale \in Int /\ TRUE \in BOOLEAN
        BY <1>t
      <3>2. back = SetX(end, Scale, TRUE)
        BY <2>2
      <3> HIDE DEF back
      <3>3. MovedX(end, Scale, TRUE, back)
        BY <1>1, <3>1, <3>2, SetXFacts
      <3> QED
        BY <1>1, <2>2, <3>3 DEF MovedX
    <2> QED
      BY <2>1, <2>2
  <1> HIDE DEF back
  <1>3. /\ side \in Worlds /\ SameBand(q.dc, side.dc) /\ side.rel = q.rel
        /\ side.dc.cury = pos
        /\ SamePaper(end.paper, side.paper) /\ side.paper.x = back.paper.x
        /\ side.dc.xerr = back.dc.xerr
        /\ q.dc.cury = pos => side.paper.y = q.paper.y /\ side.dc.yerr = q.dc.yerr
        /\ q.dc.cury # pos /\ ~device.jet => side.paper.y = 12 * pos /\ side.dc.yerr = q.dc.yerr
    <2>1. CASE q.dc.cury = pos
      BY <1>2, <2>1
    <2>2. CASE q.dc.cury # pos
      <3>1. side = SetY(back, pos, FALSE)
        BY <1>2, <2>2
      <3> HIDE DEF side
      <3>2. FALSE \in BOOLEAN /\ pos \in Int /\ pos >= 0
        BY <1>t
      <3>3. MovedY(back, pos, FALSE, side)
        BY <1>2, <3>1, <3>2, SetYFacts
      <3>4. /\ side \in Worlds /\ side.rel = back.rel
            /\ SameBand(back.dc, side.dc) /\ side.dc.xerr = back.dc.xerr
            /\ SamePaper(back.paper, side.paper) /\ side.paper.x = back.paper.x
            /\ side.dc.cury = pos
            /\ ~device.jet => side.dc.yerr = back.dc.yerr /\ side.paper.y = 12 * pos
        BY <3>3 DEF MovedY
      <3>5. SameBand(q.dc, side.dc) /\ SamePaper(end.paper, side.paper)
        BY <1>2, <3>4 DEF SameBand, SamePaper
      <3> QED
        BY <1>2, <2>2, <3>4, <3>5
    <2> QED
      BY <2>1, <2>2
  <1> HIDE DEF side
  <1>4. /\ left \in Worlds /\ SameBand(q.dc, left.dc) /\ left.dc.cury = pos
        /\ left.dc.yerr = side.dc.yerr /\ left.paper.y = side.paper.y
        /\ SamePaper(end.paper, left.paper)
        /\ ~device.jet => /\ left.dc.xerr = side.dc.xerr
                          /\ left.paper.x = side.paper.x - 12 * (q.rel * Scale)
    <2>s. side.paper.x \in Int
      BY <1>3 DEF Worlds, Papers
    <2>r. q.rel * Scale \in Int /\ -(q.rel * Scale) \in Int /\ TRUE \in BOOLEAN
      BY <1>q, <1>t
    <2>1. CASE q.rel = 0
      <3>1. left = side
        BY <1>3, <2>1
      <3>2. q.rel * Scale = 0
        BY <1>t, <2>1
      <3> HIDE DEF left
      <3> QED
        BY <1>3, <2>s, <3>1, <3>2
    <2>2. CASE q.rel # 0
      <3>1. left = SetX(side, -(q.rel * Scale), TRUE)
        BY <1>3, <2>2
      <3> HIDE DEF left
      <3>2. MovedX(side, -(q.rel * Scale), TRUE, left)
        BY <1>3, <2>r, <3>1, SetXFacts
      <3>3. /\ left \in Worlds /\ SameBand(side.dc, left.dc) /\ left.dc.cury = side.dc.cury
            /\ left.dc.yerr = side.dc.yerr
            /\ SamePaper(side.paper, left.paper) /\ left.paper.y = side.paper.y
            /\ ~device.jet => /\ left.dc.xerr = side.dc.xerr
                              /\ left.paper.x = side.paper.x + 12 * (-(q.rel * Scale))
        BY <3>2 DEF MovedX
      <3>4. SameBand(q.dc, left.dc) /\ SamePaper(end.paper, left.paper)
        BY <1>3, <3>3 DEF SameBand, SamePaper
      <3>5. side.paper.x + 12 * (-(q.rel * Scale)) = side.paper.x - 12 * (q.rel * Scale)
        BY <2>s, <2>r
      <3> QED
        BY <1>3, <3>3, <3>4, <3>5
    <2> QED
      BY <2>1, <2>2
  <1> HIDE DEF left
  <1>5. /\ go \in Worlds /\ go.dc = left.dc /\ go.rel = 0 /\ go.paper.graphics
        /\ go.paper.x = left.paper.x /\ go.paper.y = left.paper.y
        /\ go.paper.marks = left.paper.marks
        /\ go.paper.margin = IF left.paper.graphics THEN left.paper.margin ELSE left.paper.y
    BY <1>4, StartFacts
  <1> HIDE DEF go
  <1>6. /\ r \in Worlds /\ r.dc = go.dc /\ r.rel = 0
        /\ r.paper.graphics = go.paper.graphics /\ r.paper.margin = go.paper.margin
        /\ r.paper.x = go.paper.x - 12 * Scale /\ r.paper.y = go.paper.y
        /\ r.paper.marks = go.paper.marks \cup
             {Mark(go, e, strip) : e \in {f \in row : f.p \div BYTE \in strip.start .. strip.end - 1}}
    <2>1. StripDone(go, row, strip, r)
      BY <1>5, TransferFacts
    <2> HIDE DEF r
    <2> QED
      BY <1>5, <2>1 DEF StripDone
  <1>7. go.paper.marks = q.paper.marks
    BY <1>1, <1>4, <1>5 DEF SamePaper
  <1>8. StripInk(q, row, strip, r)
    <2>1. r = Transfer(go, row, strip)
      OBVIOUS
    <2> HIDE DEF r
    <2> QED
      BY <1>5, <1>7, <2>1, StripDots
  <1> HIDE DEF r
  <1>g. /\ go.paper.x \in Int /\ go.paper.y \in Int /\ go.paper.margin \in Int
    BY <1>5 DEF Worlds, Cursors, Papers
  <1>9. ASSUME NEW R \in Int, RowAt(row, R), OnRow(q, IF first THEN R ELSE R + Dir),
               first \/ q.rel = 0, ~device.jet
        PROVE  OnRow(r, R + Dir)
    <2> DEFINE S == Scale
    <2>d. Dir = -1 /\ R + Dir = R - 1
      BY DEF Dir
    <2>1. InPlace(q.paper, q.dc.text) /\ q.dc.xerr = 0 /\ q.dc.yerr = 0
      BY <1>9 DEF OnRow, SmallErrors
    <2>2. go.paper.y = 12 * pos /\ go.dc.yerr = 0 /\ go.dc.xerr = 0
      <3>1. q.dc.cury = pos => q.paper.y + q.dc.yerr = 12 * pos
        BY <1>9, <1>t DEF OnRow, KnowsAlong, CurAlong, Along
      <3>2. q.paper.y + 0 = q.paper.y
        BY <1>q
      <3>3. side.paper.y = 12 * pos /\ side.dc.yerr = 0
        BY <1>3, <1>9, <2>1, <3>1, <3>2
      <3> QED
        BY <1>2, <1>3, <1>4, <1>5, <1>9, <2>1, <3>3
    <2>3. SmallErrors(go.dc)
      BY <1>9, <2>2 DEF SmallErrors
    <2>4. go.paper.margin = go.paper.y
      <3>1. CASE left.paper.graphics
        <4>1. ~moves /\ q.paper.graphics /\ left.paper.margin = q.paper.margin
          BY <1>1, <1>4, <3>1 DEF SamePaper
        <4>2. q.dc.cury = pos
          BY <4>1
        <4>4. side.paper.y = q.paper.y
          BY <1>3, <4>2
        <4>3. q.paper.margin = q.paper.y
          BY <1>9, <4>1 DEF OnRow
        <4> QED
          BY <1>4, <1>5, <3>1, <4>1, <4>3, <4>4
      <3>2. CASE ~left.paper.graphics
        BY <1>5, <3>2
      <3> QED
        BY <3>1, <3>2
    <2>5. R * S \in Int /\ (R - 1) * S = R * S - S
      BY <1>t
    <2>6. go.paper.x = 12 * (R * S)
      <3> DEFINE k == q.rel * S
      <3>0. k \in Int /\ S \in Int
        BY <1>q, <1>t
      <3>1. go.paper.x = (q.paper.x + (IF first THEN 0 ELSE 12 * S)) - 12 * k
        BY <1>2, <1>3, <1>4, <1>5, <1>9
      <3>s. Down(q) = q.paper.x + 0
        BY <2>1 DEF Down
      <3>3. CASE first
        <4>1. (q.paper.x + 0) + (-1) * (12 * k) = 12 * (R * S)
          BY <1>9, <2>d, <3>s, <3>3 DEF OnRow
        <4>2. go.paper.x = (q.paper.x + 0) - 12 * k
          BY <3>1, <3>3
        <4> HIDE DEF k, S
        <4> QED
          BY <1>q, <2>5, <3>0, <4>1, <4>2
      <3>4. CASE ~first
        <4>0. k = 0
          BY <1>9, <1>t, <3>4
        <4>1. (q.paper.x + 0) + (-1) * (12 * k) = 12 * ((R - 1) * S)
          BY <1>9, <2>d, <3>s, <3>4 DEF OnRow
        <4>2. go.paper.x = (q.paper.x + 12 * S) - 12 * k
          BY <3>1, <3>4
        <4> HIDE DEF k, S
        <4> QED
          BY <1>q, <2>5, <3>0, <4>0, <4>1, <4>2
      <3> QED
        BY <3>3, <3>4
    <2>7. ASSUME NEW e \in row
          PROVE  MarkInPlace(Mark(go, e, strip), go.dc.text)
      <3> DEFINE sb == strip.start * BYTE
                 along == go.paper.margin + (e.p - sb) * 12 * Scale
      <3>1. e.p \in Int /\ sb \in Int /\ e.dot \in Points
        BY <1>t DEF RowDots
      <3>2. e.dot[2] = e.p /\ e.dot[1] = R - 1
        BY <1>9 DEF RowAt, PlaceOf, RowOf
      <3>3. Mark(go, e, strip) =
              [dot |-> e.dot, start |-> strip.start, at |-> <<go.paper.x - 12 * Scale, along>>]
        BY DEF Mark
      <3>4. along = 12 * (e.p * S)
        <4>1. pos = sb * S
          BY DEF pos
        <4> HIDE DEF sb
        <4>2. (e.p - sb) * 12 * S = 12 * (e.p * S) - 12 * (sb * S)
          BY <1>t, <3>1
        <4>3. e.p * S \in Int /\ sb * S \in Int
          BY <1>t, <3>1
        <4> QED
          BY <1>g, <2>2, <2>4, <4>1, <4>2, <4>3
      <3>5. 12 * Scale * e.dot[2] = 12 * (e.p * S) /\ 12 * Scale * e.dot[1] = 12 * (R * S) - 12 * S
        BY <1>t, <2>5, <3>1, <3>2
      <3>6. e.p * S \in Int
        BY <1>t, <3>1
      <3> HIDE DEF along
      <3>7. along - 12 * (e.p * S) = 0 /\ (go.paper.x - 12 * S) - (12 * (R * S) - 12 * S) = 0
        BY <1>g, <1>t, <2>5, <2>6, <3>4, <3>6
      <3>8. 0 \in Tolerance
        BY DEF Tolerance
      <3> QED
        BY <3>3, <3>5, <3>7, <3>8 DEF MarkInPlace
    <2>8. InPlace(r.paper, r.dc.text)
      <3>1. r.dc.text = go.dc.text /\ go.dc.text = q.dc.text
        BY <1>4, <1>5, <1>6 DEF SameBand
      <3> QED
        BY <1>6, <1>7, <2>1, <2>7, <3>1 DEF InPlace
    <2>9. Down(r) + Dir * (12 * (r.rel * Scale)) = 12 * ((R + Dir) * Scale)
      <3>1. r.rel * S = 0
        BY <1>6, <1>t
      <3>2. Down(r) = 12 * (R * S) - 12 * S
        BY <1>6, <1>g, <1>t, <2>2, <2>5, <2>6 DEF Down
      <3> QED
        BY <1>t, <2>d, <2>5, <3>1, <3>2
    <2>10. Along(r) = 12 * CurAlong(r)
      BY <1>4, <1>5, <1>6, <1>t, <2>2 DEF Along, CurAlong
    <2>11. r.paper.margin = r.paper.y
      BY <1>6, <2>4
    <2> QED
      BY <1>6, <2>3, <2>8, <2>9, <2>10, <2>11 DEF OnRow
  <1> QED
    <2>1. SameBand(q.dc, r.dc)
      BY <1>4, <1>5, <1>6
    <2> QED
      BY <1>0, <1>6, <1>8, <1>9, <2>1 DEF StripSent, Exact

LEMMA StripFacts ==
  ASSUME device \in Devices, NEW q \in Worlds, NEW row \in SUBSET RowDots,
         NEW strip \in StripsOf, NEW first \in BOOLEAN
  PROVE  StripSent(q, row, strip, first, SendStrip(q, row, strip, first))
  <1>1. device.land \in BOOLEAN
    BY Sizes DEF Device
  <1>2. CASE device.land
    BY <1>2, LandscapeStrip DEF SendStrip
  <1>3. CASE ~device.land
    BY <1>3, PortraitStrip DEF SendStrip
  <1> QED
    BY <1>1, <1>2, <1>3

-----------------------------------------------------------------------------
(* The strips of a row.                                                    *)

\* A function that is defined from its value before exists.
Recurs(W, q, n, G, g) ==
  /\ g \in [0 .. n -> W]
  /\ g = [i \in 0 .. n |-> IF i = 0 THEN q ELSE G[<<g[i - 1], i>>]]

LEMMA Recursion ==
  ASSUME NEW W, NEW q \in W, NEW n \in Nat, NEW G \in [W \X (1 .. n) -> W]
  PROVE  \E g : Recurs(W, q, n, G, g)
  <1> DEFINE Is(k, g) == \A i \in 0 .. k : g[i] = IF i = 0 THEN q ELSE G[<<g[i - 1], i>>]
             Bad == {k \in 0 .. n : \A g \in [0 .. n -> W] : ~Is(k, g)}
  <1>1. ASSUME Bad # {} PROVE FALSE
    <2>1. Bad \in SUBSET Nat
      OBVIOUS
    <2>2. PICK k \in Bad : \A j \in Bad : k <= j
      BY <1>1, <2>1, LeastNat
    <2>3. CASE k = 0
      <3> DEFINE g == [i \in 0 .. n |-> q]
      <3>1. g \in [0 .. n -> W] /\ Is(0, g)
        OBVIOUS
      <3> QED
        BY <2>2, <2>3, <3>1
    <2>4. CASE k # 0
      <3>1. k \in 1 .. n /\ k - 1 \in 0 .. n /\ ~(k <= k - 1)
        BY <2>4
      <3>2. PICK h \in [0 .. n -> W] : Is(k - 1, h)
        BY <2>2, <3>1
      <3> DEFINE w == G[<<h[k - 1], k>>]
                 g == [h EXCEPT ![k] = w]
      <3>3. w \in W
        BY <3>1
      <3>4. g \in [0 .. n -> W] /\ g[k] = w /\ \A i \in 0 .. k - 1 : g[i] = h[i]
        BY <3>1, <3>3
      <3> HIDE DEF g
      <3>5. ASSUME NEW i \in 0 .. k
            PROVE  g[i] = IF i = 0 THEN q ELSE G[<<g[i - 1], i>>]
        <4>1. CASE i = k
          <5>1. g[k - 1] = h[k - 1] /\ k # 0
            BY <3>1, <3>4
          <5> QED
            BY <3>4, <4>1, <5>1
        <4>2. CASE i # k
          <5>1. i \in 0 .. k - 1 /\ (i # 0 => i - 1 \in 0 .. k - 1)
            BY <3>1, <4>2
          <5>2. h[i] = IF i = 0 THEN q ELSE G[<<h[i - 1], i>>]
            BY <3>2, <5>1
          <5> QED
            BY <3>4, <5>1, <5>2
        <4> QED
          BY <4>1, <4>2
      <3>6. Is(k, g)
        BY <3>5
      <3> QED
        BY <2>2, <3>4, <3>6
    <2> QED
      BY <2>3, <2>4
  <1>2. PICK g \in [0 .. n -> W] : Is(n, g)
    <2>1. n \in 0 .. n
      OBVIOUS
    <2>2. n \notin Bad
      <3> HIDE DEF Bad
      <3> QED
        BY <1>1
    <2> HIDE DEF Is
    <2> QED
      BY <2>1, <2>2
  <1>3. g = [i \in 0 .. n |-> IF i = 0 THEN q ELSE G[<<g[i - 1], i>>]]
    BY <1>2
  <1>4. Recurs(W, q, n, G, g)
    BY <1>3 DEF Recurs
  <1> QED
    BY <1>4

\* The strips of a row that is neither blank nor has ink in its last byte only: the
\* first byte with ink starts one, and each byte with ink is in one.
LEMMA StripsCover ==
  ASSUME NEW len \in Nat, NEW bytes \in SUBSET (0 .. len - 1), StripTrail(bytes) # 0
  PROVE  LET starts == RowStarts(bytes, len)
         IN  /\ starts \subseteq bytes
             /\ bytes = {len - 1} => starts = {}
             /\ bytes # {len - 1} => starts # {}
             /\ \A b \in starts : StripEnd(bytes, starts, b) \in Nat
             /\ bytes # {len - 1} => \A c \in bytes : \E b \in starts :
                  c \in b .. StripEnd(bytes, starts, b) - 1
  <1> DEFINE all == StripStarts(bytes, len)
             starts == RowStarts(bytes, len)
             last == Max(bytes \cup {0})
  <1>1. \A b \in bytes : b \in Nat /\ b <= len - 1
    OBVIOUS
  <1>2. last \in Nat /\ \A b \in bytes : b <= last
    <2>1. (bytes \cup {0}) \in SUBSET (0 .. len)
      BY <1>1
    <2>2. last \in bytes \cup {0} /\ \A b \in bytes \cup {0} : b <= last
      BY <2>1, MaxIs
    <2> HIDE DEF last
    <2>3. 0 \in Nat /\ last \in Nat
      BY <1>1, <2>2
    <2> QED
      BY <2>2, <2>3
  <1>3. StripTrail(bytes) = last + 1
    BY DEF StripTrail
  <1> HIDE DEF last
  <1>4. bytes # {}
    <2>1. bytes = {} => last = 0
      <3> DEFINE zero == {0}
      <3>1. zero \in SUBSET (0 .. 0) /\ zero # {}
        OBVIOUS
      <3>2. Max(zero) \in zero
        BY <3>1, MaxIs
      <3>3. bytes = {} => bytes \cup {0} = zero
        OBVIOUS
      <3> QED
        BY <3>2, <3>3 DEF last
    <2> QED
      BY <2>1 DEF StripTrail, last
  <1> DEFINE m == Min(bytes)
  <1>5. m \in bytes /\ \A b \in bytes : m <= b
    <2>1. bytes \in SUBSET Nat
      BY <1>1
    <2> QED
      BY <1>4, <2>1, MinIs
  <1> HIDE DEF m
  <1>6. all \subseteq bytes /\ \A b \in all : b # len - 1
    BY DEF StripStarts
  <1>7. bytes # {len - 1} => m \in all
    <2>1. ASSUME bytes # {len - 1}
          PROVE  m # len - 1
      <3>1. PICK b \in bytes : b # len - 1
        BY <1>4, <2>1
      <3> QED
        BY <1>1, <1>5, <3>1
    <2>2. (m - 1 - GAP) .. (m - 1) \cap bytes = {}
      BY <1>1, <1>5
    <2> QED
      BY <1>5, <2>1, <2>2 DEF StripStarts
  <1>8. /\ starts \subseteq all
        /\ bytes # {len - 1} => m \in starts
    <2>1. CASE BStripbits \/ all = {}
      BY <1>7, <2>1 DEF RowStarts
    <2>2. CASE ~(BStripbits \/ all = {})
      <3>1. starts = {Min(all)} /\ all # {} /\ all \in SUBSET Nat
        BY <1>1, <1>6, <2>2 DEF RowStarts
      <3>2. Min(all) \in all /\ \A b \in all : Min(all) <= b
        BY <3>1, MinIs
      <3>3. m \in all => Min(all) = m
        <4> DEFINE a == Min(all)
        <4>1. a \in bytes /\ (m \in all => a <= m)
          BY <1>6, <3>2
        <4> HIDE DEF a
        <4>2. a \in Nat /\ m \in Nat /\ m <= a
          BY <1>1, <1>5, <4>1
        <4>3. m \in all => a = m
          BY <4>1, <4>2
        <4> QED
          BY <4>3 DEF a
      <3> QED
        BY <1>7, <3>1, <3>2, <3>3
    <2> QED
      BY <2>1, <2>2
  <1>9. bytes = {len - 1} => starts = {}
    BY <1>6, <1>8
  <1> HIDE DEF all, starts
  <1>10. \A b \in starts : b \in bytes /\ b \in Nat
    BY <1>1, <1>6, <1>8
  <1>11. ASSUME NEW b \in starts
         PROVE  /\ StripEnd(bytes, starts, b) \in Nat
                /\ \A c \in bytes : (\A s \in starts : s > b => c < s) =>
                     c < StripEnd(bytes, starts, b)
    <2> DEFINE later == {s \in starts : s > b}
    <2>1. CASE later = {}
      <3>1. StripEnd(bytes, starts, b) = last + 1
        BY <1>3, <2>1 DEF StripEnd
      <3> QED
        BY <1>1, <1>2, <3>1
    <2>2. CASE later # {}
      <3> DEFINE n == Min(later)
                 before == {c \in bytes : c < n}
      <3>1. n \in later /\ n \in Nat /\ n \in starts /\ n > b
        <4>1. later \in SUBSET Nat
          BY <1>10
        <4>2. n \in later
          BY <2>2, <4>1, MinIs
        <4> QED
          BY <4>1, <4>2
      <3>e. StripEnd(bytes, starts, b) = Max(before) + 1
        BY <2>2 DEF StripEnd
      <3> HIDE DEF n
      <3>2. b \in before /\ before \in SUBSET (0 .. len)
        <4>1. b \in bytes /\ b < n
          BY <1>10, <3>1
        <4>2. \A c \in bytes : c \in 0 .. len
          BY <1>1
        <4> QED
          BY <4>1, <4>2
      <3>3. Max(before) \in before /\ \A c \in before : c <= Max(before)
        BY <3>2, MaxIs
      <3>4. Max(before) \in Nat
        BY <3>2, <3>3
      <3>5. ASSUME NEW c \in bytes, \A s \in starts : s > b => c < s
            PROVE  c < Max(before) + 1
        <4>1. c \in before
          BY <3>1, <3>5
        <4>2. c <= Max(before) /\ c \in Nat
          BY <1>1, <3>3, <4>1
        <4> QED
          BY <3>4, <4>2
      <3> HIDE DEF before
      <3> QED
        BY <3>e, <3>4, <3>5
    <2> QED
      BY <2>1, <2>2
  <1>12. ASSUME bytes # {len - 1}, NEW c \in bytes
         PROVE  \E b \in starts : c \in b .. StripEnd(bytes, starts, b) - 1
    <2> DEFINE upto == {s \in starts : s <= c}
               b == Max(upto)
    <2>1. upto # {} /\ upto \in SUBSET (0 .. len)
      BY <1>1, <1>5, <1>8, <1>10, <1>12
    <2>2. b \in upto /\ \A s \in upto : s <= b
      BY <2>1, MaxIs
    <2> HIDE DEF b
    <2>3. b \in starts /\ b <= c /\ b \in Nat /\ c \in Nat
      BY <1>1, <1>10, <2>2
    <2>4. \A s \in starts : s > b => c < s
      BY <1>10, <2>2, <2>3
    <2>5. c < StripEnd(bytes, starts, b) /\ StripEnd(bytes, starts, b) \in Nat
      BY <1>11, <2>3, <2>4
    <2>6. c \in b .. StripEnd(bytes, starts, b) - 1
      BY <2>3, <2>5
    <2> QED
      BY <2>3, <2>6
  <1>13. starts \subseteq bytes
    BY <1>10
  <1>14. bytes # {len - 1} => starts # {}
    BY <1>8
  <1> QED
    BY <1>9, <1>11, <1>12, <1>13, <1>14 DEF starts

\* A row whose strips up to some byte are sent; none of them is printed as a dot that
\* is not in the row, and the position is that of the next row once one is sent.
RowPart(q, row, done, strips, r) ==
  /\ r \in Worlds /\ SameBand(q.dc, r.dc)
  /\ q.paper.marks \subseteq r.paper.marks
  /\ \A m \in r.paper.marks : m \in q.paper.marks \/ \E e \in row : m.dot = e.dot
  /\ done = {} => r = q
  /\ done # {} => r.rel = 0
  /\ \A b \in done, e \in row : e.p \div BYTE \in b .. strips[b] - 1 => e.dot \in Printed(r.paper)
  /\ done # {} /\ Exact => \A R \in Int : RowAt(row, R) /\ OnRow(q, R) => OnRow(r, R + Dir)

\* One more strip.
LEMMA RowStep ==
  ASSUME device \in Devices, NEW q \in Worlds, NEW row \in SUBSET RowDots, NEW done,
         NEW strips, NEW r, RowPart(q, row, done, strips, r), NEW b \in Nat, strips[b] \in Nat,
         NEW first \in BOOLEAN, first <=> done = {}, NEW strip,
         strip = [start |-> b, end |-> strips[b]]
  PROVE  RowPart(q, row, done \cup {b}, strips, SendStrip(r, row, strip, first))
  <1> DEFINE s == SendStrip(r, row, strip, first)
  <1>1. strip \in StripsOf /\ strip.start = b /\ strip.end = strips[b]
    BY DEF StripsOf
  <1>2. r \in Worlds
    BY DEF RowPart
  <1>3. StripSent(r, row, strip, first, s)
    BY <1>1, <1>2, StripFacts
  <1> HIDE DEF s
  <1>4. /\ s \in Worlds /\ s.rel = 0 /\ SameBand(r.dc, s.dc)
        /\ r.paper.marks \subseteq s.paper.marks
        /\ \A m \in s.paper.marks : m \in r.paper.marks \/ \E e \in row : m.dot = e.dot
        /\ \A e \in row : e.p \div BYTE \in b .. strips[b] - 1 => e.dot \in Printed(s.paper)
    BY <1>1, <1>3 DEF StripSent, StripInk
  <1>5. SameBand(q.dc, s.dc)
    BY <1>4 DEF RowPart, SameBand
  <1>6. ASSUME NEW c \in done \cup {b}, NEW e \in row, e.p \div BYTE \in c .. strips[c] - 1
        PROVE  e.dot \in Printed(s.paper)
    <2>1. CASE c = b
      BY <1>4, <1>6, <2>1
    <2>2. CASE c \in done
      <3>1. e.dot \in Printed(r.paper)
        BY <1>6, <2>2 DEF RowPart
      <3> QED
        BY <1>4, <3>1 DEF Printed
    <2> QED
      BY <2>1, <2>2
  <1>7. ASSUME Exact, NEW R \in Int, RowAt(row, R), OnRow(q, R)
        PROVE  OnRow(s, R + Dir)
    <2>1. OnRow(r, IF first THEN R ELSE R + Dir)
      BY <1>7 DEF RowPart
    <2>2. first \/ r.rel = 0
      BY DEF RowPart
    <2>3. \A S \in Int : RowAt(row, S) /\ OnRow(r, IF first THEN S ELSE S + Dir)
                         /\ (first \/ r.rel = 0) => OnRow(s, S + Dir)
      BY <1>3, <1>7 DEF StripSent
    <2> QED
      BY <1>7, <2>1, <2>2, <2>3
  <1>8. \A m \in s.paper.marks : m \in q.paper.marks \/ \E e \in row : m.dot = e.dot
    BY <1>4 DEF RowPart
  <1>9. q.paper.marks \subseteq s.paper.marks
    BY <1>4 DEF RowPart
  <1>10. RowPart(q, row, done \cup {b}, strips, s)
    BY <1>4, <1>5, <1>6, <1>7, <1>8, <1>9 DEF RowPart
  <1> QED
    BY <1>10 DEF s

\* All the strips of a row that is not blank.
LEMMA StripsSent ==
  ASSUME device \in Devices, NEW q \in Worlds, NEW row \in SUBSET RowDots, NEW len \in Nat,
         Bytes(row) \subseteq 0 .. len - 1, StripTrail(Bytes(row)) # 0
  PROVE  LET starts == RowStarts(Bytes(row), len)
             strips == [b \in starts |-> StripEnd(Bytes(row), starts, b)]
         IN  RowPart(q, row, starts, strips, SendRow(q, row, len))
  <1> DEFINE bytes == Bytes(row)
             starts == RowStarts(bytes, len)
             strips == [b \in starts |-> StripEnd(bytes, starts, b)]
             strip(b) == [start |-> b, end |-> StripEnd(bytes, starts, b)]
             after(w, b) == SendStrip(w, row, strip(b), starts \cap 0 .. b - 1 = {})
             Is(f) == f = [b \in 0 .. len |->
                             IF b = 0 THEN q
                             ELSE IF b - 1 \in starts
                             THEN SendStrip(f[b - 1], row, strip(b - 1), starts \cap 0 .. b - 2 = {})
                             ELSE f[b - 1]]
  <1>s. /\ starts \subseteq 0 .. len - 1
        /\ \A b \in starts : StripEnd(bytes, starts, b) \in Nat
    BY StripsCover
  <1>1. SendRow(q, row, len) = (CHOOSE f : Is(f))[len]
    BY DEF SendRow
  <1> HIDE DEF bytes, starts
  <1>2. \A w \in Worlds, b \in starts : after(w, b) \in Worlds
    <2> SUFFICES ASSUME NEW w \in Worlds, NEW b \in starts
                 PROVE  after(w, b) \in Worlds
      OBVIOUS
    <2> DEFINE p == strip(b)
               first == starts \cap 0 .. b - 1 = {}
    <2>1. p \in StripsOf /\ first \in BOOLEAN
      BY <1>s DEF StripsOf
    <2> HIDE DEF p, first
    <2>2. StripSent(w, row, p, first, SendStrip(w, row, p, first))
      BY <2>1, StripFacts
    <2> QED
      BY <2>2 DEF StripSent, p, first
  <1>3. \E f \in [0 .. len -> Worlds] : Is(f)
    <2> DEFINE G == [x \in Worlds \X (1 .. len) |->
                       IF x[2] - 1 \in starts
                       THEN SendStrip(x[1], row, strip(x[2] - 1), starts \cap 0 .. x[2] - 2 = {})
                       ELSE x[1]]
    <2>1. ASSUME NEW w \in Worlds, NEW b \in 1 .. len
          PROVE  (IF b - 1 \in starts
                  THEN SendStrip(w, row, strip(b - 1), starts \cap 0 .. b - 2 = {})
                  ELSE w) \in Worlds
      <3>1. b - 2 = (b - 1) - 1
        OBVIOUS
      <3> HIDE DEF strip
      <3>2. b - 1 \in starts => after(w, b - 1) \in Worlds
        BY <1>2
      <3> QED
        BY <3>1, <3>2
    <2>2. G \in [Worlds \X (1 .. len) -> Worlds]
      <3> HIDE DEF strip
      <3> QED
        BY <2>1
    <2>3. \A w \in Worlds, b \in 1 .. len :
            G[<<w, b>>] = IF b - 1 \in starts
                          THEN SendStrip(w, row, strip(b - 1), starts \cap 0 .. b - 2 = {})
                          ELSE w
      <3> HIDE DEF strip
      <3> QED
        OBVIOUS
    <2> HIDE DEF G, strip
    <2>r. PICK f : Recurs(Worlds, q, len, G, f)
      BY <2>2, Recursion
    <2>4. /\ f \in [0 .. len -> Worlds]
          /\ f = [b \in 0 .. len |-> IF b = 0 THEN q ELSE G[<<f[b - 1], b>>]]
      BY <2>r DEF Recurs
    <2>5. \A b \in 0 .. len : b # 0 => b - 1 \in 0 .. len /\ b \in 1 .. len
      OBVIOUS
    <2>6. \A b \in 0 .. len : b # 0 =>
            G[<<f[b - 1], b>>] = IF b - 1 \in starts
                          THEN SendStrip(f[b - 1], row, strip(b - 1), starts \cap 0 .. b - 2 = {})
                          ELSE f[b - 1]
      BY <2>3, <2>4, <2>5
    <2>7. Is(f)
      BY <2>4, <2>6
    <2> HIDE DEF Is
    <2> QED
      BY <2>4, <2>7
  <1> DEFINE sent == CHOOSE f : Is(f)
  <1>4. Is(sent)
    <2> HIDE DEF Is
    <2> QED
      BY <1>3
  <1>5. \A b \in 0 .. len : sent[b] = IF b = 0 THEN q
                                      ELSE IF b - 1 \in starts THEN after(sent[b - 1], b - 1)
                                      ELSE sent[b - 1]
    <2> HIDE DEF sent, strip
    <2>1. \A b \in 0 .. len : b - 2 = (b - 1) - 1
      OBVIOUS
    <2> QED
      BY <1>4, <2>1
  <1> HIDE DEF sent, Is
  <1> DEFINE OK(b) == RowPart(q, row, starts \cap 0 .. b - 1, strips, sent[b])
             Bad == {b \in 0 .. len : ~OK(b)}
  <1>6. ASSUME Bad # {} PROVE FALSE
    <2>1. Bad \in SUBSET Nat
      OBVIOUS
    <2>2. PICK b \in Bad : \A c \in Bad : b <= c
      BY <1>6, <2>1, LeastNat
    <2>3. CASE b = 0
      <3> DEFINE none == starts \cap 0 .. b - 1
      <3>0. b \in 0 .. len /\ 0 .. b - 1 = {}
        BY <2>3
      <3>1. sent[b] = q /\ none = {}
        <4> HIDE DEF strips, after
        <4> QED
          BY <1>5, <2>3, <3>0
      <3> HIDE DEF none
      <3>2. RowPart(q, row, none, strips, q)
        BY <3>1 DEF RowPart, SameBand
      <3> QED
        BY <2>2, <3>1, <3>2 DEF none
    <2>4. CASE b # 0
      <3>1. b - 1 \in 0 .. len /\ ~(b <= b - 1) /\ b - 1 \in Nat
        BY <2>4
      <3>2. RowPart(q, row, starts \cap 0 .. (b - 1) - 1, strips, sent[b - 1])
        BY <2>2, <3>1
      <3> DEFINE done == starts \cap 0 .. (b - 1) - 1
                 now == starts \cap 0 .. b - 1
                 c == b - 1
      <3>3. CASE c \in starts
        <4>1. sent[b] = SendStrip(sent[c], row, strip(c), done = {})
          BY <1>5, <2>4, <3>3
        <4>2. now = done \cup {c}
          BY <1>s, <3>1, <3>3
        <4>3. strips[c] \in Nat /\ strip(c) = [start |-> c, end |-> strips[c]] /\ c \in Nat
          BY <1>s, <3>1, <3>3
        <4> DEFINE p == strip(c)
                   first == done = {}
        <4>4. first \in BOOLEAN /\ (first <=> done = {})
          OBVIOUS
        <4>5. p = [start |-> c, end |-> strips[c]]
          BY <4>3
        <4>6. sent[b] = SendStrip(sent[c], row, p, first)
          BY <4>1
        <4>7. RowPart(q, row, done, strips, sent[c])
          BY <3>2
        <4> HIDE DEF p, first, done, now, c, strips, strip
        <4>8. RowPart(q, row, done \cup {c}, strips, sent[b])
          BY <4>3, <4>4, <4>5, <4>6, <4>7, RowStep
        <4> QED
          BY <2>2, <4>2, <4>8 DEF now
      <3>4. CASE c \notin starts
        <4>1. sent[b] = sent[c]
          BY <1>5, <2>4, <3>4
        <4>2. now = done
          BY <1>s, <3>1, <3>4
        <4> HIDE DEF strips, RowPart
        <4> QED
          BY <2>2, <3>2, <4>1, <4>2
      <3> QED
        BY <3>3, <3>4
    <2> QED
      BY <2>3, <2>4
  <1>7. OK(len)
    <2> HIDE DEF OK
    <2>1. len \in 0 .. len /\ len \notin Bad
      BY <1>6
    <2> QED
      BY <2>1
  <1>8. starts \cap 0 .. len - 1 = starts
    BY <1>s
  <1> HIDE DEF strips
  <1>9. RowPart(q, row, starts, strips, sent[len])
    BY <1>7, <1>8
  <1> QED
    BY <1>1, <1>9 DEF sent, starts, strips, bytes

\* A row is sent: the dots of it that can be, and the printer is on the next.
RowSent(q, row, len, r) ==
  /\ r \in Worlds /\ SameBand(q.dc, r.dc)
  /\ q.paper.marks \subseteq r.paper.marks
  /\ \A m \in r.paper.marks : m \in q.paper.marks \/ \E e \in row : m.dot = e.dot
  /\ Bytes(row) \notin {{0}, {len - 1}} => \A e \in row : e.dot \in Printed(r.paper)
  /\ Exact /\ ~(len > 1 /\ Bytes(row) = {len - 1}) =>
       \A R \in Int : RowAt(row, R) /\ OnRow(q, R) => OnRow(r, R + Dir)

LEMMA RowFacts ==
  ASSUME device \in Devices, NEW q \in Worlds, NEW row \in SUBSET RowDots, NEW len \in Nat,
         Bytes(row) \subseteq 0 .. len - 1
  PROVE  RowSent(q, row, len, SendRow(q, row, len))
  <1> DEFINE bytes == Bytes(row)
             r == SendRow(q, row, len)
  <1>b. \A e \in row : e.p \div BYTE \in bytes
    BY DEF Bytes
  <1>1. CASE StripTrail(bytes) = 0
    <2>1. r = [q EXCEPT !.rel = @ + 1]
      BY <1>1 DEF SendRow
    <2>2. r = [dc |-> q.dc, paper |-> q.paper, rel |-> q.rel + 1]
      BY <2>1 DEF Worlds
    <2> HIDE DEF r
    <2>3. r \in Worlds /\ r.dc = q.dc /\ r.paper = q.paper /\ r.rel = q.rel + 1
      BY <2>2 DEF Worlds
    <2>4. bytes = {0} \/ bytes = {}
      <3>1. (bytes \cup {0}) \in SUBSET (0 .. len)
        OBVIOUS
      <3> HIDE DEF bytes
      <3>2. Max(bytes \cup {0}) \in 0 .. len /\ \A b \in bytes : b <= Max(bytes \cup {0})
        BY <3>1, MaxIs
      <3>3. Max(bytes \cup {0}) = 0
        BY <1>1, <3>2 DEF StripTrail
      <3>4. \A b \in bytes : b \in 0 .. len /\ b <= 0
        BY <3>1, <3>2, <3>3
      <3> QED
        BY <3>4
    <2>5. bytes = {} => row = {}
      BY <1>b
    <2>6. ASSUME Exact, NEW R \in Int, OnRow(q, R)
          PROVE  OnRow(r, R + Dir)
      <3>1. /\ Along(r) = Along(q) /\ Down(r) = Down(q) /\ CurAlong(r) = CurAlong(q)
            /\ KnowsAlong(r) <=> KnowsAlong(q)
        BY <2>3 DEF Along, Down, KnowsAlong, CurAlong
      <3>2. Down(r) + Dir * (12 * (r.rel * Scale)) = 12 * ((R + Dir) * Scale)
        <4>1. Down(q) + Dir * (12 * (q.rel * Scale)) = 12 * (R * Scale)
          BY <2>6 DEF OnRow
        <4>2. Down(q) \in Int /\ q.rel \in Int /\ Scale \in {1, 2, 4} /\ Dir \in {-1, 1}
          BY Sizes DEF Down, Worlds, Cursors, Papers, Dir, Device
        <4>3. r.rel * Scale = q.rel * Scale + Scale /\ (R + Dir) * Scale = R * Scale + Dir * Scale
          BY <2>3, <4>2
        <4>4. q.rel * Scale \in Int /\ R * Scale \in Int /\ Scale \in Int
          BY <4>2
        <4> QED
          BY <3>1, <4>1, <4>2, <4>3, <4>4
      <3> QED
        BY <2>3, <2>6, <3>1, <3>2 DEF OnRow
    <2>7. SameBand(q.dc, r.dc)
      BY <2>3 DEF SameBand
    <2>8. RowSent(q, row, len, r)
      BY <2>3, <2>4, <2>5, <2>6, <2>7 DEF RowSent
    <2> QED
      BY <2>8 DEF r
  <1>2. CASE StripTrail(bytes) # 0
    <2> DEFINE starts == RowStarts(bytes, len)
               strips == [b \in starts |-> StripEnd(bytes, starts, b)]
    <2>1. RowPart(q, row, starts, strips, r)
      BY <1>2, StripsSent
    <2>2. /\ starts \subseteq bytes
          /\ bytes # {len - 1} => starts # {}
          /\ bytes = {len - 1} => starts = {}
          /\ bytes # {len - 1} => \A c \in bytes : \E b \in starts :
                  c \in b .. StripEnd(bytes, starts, b) - 1
      BY <1>2, StripsCover
    <2>3. \A b \in starts : strips[b] = StripEnd(bytes, starts, b)
      OBVIOUS
    <2>4. bytes = {len - 1} => len > 1
      <3>1. ASSUME bytes = {len - 1} PROVE len > 1
        <4>1. len - 1 \in 0 .. len - 1
          BY <3>1
        <4>2. len >= 1
          BY <4>1
        <4>3. bytes # {0}
          <5> DEFINE zero == {0}
          <5>1. Max(zero) = 0
            <6>1. zero \in SUBSET (0 .. 0) /\ zero # {}
              OBVIOUS
            <6>2. Max(zero) \in zero
              BY <6>1, MaxIs
            <6> QED
              BY <6>2
          <5>2. zero \cup {0} = zero
            OBVIOUS
          <5> HIDE DEF zero
          <5>3. StripTrail(zero) = 0
            BY <5>1, <5>2 DEF StripTrail
          <5>4. bytes # zero
            BY <1>2, <5>3
          <5> QED
            BY <5>4 DEF zero
        <4> QED
          BY <3>1, <4>2, <4>3
      <3> QED
        BY <3>1
    <2> HIDE DEF starts, strips, r
    <2>5. ASSUME bytes # {len - 1}, NEW e \in row
          PROVE  e.dot \in Printed(r.paper)
      <3>1. PICK b \in starts : e.p \div BYTE \in b .. strips[b] - 1
        BY <1>b, <2>2, <2>3, <2>5
      <3> QED
        BY <2>1, <3>1 DEF RowPart
    <2>6. ASSUME Exact, bytes # {len - 1}, NEW R \in Int, RowAt(row, R), OnRow(q, R)
          PROVE  OnRow(r, R + Dir)
      BY <2>1, <2>2, <2>6 DEF RowPart
    <2>7. RowSent(q, row, len, r)
      BY <2>1, <2>4, <2>5, <2>6 DEF RowSent, RowPart
    <2> QED
      BY <2>7 DEF r
  <1> QED
    BY <1>1, <1>2

-----------------------------------------------------------------------------
(* The bands.                                                              *)

\* Where a band starts, in rows, and the rows it has.
StartRow(band) == IF device.land THEN Width - DEPTH * (band - 1) ELSE (band - 1) * DEPTH

Line(band, i) == IF device.land THEN StartRow(band) - i ELSE StartRow(band) + (i - 1)

BandRows(band) ==
  IF device.land THEN NumBytes(BandSize(band)) * BYTE ELSE BandSize(band)

LEMMA MoreTimes ==
  ASSUME NEW a \in Nat, NEW b \in Nat, NEW d \in Nat, a < b
  PROVE  a * d + d <= b * d
  <1>1. b - a - 1 \in Nat
    OBVIOUS
  <1>2. (b - a - 1) * d >= 0
    BY <1>1
  <1>3. (b - a - 1) * d = b * d - a * d - d
    OBVIOUS
  <1>4. a * d \in Int /\ b * d \in Int
    OBVIOUS
  <1> QED
    BY <1>2, <1>3, <1>4

\* A length x in n pieces of d, of which the last is l; each place is in one of them.
InPieces(x, d, n, l) ==
  /\ n \in Nat \ {0} /\ l \in 1 .. d /\ (n - 1) * d + l = x
  /\ \A y \in 0 .. x - 1 : \E j \in 1 .. n :
       /\ (j - 1) * d <= y
       /\ y < (j - 1) * d + (IF j = n THEN l ELSE d)

LEMMA Pieces ==
  ASSUME NEW x \in Nat \ {0}, NEW d \in Nat \ {0}, NEW n, n = (x + d - 1) \div d,
         NEW l, l = IF x % d = 0 THEN d ELSE x % d
  PROVE  InPieces(x, d, n, l)
  <1> DEFINE k == x \div d
             m == x % d
  <1>1. k \in Nat /\ m \in 0 .. d - 1 /\ x = d * k + m
    OBVIOUS
  <1>2. l = IF m = 0 THEN d ELSE m
    OBVIOUS
  <1> HIDE DEF k, m
  <1>3. /\ m = 0 => n = k
        /\ m # 0 => n = k + 1
    <2>1. CASE m = 0
      <3>1. x + d - 1 = d * k + (d - 1) /\ d * k + (d - 1) \in Nat
        BY <1>1, <2>1
      <3>2. (d * k + (d - 1)) \div d = k
        BY <1>1
      <3> QED
        BY <2>1, <3>1, <3>2
    <2>2. CASE m # 0
      <3>1. x + d - 1 = d * (k + 1) + (m - 1) /\ m - 1 \in 0 .. d - 1
        BY <1>1, <2>2
      <3>2. (d * (k + 1) + (m - 1)) \div d = k + 1
        BY <1>1, <3>1
      <3> QED
        BY <2>2, <3>1, <3>2
    <2> QED
      BY <2>1, <2>2
  <1>4. m = 0 => k # 0
    <2>1. k = 0 => d * k = 0
      OBVIOUS
    <2> QED
      BY <1>1, <2>1
  <1>5. n \in Nat \ {0} /\ l \in 1 .. d
    BY <1>1, <1>2, <1>3, <1>4
  <1>6. (n - 1) * d + l = x
    <2>1. CASE m = 0
      <3>1. n = k /\ l = d /\ (k - 1) * d = d * k - d /\ d * k \in Int
        BY <1>1, <1>2, <1>3, <2>1
      <3> QED
        BY <1>1, <2>1, <3>1
    <2>2. CASE m # 0
      <3>1. n - 1 = k /\ l = m /\ k * d = d * k
        BY <1>1, <1>2, <1>3, <2>2
      <3> QED
        BY <1>1, <3>1
    <2> QED
      BY <2>1, <2>2
  <1>7. ASSUME NEW y \in 0 .. x - 1
        PROVE  \E j \in 1 .. n : /\ (j - 1) * d <= y
                                 /\ y < (j - 1) * d + (IF j = n THEN l ELSE d)
    <2> DEFINE c == y \div d
    <2>1. c \in Nat /\ d * c <= y /\ y < d * c + d /\ y \in Nat
      BY DivFacts
    <2> HIDE DEF c
    <2>2. c * d = d * c /\ d * c \in Int /\ (n - 1) * d \in Int /\ (n - 1) * d + d = n * d
      BY <1>5, <2>1
    <2>3. c < n
      <3>1. ASSUME n <= c PROVE FALSE
        <4>1. n * d <= c * d
          <5>1. n = c \/ n < c
            BY <1>5, <2>1, <3>1
          <5>2. n < c => n * d + d <= c * d
            BY <1>5, <2>1, MoreTimes
          <5>3. n * d \in Int /\ c * d \in Int
            BY <1>5, <2>1
          <5> QED
            BY <5>1, <5>2, <5>3
        <4>2. n * d \in Int /\ y < x /\ x <= n * d
          BY <1>5, <1>6, <2>2
        <4> QED
          BY <2>1, <2>2, <4>1, <4>2
      <3> QED
        BY <1>5, <2>1, <3>1
    <2>4. c + 1 \in 1 .. n /\ (c + 1) - 1 = c
      BY <1>5, <2>1, <2>3
    <2>5. c + 1 = n => y < c * d + l
      <3>1. c + 1 = n => c = n - 1
        BY <1>5, <2>1
      <3> QED
        BY <1>5, <1>6, <2>1, <2>2, <3>1
    <2>6. c * d <= y /\ y < c * d + (IF c + 1 = n THEN l ELSE d)
      BY <2>1, <2>2, <2>5
    <2> QED
      BY <2>4, <2>6
  <1> QED
    BY <1>5, <1>6, <1>7 DEF InPieces

LEMMA BandSizes ==
  ASSUME device \in Devices
  PROVE  /\ NumBands \in Nat \ {0}
         /\ (NumBands - 1) * DEPTH + LastBandSz = Extent
         /\ \A y \in 0 .. Extent - 1 : \E j \in 1 .. NumBands :
              (j - 1) * DEPTH <= y /\ y < (j - 1) * DEPTH + BandSize(j)
         /\ \A j \in 1 .. NumBands :
              /\ BandSize(j) \in 1 .. DEPTH
              /\ (j - 1) * DEPTH \in Nat
              /\ (j - 1) * DEPTH + BandSize(j) <= Extent
              /\ j # NumBands => BandSize(j) = DEPTH /\ (j - 1) * DEPTH + DEPTH = j * DEPTH
  <1>1. Extent \in Nat \ {0}
    BY Sizes
  <1>2. /\ NumBands \in Nat \ {0} /\ LastBandSz \in 1 .. DEPTH
        /\ (NumBands - 1) * DEPTH + LastBandSz = Extent
        /\ \A y \in 0 .. Extent - 1 : \E j \in 1 .. NumBands :
             /\ (j - 1) * DEPTH <= y
             /\ y < (j - 1) * DEPTH + (IF j = NumBands THEN LastBandSz ELSE DEPTH)
    <2>1. /\ NumBands = (Extent + DEPTH - 1) \div DEPTH
          /\ LastBandSz = IF Extent % DEPTH = 0 THEN DEPTH ELSE Extent % DEPTH
      BY DEF NumBands, LastBandSz
    <2>2. InPieces(Extent, DEPTH, NumBands, LastBandSz)
      BY <1>1, <2>1, Pieces
    <2> QED
      BY <2>2 DEF InPieces
  <1>3. \A j : BandSize(j) = IF j = NumBands THEN LastBandSz ELSE DEPTH
    BY DEF BandSize
  <1>4. ASSUME NEW j \in 1 .. NumBands
        PROVE  /\ BandSize(j) \in 1 .. DEPTH
               /\ (j - 1) * DEPTH \in Nat
               /\ (j - 1) * DEPTH + BandSize(j) <= Extent
               /\ j # NumBands => BandSize(j) = DEPTH /\ (j - 1) * DEPTH + DEPTH = j * DEPTH
    <2>1. BandSize(j) \in 1 .. DEPTH
      BY <1>2, <1>3
    <2>2. (j - 1) * DEPTH \in Nat /\ (j - 1) * DEPTH + DEPTH = j * DEPTH
      BY <1>2
    <2>3. j # NumBands => (j - 1) * DEPTH + DEPTH <= (NumBands - 1) * DEPTH
      BY <1>2, MoreTimes
    <2>4. (NumBands - 1) * DEPTH \in Int /\ LastBandSz \in Nat /\ Extent \in Int
      BY <1>1, <1>2
    <2>5. (j - 1) * DEPTH + BandSize(j) <= Extent
      BY <1>2, <1>3, <2>2, <2>3, <2>4
    <2> QED
      BY <1>3, <2>1, <2>2, <2>5
  <1>5. \A y \in 0 .. Extent - 1 : \E j \in 1 .. NumBands :
          (j - 1) * DEPTH <= y /\ y < (j - 1) * DEPTH + BandSize(j)
    <2> HIDE DEF Extent
    <2> QED
      BY <1>2, <1>3
  <1> QED
    BY <1>2, <1>4, <1>5

\* The rectangle of a band and its bitmap, by the row where it starts.
LEMMA BandPlaces ==
  ASSUME device \in Devices, NEW band \in 1 .. NumBands
  PROVE  /\ StartRow(band) \in Nat /\ BandStart(band) = StartRow(band) * Scale
         /\ BandSize(band) \in 1 .. DEPTH
         /\ device.land => /\ StartRow(band) - BandSize(band) >= 0
                           /\ StartRow(band) <= Width
                           /\ BandLeft(band) = StartRow(band) - BandSize(band)
         /\ ~device.land => StartRow(band) + BandSize(band) <= Height
         /\ BandSize(band) <= BandRows(band) /\ BandRows(band) \in Nat
         /\ band # NumBands => BandRows(band) = DEPTH /\ BandSize(band) = DEPTH
         /\ band # NumBands => StartRow(band) + Dir * DEPTH = StartRow(band + 1)
  <1> DEFINE z == (band - 1) * DEPTH
             s == BandSize(band)
  <1>1. /\ NumBands \in Nat \ {0} /\ s \in 1 .. DEPTH /\ z \in Nat /\ z + s <= Extent
        /\ band # NumBands => s = DEPTH /\ z + DEPTH = band * DEPTH
    BY BandSizes
  <1>2. band = NumBands => z + s = Extent
    BY BandSizes DEF BandSize
  <1>3. /\ device.land \in BOOLEAN /\ Width \in Nat /\ Height \in Nat /\ Scale \in {1, 2, 4}
        /\ Extent = IF device.land THEN Width ELSE Height
    BY Sizes DEF Device, Extent
  <1>4. StartRow(band) = IF device.land THEN Width - z ELSE z
    BY <1>1 DEF StartRow
  <1>5. /\ s <= NumBytes(s) * BYTE /\ NumBytes(s) * BYTE \in Nat
        /\ s = DEPTH => NumBytes(s) * BYTE = DEPTH
    BY <1>1, WordFacts
  <1>6. BandStart(band) = StartRow(band) * Scale
    BY DEF BandStart, StartRow
  <1>7. StartRow(band + 1) = IF device.land THEN Width - DEPTH * band ELSE band * DEPTH
    BY DEF StartRow
  <1>8. BandLeft(band) = IF band = NumBands THEN 0 ELSE Width - DEPTH * band
    BY DEF BandLeft
  <1>9. BandRows(band) = IF device.land THEN NumBytes(s) * BYTE ELSE s
    BY DEF BandRows
  <1>10. DEPTH * band = band * DEPTH /\ band * DEPTH \in Int
    OBVIOUS
  <1> HIDE DEF z, s
  <1>11. CASE device.land
    <2>1. StartRow(band) \in Nat /\ StartRow(band) - s >= 0 /\ StartRow(band) <= Width
      BY <1>1, <1>3, <1>4, <1>11
    <2>2. BandLeft(band) = StartRow(band) - s
      BY <1>1, <1>2, <1>3, <1>4, <1>8, <1>10, <1>11
    <2>3. band # NumBands => StartRow(band) + Dir * DEPTH = StartRow(band + 1)
      BY <1>1, <1>3, <1>4, <1>7, <1>10, <1>11 DEF Dir
    <2> QED
      BY <1>1, <1>5, <1>6, <1>9, <1>11, <2>1, <2>2, <2>3 DEF s
  <1>12. CASE ~device.land
    <2>1. StartRow(band) \in Nat /\ StartRow(band) + s <= Height
      BY <1>1, <1>3, <1>4, <1>12
    <2>2. band # NumBands => StartRow(band) + Dir * DEPTH = StartRow(band + 1)
      BY <1>1, <1>3, <1>4, <1>7, <1>10, <1>12 DEF Dir
    <2> QED
      BY <1>1, <1>5, <1>6, <1>9, <1>12, <2>1, <2>2 DEF s
  <1> QED
    BY <1>3, <1>11, <1>12

\* Each dot is in a band, and in a band in one of its rows.
LEMMA DotsInBands ==
  ASSUME device \in Devices, Inks_, NEW d \in ink
  PROVE  /\ \E band \in 1 .. NumBands : InBand(d, band)
         /\ \A band \in 1 .. NumBands :
              InBand(d, band) <=> \E i \in 1 .. BandSize(band) : RowOf(d) = Line(band, i)
  <1>1. d[1] \in 0 .. Width - 1 /\ d[2] \in 0 .. Height - 1
    BY DEF Inks_
  <1>2. device.land \in BOOLEAN /\ Width \in Nat /\ Height \in Nat
    BY Sizes DEF Device
  <1>3. ASSUME NEW band \in 1 .. NumBands
        PROVE  /\ InBand(d, band) <=> IF device.land
                    THEN StartRow(band) - BandSize(band) <= d[1] /\ d[1] < StartRow(band)
                    ELSE StartRow(band) <= d[2] /\ d[2] < StartRow(band) + BandSize(band)
               /\ InBand(d, band) <=> \E i \in 1 .. BandSize(band) : RowOf(d) = Line(band, i)
    <2> DEFINE s == BandSize(band)
               z == StartRow(band)
    <2>1. /\ z \in Nat /\ s \in 1 .. DEPTH
          /\ device.land => BandLeft(band) = z - s /\ z - s >= 0
          /\ ~device.land => z = (band - 1) * DEPTH
      BY BandPlaces DEF StartRow
    <2>2. CASE device.land
      <3>1. /\ BandRect(band).left = z - s /\ BandRect(band).right = (z - s) + s
            /\ BandRect(band).top = 0 /\ BandRect(band).bottom = Height
        BY <2>1, <2>2 DEF BandRect
      <3> HIDE DEF s, z
      <3>2. InBand(d, band) <=> z - s <= d[1] /\ d[1] < z
        BY <1>1, <1>2, <2>1, <3>1 DEF InBand
      <3>3. z - s <= d[1] /\ d[1] < z <=> \E i \in 1 .. s : d[1] = z - i
        <4>1. z - s <= d[1] /\ d[1] < z => z - d[1] \in 1 .. s /\ d[1] = z - (z - d[1])
          BY <1>1, <1>2, <2>1
        <4>2. \A i \in 1 .. s : d[1] = z - i => z - s <= d[1] /\ d[1] < z
          BY <1>1, <1>2, <2>1
        <4> QED
          BY <4>1, <4>2
      <3> QED
        BY <2>2, <3>2, <3>3 DEF RowOf, Line, s, z
    <2>3. CASE ~device.land
      <3>1. /\ BandRect(band).left = 0 /\ BandRect(band).right = Width
            /\ BandRect(band).top = z /\ BandRect(band).bottom = z + s
        BY <2>1, <2>3 DEF BandRect
      <3> HIDE DEF s, z
      <3>2. InBand(d, band) <=> z <= d[2] /\ d[2] < z + s
        BY <1>1, <1>2, <2>1, <3>1 DEF InBand
      <3>3. z <= d[2] /\ d[2] < z + s <=> \E i \in 1 .. s : d[2] = z + (i - 1)
        <4>1. z <= d[2] /\ d[2] < z + s =>
                /\ d[2] - z + 1 \in 1 .. s /\ d[2] = z + ((d[2] - z + 1) - 1)
          BY <1>1, <1>2, <2>1
        <4>2. \A i \in 1 .. s : d[2] = z + (i - 1) => z <= d[2] /\ d[2] < z + s
          BY <1>1, <1>2, <2>1
        <4> QED
          BY <4>1, <4>2
      <3> QED
        BY <2>3, <3>2, <3>3 DEF RowOf, Line, s, z
    <2> QED
      BY <1>2, <2>2, <2>3
  <1>4. \E band \in 1 .. NumBands : InBand(d, band)
    <2> DEFINE y == IF device.land THEN Width - 1 - d[1] ELSE d[2]
    <2>1. y \in 0 .. Extent - 1 /\ y \in Int
      BY <1>1, <1>2 DEF Extent
    <2> HIDE DEF y
    <2>2. PICK j \in 1 .. NumBands : (j - 1) * DEPTH <= y /\ y < (j - 1) * DEPTH + BandSize(j)
      BY <2>1, BandSizes
    <2> DEFINE z == (j - 1) * DEPTH
               s == BandSize(j)
    <2>3. z \in Nat /\ s \in Nat /\ StartRow(j) = IF device.land THEN Width - z ELSE z
      <3>1. NumBands \in Nat /\ j \in Nat
        BY BandSizes
      <3>2. DEPTH * (j - 1) = (j - 1) * DEPTH
        BY <3>1
      <3> QED
        BY <3>2, BandSizes DEF StartRow
    <2>4. z <= y /\ y < z + s
      BY <2>2
    <2> HIDE DEF z, s
    <2>5. IF device.land THEN StartRow(j) - s <= d[1] /\ d[1] < StartRow(j)
          ELSE StartRow(j) <= d[2] /\ d[2] < StartRow(j) + s
      BY <1>1, <1>2, <2>1, <2>3, <2>4 DEF y
    <2> QED
      BY <1>3, <2>5 DEF s
  <1> QED
    BY <1>3, <1>4

-----------------------------------------------------------------------------
(* The rows of a band.                                                     *)

BandNow(band) ==
  /\ bitmap = Drawn(band)
  /\ dc.bmWidthBytes = BandBitmap(band).bytes
  /\ dc.bmHeight = BandBitmap(band).rows

\* Where a dot of the band lies in its bitmap.
At(band, d) ==
  IF device.land THEN <<(d[1] - StartRow(band)) + BandRows(band), d[2]>>
  ELSE <<d[1], d[2] - StartRow(band)>>

\* The dots of a row of the page, as the printer can get them.
LineDots(y) == {d \in ink : RowOf(d) = y /\ PlaceOf(d) \div BYTE < RowBytes}
Ruled(y) == {[p |-> PlaceOf(d), dot |-> d] : d \in LineDots(y)}

BitmapRow(i) == IF device.land THEN LandscapeRow(i) ELSE PortraitRow(i)
BandRow(band, i) == IF i <= BandSize(band) THEN Ruled(Line(band, i)) ELSE {}

LEMMA DrawnIs ==
  ASSUME device \in Devices, Inks_, NEW band \in 1 .. NumBands
  PROVE  Drawn(band) = {[dot |-> d, at |-> At(band, d)] : d \in {e \in ink : InBand(e, band)}}
  <1> DEFINE off == BandOffsets(band)
             in == {e \in ink : InBand(e, band)}
  <1>1. Drawn(band) = {[dot |-> d, at |-> <<d[1] - off.x, d[2] - off.y>>] : d \in in}
    BY DEF Drawn, InBand
  <1>2. ASSUME NEW d \in ink
        PROVE  <<d[1] - off.x, d[2] - off.y>> = At(band, d)
    <2> DEFINE z == StartRow(band)
               s == BandSize(band)
               w == NumBytes(s) * BYTE
    <2>1. d[1] \in Int /\ d[2] \in Int
      BY DEF Inks_
    <2>2. /\ device.land \in BOOLEAN /\ z \in Nat /\ s \in 1 .. DEPTH
          /\ device.land => BandLeft(band) = z - s
          /\ ~device.land => z = (band - 1) * DEPTH
      BY BandPlaces, Sizes DEF StartRow, Device
    <2>3. w \in Nat
      BY <2>2, WordFacts
    <2>4. CASE device.land
      <3>1. off.x = BandLeft(band) - (w - s) /\ off.y = 0 /\ BandRows(band) = w
        BY <2>4 DEF BandOffsets, BandRows
      <3> HIDE DEF z, s, w, off
      <3>2. d[1] - off.x = (d[1] - z) + w /\ d[2] - off.y = d[2]
        BY <2>1, <2>2, <2>3, <2>4, <3>1
      <3> QED
        BY <2>4, <3>1, <3>2 DEF At, z
    <2>5. CASE ~device.land
      <3>1. off.x = 0 /\ off.y = z
        BY <2>2, <2>5 DEF BandOffsets
      <3> HIDE DEF z, s, w, off
      <3>2. d[1] - off.x = d[1] /\ d[2] - off.y = d[2] - z
        BY <2>1, <3>1
      <3> QED
        BY <2>5, <3>2 DEF At, z
    <2> QED
      BY <2>2, <2>4, <2>5
  <1> HIDE DEF off
  <1> QED
    BY <1>1, <1>2

LEMMA DrawnFits ==
  ASSUME device \in Devices, Inks_, NEW band \in 1 .. NumBands
  PROVE  LET bm == BandBitmap(band)
         IN  /\ bm.bytes \in Nat /\ bm.rows \in Nat
             /\ bm.bytes * bm.rows <= BandBitmapSize
             /\ BandRows(band) = IF device.land THEN bm.bytes * BYTE ELSE bm.rows
             /\ bm.bytes * BYTE \in Nat
             /\ \A b \in Drawn(band) : /\ b.at[1] \in 0 .. bm.bytes * BYTE - 1
                                       /\ b.at[2] \in 0 .. bm.rows - 1
  <1> DEFINE bm == BandBitmap(band)
             s == BandSize(band)
             z == StartRow(band)
  <1>1. /\ device.land \in BOOLEAN /\ Width \in Nat /\ Height \in Nat
        /\ s \in 1 .. DEPTH /\ z \in Nat /\ s <= BandRows(band) /\ BandRows(band) \in Nat
    BY BandPlaces, Sizes DEF Device
  <1>2. /\ NumBytes(s) \in Nat /\ NumBytes(s) <= NumBytes(DEPTH) /\ NumBytes(DEPTH) \in Nat
        /\ NumBytes(Width) \in Nat /\ Width <= NumBytes(Width) * BYTE
    BY <1>1, WordFacts
  <1>3. \A b \in Drawn(band) : \E d \in ink : InBand(d, band) /\ b.at = At(band, d)
    BY DrawnIs
  <1>4. \A a, b, n \in Nat : a <= b => a * n <= b * n
    <2> SUFFICES ASSUME NEW a \in Nat, NEW b \in Nat, NEW n \in Nat, a <= b
                 PROVE  a * n <= b * n
      OBVIOUS
    <2>1. b - a \in Nat /\ (b - a) * n = b * n - a * n
      OBVIOUS
    <2>2. (b - a) * n >= 0 /\ a * n \in Int /\ b * n \in Int
      BY <2>1
    <2> QED
      BY <2>1, <2>2
  <1>5. \A d \in ink : InBand(d, band) =>
          /\ d[1] \in 0 .. Width - 1 /\ d[2] \in 0 .. Height - 1
          /\ \E i \in 1 .. s : RowOf(d) = Line(band, i)
    BY DotsInBands DEF Inks_
  <1>6. CASE device.land
    <2>1. bm.bytes = NumBytes(s) /\ bm.rows = Height /\ BandBitmapSize = NumBytes(DEPTH) * Height
          /\ BandRows(band) = NumBytes(s) * BYTE
      BY <1>6 DEF BandBitmap, BandBitmapSize, BandRows
    <2>2. ASSUME NEW d \in ink, InBand(d, band)
          PROVE  At(band, d)[1] \in 0 .. BandRows(band) - 1 /\ At(band, d)[2] \in 0 .. Height - 1
      <3>1. PICK i \in 1 .. s : d[1] = z - i
        BY <1>5, <1>6, <2>2 DEF RowOf, Line
      <3>2. (d[1] - z) + BandRows(band) \in 0 .. BandRows(band) - 1
        <4> HIDE DEF s, z
        <4> QED
          BY <1>1, <3>1
      <3> QED
        BY <1>5, <1>6, <2>2, <3>2 DEF At
    <2>3. NumBytes(s) * Height <= NumBytes(DEPTH) * Height
      BY <1>1, <1>2, <1>4
    <2> HIDE DEF bm, s, z
    <2>4. \A b \in Drawn(band) : b.at[1] \in 0 .. BandRows(band) - 1 /\ b.at[2] \in 0 .. Height - 1
      BY <1>3, <2>2
    <2> QED
      BY <1>1, <1>2, <1>6, <2>1, <2>3, <2>4 DEF bm, s
  <1>7. CASE ~device.land
    <2>1. bm.bytes = NumBytes(Width) /\ bm.rows = s /\ BandBitmapSize = NumBytes(Width) * DEPTH
          /\ BandRows(band) = s
      BY <1>7 DEF BandBitmap, BandBitmapSize, BandRows
    <2>2. ASSUME NEW d \in ink, InBand(d, band)
          PROVE  /\ At(band, d)[1] \in 0 .. NumBytes(Width) * BYTE - 1
                 /\ At(band, d)[2] \in 0 .. s - 1
      <3>1. PICK i \in 1 .. s : d[2] = z + (i - 1)
        BY <1>5, <1>7, <2>2 DEF RowOf, Line
      <3>2. d[2] - z \in 0 .. s - 1
        <4> HIDE DEF s, z
        <4> QED
          BY <1>1, <3>1
      <3>3. d[1] \in 0 .. NumBytes(Width) * BYTE - 1
        <4> DEFINE nb == NumBytes(Width) * BYTE
        <4>1. nb \in Nat /\ Width <= nb
          BY <1>2
        <4> HIDE DEF nb
        <4>2. d[1] \in 0 .. nb - 1
          BY <1>1, <1>5, <2>2, <4>1
        <4> QED
          BY <4>2 DEF nb
      <3> QED
        BY <1>7, <3>2, <3>3 DEF At
    <2>3. NumBytes(Width) * s <= NumBytes(Width) * DEPTH
      <3>1. s * NumBytes(Width) <= DEPTH * NumBytes(Width)
        BY <1>1, <1>2, <1>4
      <3> HIDE DEF s
      <3>2. s * NumBytes(Width) = NumBytes(Width) * s /\ DEPTH * NumBytes(Width) = NumBytes(Width) * DEPTH
        BY <1>1, <1>2
      <3> QED
        BY <3>1, <3>2
    <2> HIDE DEF bm, s, z
    <2>4. \A b \in Drawn(band) : /\ b.at[1] \in 0 .. NumBytes(Width) * BYTE - 1
                                 /\ b.at[2] \in 0 .. s - 1
      BY <1>3, <2>2
    <2> QED
      BY <1>1, <1>2, <1>7, <2>1, <2>3, <2>4 DEF bm, s
  <1> QED
    BY <1>1, <1>6, <1>7

LEMMA WholeBytes ==
  ASSUME NEW v \in Nat, NEW k \in Nat
  PROVE  v < k * BYTE <=> v \div BYTE < k
  <1> DEFINE c == v \div BYTE
  <1>1. c \in Nat /\ BYTE * c <= v /\ v < BYTE * c + BYTE
    BY DivFacts
  <1> HIDE DEF c
  <1>2. BYTE * c = c * BYTE /\ c * BYTE \in Nat /\ k * BYTE \in Nat
    BY <1>1
  <1>3. c < k => c * BYTE + BYTE <= k * BYTE
    BY <1>1, MoreTimes
  <1>4. k < c => k * BYTE + BYTE <= c * BYTE
    BY <1>1, MoreTimes
  <1>5. v < k * BYTE <=> c < k
    BY <1>1, <1>2, <1>3, <1>4
  <1> QED
    BY <1>5 DEF c

\* The rows that are sent are the rows of the page that are in the band.
LEMMA BitmapRowIs ==
  ASSUME device \in Devices, Inks_, NEW band \in 1 .. NumBands, BandNow(band),
         NEW i \in 1 .. BandRows(band)
  PROVE  BitmapRow(i) = BandRow(band, i)
  <1> DEFINE here == {d \in ink : /\ InBand(d, band) /\ RowOf(d) = Line(band, i)
                                  /\ PlaceOf(d) \div BYTE < RowBytes}
             bm == BandBitmap(band)
             s == BandSize(band)
             z == StartRow(band)
  <1>1. /\ device.land \in BOOLEAN /\ Width \in Nat /\ Height \in Nat
        /\ s \in 1 .. DEPTH /\ z \in Nat /\ BandRows(band) \in Nat /\ i \in Int
    BY BandPlaces, Sizes DEF Device
  <1>2. \A d \in ink : d[1] \in 0 .. Width - 1 /\ d[2] \in 0 .. Height - 1
    BY DEF Inks_
  <1>3. /\ BandRow(band, i) = {[p |-> PlaceOf(d), dot |-> d] : d \in here}
    <2>1. CASE i <= s
      <3>1. i \in 1 .. s
        BY <1>1, <2>1
      <3>2. LineDots(Line(band, i)) = here
        BY <3>1, DotsInBands DEF LineDots
      <3> QED
        BY <2>1, <3>2 DEF BandRow, Ruled
    <2>2. CASE ~(i <= s)
      <3>1. \A d \in ink : InBand(d, band) /\ RowOf(d) = Line(band, i) => FALSE
        <4> SUFFICES ASSUME NEW d \in ink, InBand(d, band), RowOf(d) = Line(band, i)
                     PROVE  FALSE
          OBVIOUS
        <4>1. PICK j \in 1 .. s : RowOf(d) = Line(band, j)
          BY DotsInBands
        <4>2. Line(band, j) = Line(band, i)
          BY <4>1
        <4> HIDE DEF s, z
        <4>3. j \in Int /\ StartRow(band) \in Int
          BY <1>1 DEF z
        <4>4. i = j
          BY <1>1, <4>2, <4>3 DEF Line
        <4> QED
          BY <1>1, <2>2, <4>4
      <3>2. here = {}
        BY <3>1
      <3>3. BandRow(band, i) = {}
        BY <2>2 DEF BandRow
      <3> HIDE DEF here
      <3> QED
        BY <3>2, <3>3
    <2> QED
      BY <2>1, <2>2
  <1>4. bitmap = {[dot |-> d, at |-> At(band, d)] : d \in {e \in ink : InBand(e, band)}}
    BY DrawnIs DEF BandNow
  <1>5. CASE device.land
    <2>1. /\ dc.bmWidthBytes * BYTE = BandRows(band) /\ dc.bmHeight = Height
          /\ RowBytes = Height \div BYTE /\ RowBytes \in Nat
      <3>1. Height \div BYTE \in Nat
        BY <1>1, DivFacts
      <3> QED
        BY <1>5, <3>1 DEF BandNow, BandBitmap, BandRows, RowBytes
    <2>2. ASSUME NEW d \in ink
          PROVE  At(band, d)[1] = BandRows(band) - i /\ At(band, d)[2] < RowBytes * BYTE
                   <=> RowOf(d) = Line(band, i) /\ PlaceOf(d) \div BYTE < RowBytes
      <3> HIDE DEF s, z
      <3>1. (d[1] - StartRow(band)) + BandRows(band) = BandRows(band) - i
              <=> d[1] = StartRow(band) - i
        BY <1>1, <1>2 DEF z
      <3>2. d[2] < RowBytes * BYTE <=> d[2] \div BYTE < RowBytes
        <4>1. d[2] \in Nat
          BY <1>1, <1>2
        <4> QED
          BY <2>1, <4>1, WholeBytes
      <3>3. At(band, d) = <<(d[1] - StartRow(band)) + BandRows(band), d[2]>>
        BY <1>5 DEF At
      <3>4. RowOf(d) = d[1] /\ PlaceOf(d) = d[2] /\ Line(band, i) = StartRow(band) - i
        BY <1>5 DEF RowOf, PlaceOf, Line
      <3> QED
        BY <3>1, <3>2, <3>3, <3>4
    <2>3. BitmapRow(i) =
            {[p |-> b.at[2], dot |-> b.dot] : b \in {c \in bitmap :
                c.at[1] = BandRows(band) - i /\ c.at[2] < RowBytes * BYTE}}
      BY <1>5, <2>1 DEF BitmapRow, LandscapeRow
    <2>4. \A d \in ink : At(band, d)[2] = PlaceOf(d)
      BY <1>5 DEF At, PlaceOf
    <2> DEFINE kept == {c \in bitmap : c.at[1] = BandRows(band) - i /\ c.at[2] < RowBytes * BYTE}
               rec(b) == [p |-> b.at[2], dot |-> b.dot]
    <2>5. ASSUME NEW d \in here
          PROVE  \E b \in kept : rec(b) = [p |-> PlaceOf(d), dot |-> d]
      <3> DEFINE b == [dot |-> d, at |-> At(band, d)]
      <3>1. b \in bitmap /\ b.at = At(band, d) /\ b.dot = d
        BY <1>4
      <3> HIDE DEF b
      <3>2. b \in kept
        BY <2>2, <3>1
      <3>3. rec(b) = [p |-> PlaceOf(d), dot |-> d]
        BY <2>4, <3>1
      <3> QED
        BY <3>2, <3>3
    <2>6. ASSUME NEW b \in kept
          PROVE  \E d \in here : rec(b) = [p |-> PlaceOf(d), dot |-> d]
      <3>1. PICK d \in ink : InBand(d, band) /\ b.dot = d /\ b.at = At(band, d)
        BY <1>4
      <3>2. d \in here
        BY <2>2, <3>1
      <3>3. rec(b) = [p |-> PlaceOf(d), dot |-> d]
        BY <2>4, <3>1
      <3> QED
        BY <3>2, <3>3
    <2>7. BitmapRow(i) = {rec(b) : b \in kept}
      BY <2>3
    <2> HIDE DEF kept, rec, here
    <2> QED
      BY <1>3, <2>5, <2>6, <2>7
  <1>6. CASE ~device.land
    <2>1. RowBytes = NumBytes(Width) /\ RowBytes \in Nat /\ Width <= RowBytes * BYTE
      BY <1>1, <1>6, WordFacts DEF RowBytes
    <2>2. ASSUME NEW d \in ink
          PROVE  At(band, d)[2] = i - 1
                   <=> RowOf(d) = Line(band, i) /\ PlaceOf(d) \div BYTE < RowBytes
      <3> HIDE DEF s, z
      <3>1. d[2] - StartRow(band) = i - 1 <=> d[2] = StartRow(band) + (i - 1)
        BY <1>1, <1>2 DEF z
      <3>2. d[1] \div BYTE < RowBytes
        <4>1. d[1] \in Nat /\ d[1] < Width /\ RowBytes * BYTE \in Nat
          BY <1>1, <1>2, <2>1
        <4>2. d[1] < RowBytes * BYTE
          BY <1>1, <2>1, <4>1
        <4> QED
          BY <2>1, <4>1, <4>2, WholeBytes
      <3>3. At(band, d) = <<d[1], d[2] - StartRow(band)>>
        BY <1>6 DEF At
      <3>4. RowOf(d) = d[2] /\ PlaceOf(d) = d[1] /\ Line(band, i) = StartRow(band) + (i - 1)
        BY <1>6 DEF RowOf, PlaceOf, Line
      <3> QED
        BY <3>1, <3>2, <3>3, <3>4
    <2>3. BitmapRow(i) =
            {[p |-> b.at[1], dot |-> b.dot] : b \in {c \in bitmap : c.at[2] = i - 1}}
      BY <1>6 DEF BitmapRow, PortraitRow
    <2>4. \A d \in ink : At(band, d)[1] = PlaceOf(d)
      BY <1>6 DEF At, PlaceOf
    <2> DEFINE kept == {c \in bitmap : c.at[2] = i - 1}
               rec(b) == [p |-> b.at[1], dot |-> b.dot]
    <2>5. ASSUME NEW d \in here
          PROVE  \E b \in kept : rec(b) = [p |-> PlaceOf(d), dot |-> d]
      <3> DEFINE b == [dot |-> d, at |-> At(band, d)]
      <3>1. b \in bitmap /\ b.at = At(band, d) /\ b.dot = d
        BY <1>4
      <3> HIDE DEF b
      <3>2. b \in kept
        BY <2>2, <3>1
      <3>3. rec(b) = [p |-> PlaceOf(d), dot |-> d]
        BY <2>4, <3>1
      <3> QED
        BY <3>2, <3>3
    <2>6. ASSUME NEW b \in kept
          PROVE  \E d \in here : rec(b) = [p |-> PlaceOf(d), dot |-> d]
      <3>1. PICK d \in ink : InBand(d, band) /\ b.dot = d /\ b.at = At(band, d)
        BY <1>4
      <3>2. d \in here
        BY <2>2, <3>1
      <3>3. rec(b) = [p |-> PlaceOf(d), dot |-> d]
        BY <2>4, <3>1
      <3> QED
        BY <3>2, <3>3
    <2>7. BitmapRow(i) = {rec(b) : b \in kept}
      BY <2>3
    <2> HIDE DEF kept, rec, here
    <2> QED
      BY <1>3, <2>5, <2>6, <2>7
  <1> QED
    BY <1>1, <1>5, <1>6

\* What the rows of the page are.
LEMMA RuledFacts ==
  ASSUME device \in Devices, Inks_, NEW y
  PROVE  /\ RowBytes \in Nat
         /\ Ruled(y) \in SUBSET RowDots
         /\ Bytes(Ruled(y)) \subseteq 0 .. RowBytes - 1
         /\ \A e \in Ruled(y) : e.dot \in ink /\ RowOf(e.dot) = y /\ e.p = PlaceOf(e.dot)
         /\ \A d \in ink : RowOf(d) = y /\ ~Unprintable(d) =>
              /\ \E e \in Ruled(y) : e.dot = d
              /\ Bytes(Ruled(y)) \notin {{0}, {RowBytes - 1}}
         /\ ~Shifts => ~(RowBytes > 1 /\ Bytes(Ruled(y)) = {RowBytes - 1})
  <1>1. device.land \in BOOLEAN /\ Width \in Nat /\ Height \in Nat
    BY Sizes DEF Device
  <1>2. RowBytes \in Nat
    BY <1>1, WordFacts, DivFacts DEF RowBytes
  <1>3. \A d \in ink : /\ d[1] \in 0 .. Width - 1 /\ d[2] \in 0 .. Height - 1
                       /\ d \in Points /\ PlaceOf(d) \in Nat
                       /\ PlaceOf(d) \div BYTE \in Nat
    <2> SUFFICES ASSUME NEW d \in ink
                 PROVE  /\ d[1] \in 0 .. Width - 1 /\ d[2] \in 0 .. Height - 1
                        /\ d \in Points /\ PlaceOf(d) \in Nat
                        /\ PlaceOf(d) \div BYTE \in Nat
      OBVIOUS
    <2>1. d \in (0 .. Width - 1) \X (0 .. Height - 1)
      BY DEF Inks_
    <2>2. d[1] \in 0 .. Width - 1 /\ d[2] \in 0 .. Height - 1 /\ d \in Points
      BY <2>1 DEF Points
    <2>3. PlaceOf(d) \in Nat
      BY <1>1, <2>2 DEF PlaceOf
    <2>4. PlaceOf(d) \div BYTE \in Nat
      BY <2>3, DivFacts
    <2> QED
      BY <2>2, <2>3, <2>4
  <1>4. \A e \in Ruled(y) : /\ e.dot \in ink /\ RowOf(e.dot) = y /\ e.p = PlaceOf(e.dot)
                            /\ PlaceOf(e.dot) \div BYTE < RowBytes /\ e \in RowDots
    BY <1>3 DEF Ruled, LineDots, RowDots
  <1>5. \A d \in LineDots(y) : \E e \in Ruled(y) : e.dot = d /\ e.p = PlaceOf(d)
    <2> SUFFICES ASSUME NEW d \in LineDots(y)
                 PROVE  \E e \in Ruled(y) : e.dot = d /\ e.p = PlaceOf(d)
      OBVIOUS
    <2> DEFINE e == [p |-> PlaceOf(d), dot |-> d]
    <2>1. e \in Ruled(y) /\ e.dot = d /\ e.p = PlaceOf(d)
      BY DEF Ruled
    <2> HIDE DEF e
    <2> QED
      BY <2>1
  <1>6. Bytes(Ruled(y)) = {PlaceOf(d) \div BYTE : d \in LineDots(y)}
    <2>1. \A e \in Ruled(y) : e.dot \in LineDots(y)
      BY <1>4 DEF LineDots
    <2>2. \A e \in Ruled(y) : e.p \div BYTE = PlaceOf(e.dot) \div BYTE
      BY <1>4
    <2>3. \A d \in LineDots(y) : \E e \in Ruled(y) : e.p \div BYTE = PlaceOf(d) \div BYTE
      BY <1>5
    <2> QED
      BY <2>1, <2>2, <2>3 DEF Bytes
  <1>7. Bytes(Ruled(y)) \subseteq 0 .. RowBytes - 1
    <2>1. \A d \in LineDots(y) : PlaceOf(d) \div BYTE \in 0 .. RowBytes - 1
      <3> SUFFICES ASSUME NEW d \in LineDots(y)
                   PROVE  PlaceOf(d) \div BYTE \in 0 .. RowBytes - 1
        OBVIOUS
      <3> DEFINE c == PlaceOf(d) \div BYTE
      <3>1. c \in Nat /\ c < RowBytes
        BY <1>3 DEF LineDots
      <3> HIDE DEF c
      <3>2. c \in 0 .. RowBytes - 1
        BY <1>2, <3>1
      <3> QED
        BY <3>2 DEF c
    <2> QED
      BY <1>6, <2>1
  <1>8. \A d \in ink : RowOf(d) = y => InkedBytes(d) = Bytes(Ruled(y))
    BY <1>6 DEF InkedBytes, LineDots
  <1>9. ASSUME NEW d \in ink, RowOf(d) = y, ~Unprintable(d)
        PROVE  /\ \E e \in Ruled(y) : e.dot = d
               /\ Bytes(Ruled(y)) \notin {{0}, {RowBytes - 1}}
    <2>1. ~(PlaceOf(d) \div BYTE >= RowBytes)
      BY <1>9 DEF Unprintable
    <2> DEFINE c == PlaceOf(d) \div BYTE
    <2>2. c \in Nat /\ ~(c >= RowBytes)
      BY <1>3, <2>1
    <2> HIDE DEF c
    <2>3. c < RowBytes
      BY <1>2, <2>2
    <2>4. d \in LineDots(y)
      BY <1>9, <2>3 DEF LineDots, c
    <2> QED
      BY <1>5, <1>8, <1>9, <2>4 DEF Unprintable
  <1>10. ASSUME RowBytes > 1, Bytes(Ruled(y)) = {RowBytes - 1}
         PROVE  Shifts
    <2>1. PICK d \in LineDots(y) : TRUE
      BY <1>6, <1>10
    <2> QED
      BY <1>8, <1>10, <2>1 DEF Shifts, LineDots
  <1>11. Ruled(y) \in SUBSET RowDots
    BY <1>4
  <1> QED
    BY <1>2, <1>4, <1>7, <1>9, <1>10, <1>11

\* The first i rows of a band are sent.
BandPart(q, band, i, r) ==
  /\ r \in Worlds /\ SameBand(q.dc, r.dc)
  /\ q.paper.marks \subseteq r.paper.marks
  /\ \A m \in r.paper.marks : m \in q.paper.marks \/ m.dot \in ink
  /\ \A d \in ink, j \in 1 .. i :
       j <= BandSize(band) /\ RowOf(d) = Line(band, j) /\ ~Unprintable(d) => d \in Printed(r.paper)
  /\ Exact /\ ~Shifts /\ OnRow(q, StartRow(band)) => OnRow(r, StartRow(band) + Dir * i)

\* One row of the band more.
LEMMA BandStep ==
  ASSUME device \in Devices, Inks_, NEW band \in 1 .. NumBands, NEW i \in 1 .. BandRows(band),
         NEW q \in Worlds, NEW r, BandPart(q, band, i - 1, r)
  PROVE  BandPart(q, band, i, SendRow(r, BandRow(band, i), RowBytes))
  <1> DEFINE row == BandRow(band, i)
             s == SendRow(r, row, RowBytes)
             y == Line(band, i)
  <1>1. /\ device.land \in BOOLEAN /\ StartRow(band) \in Nat /\ BandSize(band) \in 1 .. DEPTH
        /\ BandRows(band) \in Nat /\ i \in Nat /\ i # 0 /\ i - 1 \in Nat
    BY BandPlaces, Sizes DEF Device
  <1>2. /\ RowBytes \in Nat /\ row \in SUBSET RowDots /\ Bytes(row) \subseteq 0 .. RowBytes - 1
        /\ \A e \in row : e.dot \in ink /\ RowOf(e.dot) = y /\ e.p = PlaceOf(e.dot)
        /\ ~Shifts => ~(RowBytes > 1 /\ Bytes(row) = {RowBytes - 1})
    <2>1. CASE i <= BandSize(band)
      <3>1. row = Ruled(y)
        BY <2>1 DEF BandRow
      <3> HIDE DEF row, y
      <3> QED
        BY <3>1, RuledFacts
    <2>2. CASE ~(i <= BandSize(band))
      <3>1. row = {}
        BY <2>2 DEF BandRow
      <3>2. RowBytes \in Nat
        BY RuledFacts
      <3> HIDE DEF row
      <3> QED
        BY <3>1, <3>2 DEF Bytes
    <2> QED
      BY <2>1, <2>2
  <1>3. r \in Worlds
    BY DEF BandPart
  <1> HIDE DEF row
  <1>4. RowSent(r, row, RowBytes, s)
    BY <1>2, <1>3, RowFacts
  <1> HIDE DEF s
  <1>5. /\ s \in Worlds /\ SameBand(q.dc, s.dc) /\ q.paper.marks \subseteq s.paper.marks
        /\ \A m \in s.paper.marks : m \in q.paper.marks \/ m.dot \in ink
    BY <1>2, <1>4 DEF RowSent, BandPart, SameBand
  <1>6. ASSUME NEW d \in ink, NEW j \in 1 .. i, j <= BandSize(band), RowOf(d) = Line(band, j),
               ~Unprintable(d)
        PROVE  d \in Printed(s.paper)
    <2>1. CASE j = i
      <3>1. row = Ruled(y) /\ RowOf(d) = y
        BY <1>6, <2>1 DEF row, BandRow
      <3> HIDE DEF y
      <3>2. /\ \E e \in Ruled(y) : e.dot = d
            /\ Bytes(Ruled(y)) \notin {{0}, {RowBytes - 1}}
        BY <1>6, <3>1, RuledFacts
      <3> QED
        BY <1>4, <3>1, <3>2 DEF RowSent
    <2>2. CASE j # i
      <3>1. j \in 1 .. i - 1
        BY <1>1, <2>2
      <3>2. d \in Printed(r.paper)
        BY <1>6, <3>1 DEF BandPart
      <3> QED
        BY <1>4, <3>2 DEF RowSent, Printed
    <2> QED
      BY <2>1, <2>2
  <1>7. ASSUME Exact, ~Shifts, OnRow(q, StartRow(band))
        PROVE  OnRow(s, StartRow(band) + Dir * i)
    <2> DEFINE R == StartRow(band) + Dir * (i - 1)
    <2>1. Dir \in {-1, 1}
      BY DEF Dir
    <2>2. R \in Int /\ R + Dir = StartRow(band) + Dir * i
      BY <1>1, <2>1
    <2>3. OnRow(r, R)
      BY <1>7 DEF BandPart
    <2>4. y = IF device.land THEN R - 1 ELSE R
      <3>1. CASE device.land
        BY <1>1, <3>1 DEF Line, Dir
      <3>2. CASE ~device.land
        BY <1>1, <3>2 DEF Line, Dir
      <3> QED
        BY <1>1, <3>1, <3>2
    <2>5. RowAt(row, R)
      BY <1>2, <2>4 DEF RowAt
    <2> HIDE DEF R
    <2>6. OnRow(s, R + Dir)
      BY <1>2, <1>4, <1>7, <2>2, <2>3, <2>5 DEF RowSent
    <2> QED
      BY <2>2, <2>6
  <1>8. BandPart(q, band, i, s)
    BY <1>5, <1>6, <1>7 DEF BandPart
  <1> QED
    BY <1>8 DEF s, row

LEMMA BandSent ==
  ASSUME device \in Devices, Inks_, NEW band \in 1 .. NumBands, BandNow(band), NEW q \in Worlds
  PROVE  BandPart(q, band, BandRows(band), SendRows(q))
  <1> DEFINE rows == IF device.land THEN dc.bmWidthBytes * BYTE ELSE dc.bmHeight
             len == IF device.land THEN dc.bmHeight \div BYTE ELSE dc.bmWidthBytes
             Is(f) == f = [i \in 0 .. rows |->
                             IF i = 0 THEN q
                             ELSE SendRow(f[i - 1], IF device.land THEN LandscapeRow(i)
                                                    ELSE PortraitRow(i), len)]
             n == BandRows(band)
             row(i) == BandRow(band, i)
  <1>1. SendRows(q) = (CHOOSE f : Is(f))[rows]
    BY DEF SendRows
  <1>2. rows = n /\ n \in Nat /\ len = RowBytes
    <2>1. device.land \in BOOLEAN
      BY Sizes DEF Device
    <2>2. n = IF device.land THEN BandBitmap(band).bytes * BYTE ELSE BandBitmap(band).rows
      BY DrawnFits
    <2>3. rows = n
      BY <2>2 DEF BandNow
    <2>4. len = RowBytes
      BY DEF BandNow, BandBitmap, RowBytes
    <2> QED
      BY <2>3, <2>4, BandPlaces
  <1> HIDE DEF rows, len, n
  <1>3. \A i \in 1 .. n : (IF device.land THEN LandscapeRow(i) ELSE PortraitRow(i)) = row(i)
    BY BitmapRowIs DEF BitmapRow, n
  <1>4. \A i \in 1 .. n : row(i) \in SUBSET RowDots /\ Bytes(row(i)) \subseteq 0 .. RowBytes - 1
    <2> SUFFICES ASSUME NEW i \in 1 .. n
                 PROVE  row(i) \in SUBSET RowDots /\ Bytes(row(i)) \subseteq 0 .. RowBytes - 1
      OBVIOUS
    <2> DEFINE y == Line(band, i)
    <2>1. row(i) = Ruled(y) \/ row(i) = {}
      BY DEF BandRow
    <2>2. Ruled(y) \in SUBSET RowDots /\ Bytes(Ruled(y)) \subseteq 0 .. RowBytes - 1
      BY RuledFacts
    <2>3. Bytes({}) = {}
      BY DEF Bytes
    <2> HIDE DEF y, row
    <2> QED
      BY <2>1, <2>2, <2>3
  <1>5. RowBytes \in Nat
    BY RuledFacts
  <1>6. \A w \in Worlds, i \in 1 .. n : SendRow(w, row(i), RowBytes) \in Worlds
    <2> SUFFICES ASSUME NEW w \in Worlds, NEW i \in 1 .. n
                 PROVE  SendRow(w, row(i), RowBytes) \in Worlds
      OBVIOUS
    <2> DEFINE o == row(i)
    <2>1. o \in SUBSET RowDots /\ Bytes(o) \subseteq 0 .. RowBytes - 1
      BY <1>4
    <2> HIDE DEF o
    <2>2. RowSent(w, o, RowBytes, SendRow(w, o, RowBytes))
      BY <1>5, <2>1, RowFacts
    <2> QED
      BY <2>2 DEF RowSent, o
  <1>7. \E f : f \in [0 .. n -> Worlds] /\ Is(f)
    <2> DEFINE G == [x \in Worlds \X (1 .. n) |-> SendRow(x[1], row(x[2]), RowBytes)]
    <2>1. /\ G \in [Worlds \X (1 .. n) -> Worlds]
          /\ \A w \in Worlds, i \in 1 .. n : G[<<w, i>>] = SendRow(w, row(i), RowBytes)
      <3> HIDE DEF row
      <3> QED
        BY <1>6
    <2> HIDE DEF G, row
    <2>2. PICK f : Recurs(Worlds, q, n, G, f)
      BY <1>2, <2>1, Recursion
    <2>3. /\ f \in [0 .. n -> Worlds]
          /\ f = [i \in 0 .. n |-> IF i = 0 THEN q ELSE G[<<f[i - 1], i>>]]
      BY <2>2 DEF Recurs
    <2>4. \A i \in 0 .. n : i # 0 => i - 1 \in 0 .. n /\ i \in 1 .. n
      BY <1>2
    <2>5. \A i \in 0 .. n : i # 0 =>
            G[<<f[i - 1], i>>] = SendRow(f[i - 1], IF device.land THEN LandscapeRow(i)
                                                   ELSE PortraitRow(i), len)
      BY <1>2, <1>3, <2>1, <2>3, <2>4
    <2>6. Is(f)
      BY <1>2, <2>3, <2>5
    <2> HIDE DEF Is
    <2> QED
      BY <2>3, <2>6
  <1> DEFINE at == CHOOSE f : Is(f)
  <1>8. Is(at)
    <2> HIDE DEF Is
    <2> QED
      BY <1>7
  <1>9. \A i \in 0 .. n : at[i] = IF i = 0 THEN q ELSE SendRow(at[i - 1], row(i), RowBytes)
    <2> HIDE DEF at, row
    <2>1. \A i \in 0 .. n : i # 0 => i \in 1 .. n
      BY <1>2
    <2> QED
      BY <1>2, <1>3, <1>8, <2>1
  <1> HIDE DEF at, Is
  <1> DEFINE OK(i) == BandPart(q, band, i, at[i])
             Bad == {i \in 0 .. n : ~OK(i)}
  <1>10. ASSUME Bad # {} PROVE FALSE
    <2>1. Bad \in SUBSET Nat
      BY <1>2
    <2>2. PICK i \in Bad : \A j \in Bad : i <= j
      BY <1>10, <2>1, LeastNat
    <2>3. CASE i = 0
      <3>1. at[0] = q
        <4> HIDE DEF row
        <4> QED
          BY <1>2, <1>9
      <3>2. StartRow(band) + Dir * 0 = StartRow(band) /\ 1 .. 0 = {}
        BY BandPlaces DEF Dir
      <3>3. BandPart(q, band, 0, q)
        BY <3>2 DEF BandPart, SameBand
      <3> QED
        BY <2>2, <2>3, <3>1, <3>3
    <2>4. CASE i # 0
      <3>1. i \in 1 .. n /\ i - 1 \in 0 .. n /\ ~(i <= i - 1)
        BY <1>2, <2>4
      <3>2. BandPart(q, band, i - 1, at[i - 1])
        <4> HIDE DEF OK
        <4>1. i - 1 \notin Bad
          BY <2>2, <3>1
        <4>2. OK(i - 1)
          BY <3>1, <4>1
        <4> QED
          BY <4>2 DEF OK
      <3>3. BandPart(q, band, i, SendRow(at[i - 1], row(i), RowBytes))
        BY <3>1, <3>2, BandStep DEF n
      <3>4. at[i] = SendRow(at[i - 1], row(i), RowBytes)
        <4> HIDE DEF row
        <4> QED
          BY <1>9, <2>4, <3>1
      <3> QED
        BY <2>2, <3>3, <3>4
    <2> QED
      BY <2>3, <2>4
  <1>11. OK(n)
    <2> HIDE DEF OK
    <2>1. n \in 0 .. n /\ n \notin Bad
      BY <1>2, <1>10
    <2> QED
      BY <2>1
  <1>12. at[n] = SendRows(q)
    BY <1>1, <1>2 DEF at
  <1> QED
    BY <1>11, <1>12 DEF n

-----------------------------------------------------------------------------
(* A band is sent.                                                         *)

Pairs == [dc : Cursors, paper : Papers]

\* What the end of a band leaves: the paper is on row R.
Stopped(q, R, r) ==
  /\ r \in Worlds /\ SameBand(q.dc, r.dc) /\ r.paper.marks = q.paper.marks
  /\ Exact /\ OnRow(q, R) => SmallErrors(r.dc) /\ Down(r) = 12 * (R * Scale)

LEMMA TrailFacts ==
  ASSUME device \in Devices, NEW q \in Worlds, NEW R \in Int
  PROVE  Stopped(q, R, Trail(q))
  <1> DEFINE r == Trail(q)
             k == q.rel * Scale
  <1>1. /\ device.land \in BOOLEAN /\ device.jet \in BOOLEAN /\ Scale \in {1, 2, 4}
        /\ q.rel \in Nat /\ k \in Int /\ R * Scale \in Int
    <2>1. device.land \in BOOLEAN /\ device.jet \in BOOLEAN /\ Scale \in {1, 2, 4}
      BY Sizes DEF Device
    <2>2. q.rel \in Nat
      BY DEF Worlds
    <2> QED
      BY <2>1, <2>2
  <1>2. q.paper.x \in Int /\ q.paper.y \in Int /\ q.dc.xerr \in Int /\ q.dc.yerr \in Int
    BY DEF Worlds, Cursors, Papers
  <1>3. CASE q.rel = 0
    <2>1. r = q /\ k = 0
      BY <1>1, <1>3 DEF Trail
    <2>2. Down(q) \in Int /\ Dir \in {-1, 1}
      BY <1>2 DEF Down, Dir
    <2>3. OnRow(q, R) => Down(q) = 12 * (R * Scale)
      <3>1. OnRow(q, R) => Down(q) + Dir * (12 * k) = 12 * (R * Scale)
        BY DEF OnRow
      <3>2. Dir * (12 * k) = 0
        BY <2>1, <2>2
      <3> HIDE DEF k
      <3> QED
        BY <1>1, <2>2, <3>1, <3>2
    <2> HIDE DEF r
    <2>4. Stopped(q, R, r)
      BY <2>1, <2>3 DEF Stopped, OnRow, SameBand
    <2> QED
      BY <2>4 DEF r
  <1>4. CASE q.rel # 0 /\ device.land
    <2>1. r = SetX(q, -k, TRUE)
      BY <1>4 DEF Trail
    <2> HIDE DEF r, k
    <2>2. -k \in Int /\ TRUE \in BOOLEAN
      BY <1>1
    <2>3. MovedX(q, -k, TRUE, r)
      BY <2>1, <2>2, SetXFacts
    <2>4. /\ r \in Worlds /\ SameBand(q.dc, r.dc) /\ r.paper.marks = q.paper.marks
          /\ ~device.jet => /\ r.dc.xerr = q.dc.xerr /\ r.paper.x = q.paper.x + 12 * (-k)
                            /\ r.dc.yerr = q.dc.yerr
      BY <2>3 DEF MovedX, SamePaper
    <2>5. ASSUME Exact, OnRow(q, R)
          PROVE  SmallErrors(r.dc) /\ Down(r) = 12 * (R * Scale)
      <3>1. ~device.jet /\ Dir = -1
        BY <1>4, <2>5 DEF Exact, Dir
      <3>2. SmallErrors(r.dc)
        BY <2>4, <2>5, <3>1 DEF OnRow, SmallErrors
      <3>3. (q.paper.x + q.dc.xerr) + (-1) * (12 * k) = 12 * (R * Scale)
        BY <1>4, <2>5, <3>1 DEF OnRow, Down, k
      <3>4. Down(r) = (q.paper.x + 12 * (-k)) + q.dc.xerr
        BY <1>4, <2>4, <3>1 DEF Down
      <3>5. (q.paper.x + q.dc.xerr) + (-1) * (12 * k) = (q.paper.x + 12 * (-k)) + q.dc.xerr
        BY <1>1, <1>2
      <3> QED
        BY <3>2, <3>3, <3>4, <3>5
    <2>6. Stopped(q, R, r)
      BY <2>4, <2>5 DEF Stopped
    <2> QED
      BY <2>6 DEF r
  <1>5. CASE q.rel # 0 /\ ~device.land
    <2>1. r = SetY(q, k, TRUE)
      BY <1>5 DEF Trail
    <2> HIDE DEF r, k
    <2>2. TRUE \in BOOLEAN
      OBVIOUS
    <2>3. MovedY(q, k, TRUE, r)
      BY <1>1, <2>1, <2>2, SetYFacts
    <2>4. /\ r \in Worlds /\ SameBand(q.dc, r.dc) /\ r.paper.marks = q.paper.marks
          /\ r.dc.xerr = q.dc.xerr /\ r.paper.y + r.dc.yerr = q.paper.y + q.dc.yerr + 12 * k
          /\ ~device.jet => r.dc.yerr = q.dc.yerr
      BY <2>3 DEF MovedY, SamePaper
    <2>5. ASSUME OnRow(q, R)
          PROVE  SmallErrors(r.dc) /\ Down(r) = 12 * (R * Scale)
      <3>1. Dir = 1
        BY <1>5 DEF Dir
      <3>2. SmallErrors(r.dc)
        BY <2>4, <2>5 DEF OnRow, SmallErrors
      <3>3. (q.paper.y + q.dc.yerr) + 1 * (12 * k) = 12 * (R * Scale)
        BY <1>5, <2>5, <3>1 DEF OnRow, Down, k
      <3>4. Down(r) = q.paper.y + q.dc.yerr + 12 * k
        BY <1>5, <2>4 DEF Down
      <3>5. (q.paper.y + q.dc.yerr) + 1 * (12 * k) = q.paper.y + q.dc.yerr + 12 * k
        BY <1>1, <1>2
      <3> QED
        BY <3>2, <3>3, <3>4, <3>5
    <2>6. Stopped(q, R, r)
      BY <2>4, <2>5 DEF Stopped
    <2> QED
      BY <2>6 DEF r
  <1> QED
    BY <1>1, <1>3, <1>4, <1>5

\* The printer is where a band starts.
Ready(q, band) ==
  /\ SmallErrors(q.dc) /\ InPlace(q.paper, q.dc.text)
  /\ Down(q) = 12 * BandStart(band)
  /\ KnowsAlong(q) => Along(q) = 12 * CurAlong(q)

\* A band is out.
BandOut(q, band, r) ==
  /\ r.dc \in Cursors /\ r.paper \in Papers /\ ~r.paper.graphics
  /\ SameBand(q.dc, r.dc)
  /\ q.paper.marks \subseteq r.paper.marks
  /\ \A m \in r.paper.marks : m \in q.paper.marks \/ m.dot \in ink
  /\ \A d \in ink : InBand(d, band) /\ ~Unprintable(d) => d \in Printed(r.paper)
  /\ Exact /\ ~Shifts /\ Ready(q, band) =>
       /\ SmallErrors(r.dc) /\ InPlace(r.paper, r.dc.text)
       /\ band # NumBands => Down(r) = 12 * BandStart(band + 1)

LEMMA DumpFacts ==
  ASSUME device \in Devices, Inks_, NEW band \in 1 .. NumBands, BandNow(band),
         NEW q \in Pairs, ~q.paper.graphics
  PROVE  BandOut(q, band, Dump(q))
  <1> DEFINE w == [dc |-> q.dc, paper |-> q.paper, rel |-> 0]
             s == SendRows(w)
             t == Trail(s)
             r == EndGraphics(t)
             n == BandRows(band)
             z == StartRow(band)
             R == z + Dir * n
  <1>1. Dump(q) = r
    BY DEF Dump
  <1>2. w \in Worlds /\ w.dc = q.dc /\ w.paper = q.paper /\ w.rel = 0
    BY DEF Worlds, Pairs
  <1>3. /\ z \in Nat /\ n \in Nat /\ Dir \in {-1, 1} /\ R \in Int
        /\ BandSize(band) \in 1 .. DEPTH /\ BandSize(band) <= n
        /\ BandStart(band) = z * Scale
        /\ band # NumBands => n = DEPTH /\ z + Dir * DEPTH = StartRow(band + 1)
    <2>1. /\ z \in Nat /\ n \in Nat /\ BandSize(band) \in 1 .. DEPTH /\ BandSize(band) <= n
          /\ BandStart(band) = z * Scale
          /\ band # NumBands => n = DEPTH /\ z + Dir * DEPTH = StartRow(band + 1)
      BY BandPlaces
    <2>2. Dir \in {-1, 1}
      BY DEF Dir
    <2> HIDE DEF z, n
    <2>3. R \in Int
      BY <2>1, <2>2
    <2> QED
      BY <2>1, <2>2, <2>3
  <1>4. BandPart(w, band, n, s)
    BY <1>2, BandSent
  <1> HIDE DEF w, s
  <1>5. s \in Worlds
    BY <1>4 DEF BandPart
  <1>6. Stopped(s, R, t)
    <2> HIDE DEF R
    <2> QED
      BY <1>3, <1>5, TrailFacts
  <1> HIDE DEF t
  <1>7. t \in Worlds /\ t.paper.marks = s.paper.marks /\ SameBand(s.dc, t.dc)
    BY <1>6 DEF Stopped
  <1>8. /\ r \in Worlds /\ r.dc = t.dc /\ ~r.paper.graphics /\ r.paper.x = t.paper.x
        /\ r.paper.y = t.paper.y /\ r.paper.marks = t.paper.marks
    BY <1>7, EndFacts
  <1> HIDE DEF r
  <1>9. r.paper.marks = s.paper.marks /\ r.dc \in Cursors /\ r.paper \in Papers
    BY <1>7, <1>8 DEF Worlds
  <1>10. SameBand(q.dc, r.dc) /\ q.paper.marks \subseteq r.paper.marks
    BY <1>2, <1>4, <1>7, <1>8, <1>9 DEF BandPart, SameBand
  <1>11. \A m \in r.paper.marks : m \in q.paper.marks \/ m.dot \in ink
    BY <1>2, <1>4, <1>9 DEF BandPart
  <1>12. ASSUME NEW d \in ink, InBand(d, band), ~Unprintable(d)
         PROVE  d \in Printed(r.paper)
    <2>1. PICK i \in 1 .. BandSize(band) : RowOf(d) = Line(band, i)
      BY <1>12, DotsInBands
    <2>2. i \in 1 .. n /\ i <= BandSize(band)
      <3> HIDE DEF n
      <3> QED
        BY <1>3, <2>1
    <2>3. d \in Printed(s.paper)
      BY <1>4, <1>12, <2>1, <2>2 DEF BandPart
    <2> QED
      BY <1>9, <2>3 DEF Printed
  <1>13. ASSUME Exact, ~Shifts, Ready(q, band)
         PROVE  /\ SmallErrors(r.dc) /\ InPlace(r.paper, r.dc.text)
                /\ band # NumBands => Down(r) = 12 * BandStart(band + 1)
    <2>1. OnRow(w, z)
      <3>1. /\ Down(w) = Down(q) /\ Along(w) = Along(q) /\ CurAlong(w) = CurAlong(q)
            /\ KnowsAlong(w) <=> KnowsAlong(q)
        BY <1>2 DEF Down, Along, KnowsAlong, CurAlong
      <3>2. Dir * (12 * (w.rel * Scale)) = 0
        BY <1>2, <1>3, Sizes
      <3>3. Down(w) + 0 = 12 * (z * Scale)
        <4>1. Down(w) = 12 * (z * Scale)
          BY <1>3, <1>13, <3>1 DEF Ready
        <4>2. Down(w) \in Int
          BY <1>2 DEF Down, Worlds, Cursors, Papers
        <4> QED
          BY <4>1, <4>2
      <3> QED
        BY <1>2, <1>13, <3>1, <3>2, <3>3 DEF Ready, OnRow
    <2>2. OnRow(s, R)
      BY <1>4, <1>13, <2>1 DEF BandPart
    <2>3. SmallErrors(t.dc) /\ Down(t) = 12 * (R * Scale)
      BY <1>6, <1>13, <2>2 DEF Stopped
    <2>4. SmallErrors(r.dc) /\ Down(r) = 12 * (R * Scale)
      BY <1>8, <2>3 DEF Down
    <2>5. InPlace(r.paper, r.dc.text)
      BY <1>7, <1>8, <1>9, <2>2 DEF OnRow, InPlace, SameBand
    <2>6. band # NumBands => BandStart(band + 1) = R * Scale
      <3>1. ASSUME band # NumBands PROVE BandStart(band + 1) = R * Scale
        <4>1. band + 1 \in 1 .. NumBands
          BY <3>1, BandSizes
        <4>2. BandStart(band + 1) = StartRow(band + 1) * Scale
          BY <4>1, BandPlaces
        <4> QED
          BY <1>3, <3>1, <4>2
      <3> QED
        BY <3>1
    <2> QED
      BY <2>4, <2>5, <2>6
  <1>14. BandOut(q, band, r)
    BY <1>8, <1>9, <1>10, <1>11, <1>12, <1>13 DEF BandOut
  <1> QED
    BY <1>1, <1>14

\* The movement to a band that was not reached by sending the one before.
ToldTo(q, band, r) ==
  /\ r \in Pairs /\ SameBand(q.dc, r.dc) /\ SamePaper(q.paper, r.paper)
  /\ Along(r) = Along(q) /\ CurAlong(r) = CurAlong(q)
  /\ /\ Exact /\ ~BandOnTrust(q.dc.text) /\ SmallErrors(q.dc)
     /\ KnowsDown(q) => Down(q) = 12 * CurDown(q)
     /\ q.dc.skip \/ Down(q) = 12 * BandStart(band)
     => SmallErrors(r.dc) /\ Down(r) = 12 * BandStart(band)

LEMMA ToBandFacts ==
  ASSUME device \in Devices, NEW band \in 1 .. NumBands, NEW q \in Pairs
  PROVE  ToldTo(q, band, ToBand(q, band))
  <1> DEFINE v == BandStart(band)
             r == ToBand(q, band)
  <1>1. device.land \in BOOLEAN /\ device.jet \in BOOLEAN /\ v \in Nat
    <2>1. /\ StartRow(band) \in Nat /\ v = StartRow(band) * Scale
          /\ device.land \in BOOLEAN /\ device.jet \in BOOLEAN /\ Scale \in {1, 2, 4}
      BY BandPlaces, Sizes DEF Device
    <2> HIDE DEF v
    <2> QED
      BY <2>1
  <1>2. /\ q.dc \in Cursors /\ q.paper \in Papers /\ q.paper.x \in Int /\ q.paper.y \in Int
        /\ q.dc.curx \in Int /\ q.dc.cury \in Int /\ q.dc.skip \in BOOLEAN
    BY DEF Pairs, Cursors, Papers
  <1>3. RoundedUp(v) \in Int /\ ErrorUp(v) \in -4 .. 0 /\ 5 * RoundedUp(v) + ErrorUp(v) = 12 * v
    BY <1>1, Rounding
  <1> HIDE DEF v
  <1>4. CASE r = q /\ (q.dc.skip => CurDown(q) = v)
    <2>1. SameBand(q.dc, r.dc) /\ SamePaper(q.paper, r.paper)
      BY <1>4 DEF SameBand, SamePaper
    <2>2. /\ Exact /\ ~BandOnTrust(q.dc.text) /\ SmallErrors(q.dc)
          /\ KnowsDown(q) => Down(q) = 12 * CurDown(q)
          /\ q.dc.skip \/ Down(q) = 12 * v
          => Down(q) = 12 * v
      BY <1>1, <1>4 DEF KnowsDown, BandOnTrust, v
    <2> HIDE DEF r
    <2> QED
      BY <1>1, <1>2, <1>4, <2>1, <2>2 DEF ToldTo, r, v
  <1>5. CASE q.dc.skip /\ device.land /\ q.dc.curx # v
    <2> DEFINE e == IF device.jet THEN ErrorUp(v) ELSE q.dc.xerr
               x == IF device.jet THEN RoundedUp(v) * 5 ELSE v * 12
    <2>1. r = XMoveTo(q, v)
      BY <1>5 DEF ToBand, v
    <2>2. r = [dc |-> [q.dc EXCEPT !.curx = v, !.xerr = e],
               paper |-> [q.paper EXCEPT !.x = x]]
      <3>1. CASE device.jet
        <4>1. r = [dc |-> [q.dc EXCEPT !.curx = v, !.xerr = ErrorUp(v)],
                   paper |-> [q.paper EXCEPT !.x = RoundedUp(v) * 5]]
          BY <1>5, <2>1, <3>1 DEF XMoveTo, GoX, Pairs, Cursors, Papers
        <4> QED
          BY <3>1, <4>1
      <3>2. CASE ~device.jet
        <4>1. r = [dc |-> [q.dc EXCEPT !.curx = v], paper |-> [q.paper EXCEPT !.x = v * 12]]
          BY <1>5, <2>1, <3>2 DEF XMoveTo, GoX, Pairs, Cursors, Papers
        <4>2. [q.dc EXCEPT !.curx = v, !.xerr = q.dc.xerr] = [q.dc EXCEPT !.curx = v]
          BY <1>2 DEF Cursors
        <4> QED
          BY <3>2, <4>1, <4>2
      <3> QED
        BY <1>1, <3>1, <3>2
    <2>3. e \in Int /\ x \in Int
      BY <1>1, <1>3 DEF Pairs, Cursors
    <2> HIDE DEF e, x
    <2>4. /\ [q.dc EXCEPT !.curx = v, !.xerr = e] \in Cursors
          /\ [q.paper EXCEPT !.x = x] \in Papers
      <3>1. v \in Int
        BY <1>1
      <3>2. [q.dc EXCEPT !.curx = v, !.xerr = e] \in Cursors
        BY <1>2, <2>3, <3>1 DEF Cursors
      <3>3. [q.paper EXCEPT !.x = x] \in Papers
        BY <1>2, <2>3 DEF Papers
      <3> QED
        BY <3>2, <3>3
    <2>5. /\ r \in Pairs /\ r.dc = [q.dc EXCEPT !.curx = v, !.xerr = e]
          /\ r.paper = [q.paper EXCEPT !.x = x]
      BY <2>2, <2>4 DEF Pairs
    <2> HIDE DEF r
    <2>6. /\ SameBand(q.dc, r.dc) /\ SamePaper(q.paper, r.paper)
          /\ r.paper.y = q.paper.y /\ r.dc.yerr = q.dc.yerr /\ r.dc.cury = q.dc.cury
          /\ r.paper.x = x /\ r.dc.xerr = e
      BY <1>2, <2>5 DEF Cursors, Papers, SameBand, SamePaper
    <2>7. Along(r) = Along(q) /\ CurAlong(r) = CurAlong(q)
      BY <1>5, <2>6 DEF Along, CurAlong
    <2>8. ASSUME Exact, SmallErrors(q.dc)
          PROVE  SmallErrors(r.dc) /\ Down(r) = 12 * v
      <3>1. ~device.jet
        BY <1>5, <2>8 DEF Exact
      <3>2. e = 0 /\ x = 12 * v /\ r.dc.yerr = 0
        BY <1>1, <2>6, <2>8, <3>1 DEF SmallErrors, e, x
      <3> QED
        BY <1>1, <1>5, <2>6, <3>1, <3>2 DEF SmallErrors, Down
    <2>9. ToldTo(q, band, r)
      BY <2>5, <2>6, <2>7, <2>8 DEF ToldTo, v
    <2> QED
      BY <2>9 DEF r
  <1>6. CASE q.dc.skip /\ ~device.land /\ q.dc.cury # v
    <2> DEFINE e == IF device.jet THEN ErrorUp(v) ELSE q.dc.yerr
               y == IF device.jet THEN RoundedUp(v) * 5 ELSE v * 12
    <2>1. r = YMoveTo(q, v)
      BY <1>6 DEF ToBand, v
    <2>2. r = [dc |-> [q.dc EXCEPT !.cury = v, !.yerr = e],
               paper |-> [q.paper EXCEPT !.y = y]]
      <3>1. CASE device.jet
        <4>1. r = [dc |-> [q.dc EXCEPT !.cury = v, !.yerr = ErrorUp(v)],
                   paper |-> [q.paper EXCEPT !.y = RoundedUp(v) * 5]]
          BY <1>6, <2>1, <3>1 DEF YMoveTo, GoY, Pairs, Cursors, Papers
        <4> QED
          BY <3>1, <4>1
      <3>2. CASE ~device.jet
        <4>1. r = [dc |-> [q.dc EXCEPT !.cury = v], paper |-> [q.paper EXCEPT !.y = v * 12]]
          BY <1>6, <2>1, <3>2 DEF YMoveTo, GoY, Pairs, Cursors, Papers
        <4>2. [q.dc EXCEPT !.cury = v, !.yerr = q.dc.yerr] = [q.dc EXCEPT !.cury = v]
          BY <1>2 DEF Cursors
        <4> QED
          BY <3>2, <4>1, <4>2
      <3> QED
        BY <1>1, <3>1, <3>2
    <2>3. e \in -4 .. 5 /\ y \in Int
      BY <1>1, <1>3 DEF Pairs, Cursors
    <2> HIDE DEF e, y
    <2>4. /\ [q.dc EXCEPT !.cury = v, !.yerr = e] \in Cursors
          /\ [q.paper EXCEPT !.y = y] \in Papers
      <3>1. v \in Int
        BY <1>1
      <3>2. [q.dc EXCEPT !.cury = v, !.yerr = e] \in Cursors
        BY <1>2, <2>3, <3>1 DEF Cursors
      <3>3. [q.paper EXCEPT !.y = y] \in Papers
        BY <1>2, <2>3 DEF Papers
      <3> QED
        BY <3>2, <3>3
    <2>5. /\ r \in Pairs /\ r.dc = [q.dc EXCEPT !.cury = v, !.yerr = e]
          /\ r.paper = [q.paper EXCEPT !.y = y]
      BY <2>2, <2>4 DEF Pairs
    <2> HIDE DEF r
    <2>6. /\ SameBand(q.dc, r.dc) /\ SamePaper(q.paper, r.paper)
          /\ r.paper.x = q.paper.x /\ r.dc.xerr = q.dc.xerr /\ r.dc.curx = q.dc.curx
          /\ r.paper.y = y /\ r.dc.yerr = e
      BY <1>2, <2>5 DEF Cursors, Papers, SameBand, SamePaper
    <2>7. Along(r) = Along(q) /\ CurAlong(r) = CurAlong(q)
      BY <1>6, <2>6 DEF Along, CurAlong
    <2>8. ASSUME Exact, SmallErrors(q.dc)
          PROVE  SmallErrors(r.dc) /\ Down(r) = 12 * v
      <3>1. CASE device.jet
        <4>1. y + e = 12 * v
          BY <1>3, <3>1 DEF e, y
        <4> QED
          BY <1>6, <2>6, <2>8, <3>1, <4>1 DEF SmallErrors, Down
      <3>2. CASE ~device.jet
        <4>1. e = 0 /\ y = 12 * v
          BY <1>1, <2>8, <3>2 DEF SmallErrors, e, y
        <4> QED
          BY <1>1, <1>6, <2>6, <2>8, <3>2, <4>1 DEF SmallErrors, Down
      <3> QED
        BY <1>1, <3>1, <3>2
    <2>9. ToldTo(q, band, r)
      BY <2>5, <2>6, <2>7, <2>8 DEF ToldTo, v
    <2> QED
      BY <2>9 DEF r
  <1>7. ~q.dc.skip => r = q
    BY DEF ToBand
  <1>8. q.dc.skip /\ CurDown(q) = v => r = q
    BY DEF ToBand, XMoveTo, YMoveTo, CurDown, v
  <1>9. q.dc.skip /\ CurDown(q) # v => IF device.land THEN q.dc.curx # v ELSE q.dc.cury # v
    BY DEF CurDown
  <1> QED
    BY <1>1, <1>2, <1>4, <1>5, <1>6, <1>7, <1>8, <1>9

-----------------------------------------------------------------------------
(* The steps.                                                              *)

\* A step changes neither the device nor the drawing.
LEMMA DeviceKept ==
  ASSUME device' = device, ink' = ink
  PROVE  /\ Scale' = Scale /\ Width' = Width /\ Height' = Height /\ NumBands' = NumBands
         /\ BandBitmapSize' = BandBitmapSize /\ RowBytes' = RowBytes
         /\ Exact' <=> Exact
         /\ Inks_' <=> Inks_
  BY DEF Scale, Width, Height, NumBands, Extent, BandBitmapSize, RowBytes, Exact, Inks_

LEMMA InkKept ==
  ASSUME device' = device, ink' = ink
  PROVE  \A d : /\ InkedBytes(d)' = InkedBytes(d)
                /\ Unprintable(d)' <=> Unprintable(d)
  BY DeviceKept DEF InkedBytes, RowOf, PlaceOf, Unprintable

LEMMA ShiftsKept ==
  ASSUME device' = device, ink' = ink
  PROVE  Shifts' <=> Shifts
  BY DeviceKept, InkKept DEF Shifts

LEMMA BandsKept ==
  ASSUME device' = device, ink' = ink
  PROVE  \A b : /\ BandSize(b)' = BandSize(b) /\ BandLeft(b)' = BandLeft(b)
                /\ BandRect(b)' = BandRect(b) /\ BandOffsets(b)' = BandOffsets(b)
                /\ BandBitmap(b)' = BandBitmap(b) /\ BandStart(b)' = BandStart(b)
  BY DeviceKept DEF BandSize, LastBandSz, Extent, BandLeft, BandRect, BandOffsets, BandBitmap, BandStart

LEMMA DrawnKept ==
  ASSUME device' = device, ink' = ink
  PROVE  \A b : /\ Drawn(b)' = Drawn(b)
                /\ \A d : InBand(d, b)' <=> InBand(d, b)
  BY BandsKept DEF Drawn, InBand

LEMMA InvKept ==
  ASSUME device' = device, ink' = ink, device \in Devices, Inks_,
         TypesOf(dc', paper'), BandsOf(dc', bitmap'), SheetOf(dc'.n, paper'),
         Exact /\ ~Shifts /\ ~BandOnTrust(dc'.text) => PositionOf(dc', paper')
  PROVE  Inv'
  <1>1. TypesOf(dc, paper)'
    BY DeviceKept DEF TypesOf, Printed
  <1>2. BandsOf(dc, bitmap)'
    BY DeviceKept, BandsKept, DrawnKept DEF BandsOf
  <1>3. SheetOf(dc.n, paper)'
    BY DeviceKept, InkKept, DrawnKept DEF SheetOf, Printed
  <1>4. PositionOf(dc, paper)' <=> PositionOf(dc', paper')
    BY DeviceKept, BandsKept
       DEF PositionOf, SmallErrors, InPlace, MarkInPlace, OnTrust, Tolerance, Along, Down, CurAlong,
           CurDown, KnowsAlong, KnowsDown
  <1>5. BandOnTrust(dc.text)' <=> BandOnTrust(dc'.text)
    BY DeviceKept, BandsKept DEF BandOnTrust
  <1> QED
    BY <1>1, <1>2, <1>3, <1>4, <1>5, DeviceKept, ShiftsKept DEF Inv

\* Where the paper may be between two calls.
Known(c, p) ==
  LET q == [dc |-> c, paper |-> p]
  IN  /\ SmallErrors(c) /\ InPlace(p, c.text)
      /\ KnowsAlong(q) => Along(q) = 12 * CurAlong(q)
      /\ KnowsDown(q) => Down(q) = 12 * CurDown(q)

\* What NEXTBAND leaves of the band that was drawn.
SentBand(band, s) ==
  /\ s.dc \in Cursors /\ s.paper \in Papers /\ ~s.paper.graphics
  /\ SameSize(dc, s.dc) /\ (dc.grx => ~s.dc.skip)
  /\ Printed(s.paper) \subseteq ink
  /\ paper.marks \subseteq s.paper.marks
  /\ \A d \in ink : InBand(d, band) /\ ~Unprintable(d) => d \in Printed(s.paper)
  /\ Exact /\ ~Shifts /\ ~BandOnTrust(dc.text) =>
       /\ Known(s.dc, s.paper)
       /\ band # NumBands /\ ~s.dc.skip =>
            Down([dc |-> s.dc, paper |-> s.paper]) = 12 * BandStart(band + 1)

LEMMA SentFacts ==
  ASSUME Inv, dc.n \in 2 .. NumBands + 1
  PROVE  dc.n - 1 \in 1 .. NumBands /\ BandNow(dc.n - 1) /\ SentBand(dc.n - 1, Sent)
  <1> DEFINE band == dc.n - 1
             w == [dc |-> dc, paper |-> paper]
             t == ToBand(w, band)
             q == Dump(t)
             s == Sent
  <1>1. /\ device \in Devices /\ Inks_ /\ dc \in Cursors /\ paper \in Papers /\ ~paper.graphics
        /\ Printed(paper) \subseteq ink
        /\ Exact /\ ~Shifts /\ ~BandOnTrust(dc.text) => PositionOf(dc, paper)
    BY DEF Inv, TypesOf
  <1>2. band \in 1 .. NumBands /\ dc.n > 1
    BY <1>1, BandSizes
  <1>3. BandNow(band) /\ (bitmap # {} => dc.grx)
    BY <1>2 DEF Inv, BandsOf, BandNow
  <1>4. w \in Pairs /\ w.dc = dc /\ w.paper = paper
    BY <1>1 DEF Pairs
  <1>5. s = IF ~dc.grx THEN [w EXCEPT !.dc.skip = TRUE]
            ELSE [dc |-> [q.dc EXCEPT !.curx = -1, !.cury = -1, !.grx = FALSE, !.skip = FALSE],
                  paper |-> q.paper]
    BY DEF Sent
  <1>6. Exact /\ ~Shifts /\ ~BandOnTrust(dc.text) =>
          /\ Known(dc, paper)
          /\ ~dc.skip => Down(w) = 12 * BandStart(band)
    BY <1>1, <1>2 DEF PositionOf, Known
  <1> HIDE DEF band, w, t, q, s
  <1>7. CASE ~dc.grx
    <2>1. s = [dc |-> [dc EXCEPT !.skip = TRUE], paper |-> paper]
      BY <1>4, <1>5, <1>7 DEF w
    <2>2. /\ s.paper = paper /\ s.dc = [dc EXCEPT !.skip = TRUE]
      BY <2>1
    <2>3. /\ s.dc \in Cursors /\ SameSize(dc, s.dc) /\ s.dc.skip
          /\ s.dc.curx = dc.curx /\ s.dc.cury = dc.cury
          /\ s.dc.xerr = dc.xerr /\ s.dc.yerr = dc.yerr /\ s.dc.text = dc.text
      BY <1>1, <2>2 DEF Cursors, SameSize
    <2>4. \A d \in ink : ~InBand(d, band)
      <3>1. Drawn(band) = {}
        BY <1>3, <1>7 DEF BandNow
      <3>2. Drawn(band) = {[dot |-> d, at |-> At(band, d)] : d \in {e \in ink : InBand(e, band)}}
        BY <1>1, <1>2, DrawnIs
      <3>3. ASSUME NEW d \in ink, InBand(d, band)
            PROVE  FALSE
        <4>1. [dot |-> d, at |-> At(band, d)] \in Drawn(band)
          BY <3>2, <3>3
        <4> QED
          BY <3>1, <4>1
      <3> QED
        BY <3>3
    <2>5. Known(dc, paper) => Known(s.dc, s.paper)
      BY <2>2, <2>3
         DEF Known, SmallErrors, Along, Down, CurAlong, CurDown, KnowsAlong, KnowsDown
    <2>6. SentBand(band, s)
      BY <1>1, <1>6, <1>7, <2>2, <2>3, <2>4, <2>5 DEF SentBand
    <2> QED
      BY <1>2, <1>3, <2>6 DEF band, s
  <1>8. CASE dc.grx
    <2>1. ToldTo(w, band, t)
      BY <1>1, <1>2, <1>4, ToBandFacts DEF t
    <2>2. t \in Pairs /\ ~t.paper.graphics /\ t.paper.marks = paper.marks /\ SameBand(dc, t.dc)
      BY <1>1, <1>4, <2>1 DEF ToldTo, SamePaper
    <2>3. BandOut(t, band, q)
      BY <1>1, <1>2, <1>3, <2>2, DumpFacts DEF q
    <2>4. /\ q.dc \in Cursors /\ q.paper \in Papers /\ ~q.paper.graphics
          /\ SameBand(dc, q.dc) /\ paper.marks \subseteq q.paper.marks
          /\ \A m \in q.paper.marks : m \in paper.marks \/ m.dot \in ink
          /\ \A d \in ink : InBand(d, band) /\ ~Unprintable(d) => d \in Printed(q.paper)
      BY <2>2, <2>3 DEF BandOut, SameBand
    <2>5. /\ s.paper = q.paper
          /\ s.dc = [q.dc EXCEPT !.curx = -1, !.cury = -1, !.grx = FALSE, !.skip = FALSE]
      BY <1>5, <1>8
    <2>6. /\ s.dc \in Cursors /\ ~s.dc.skip /\ s.dc.curx = -1 /\ s.dc.cury = -1
          /\ s.dc.xerr = q.dc.xerr /\ s.dc.yerr = q.dc.yerr
          /\ SameSize(q.dc, s.dc)
      <3> DEFINE c == [q.dc EXCEPT !.curx = -1, !.cury = -1, !.grx = FALSE, !.skip = FALSE]
      <3>1. c \in Cursors
        <4>1. -1 \in Int /\ FALSE \in BOOLEAN
          OBVIOUS
        <4> QED
          BY <2>4, <4>1 DEF Cursors
      <3>2. c.curx = -1 /\ c.cury = -1 /\ c.skip = FALSE
        BY <2>4 DEF Cursors
      <3>3. c.xerr = q.dc.xerr /\ c.yerr = q.dc.yerr /\ SameSize(q.dc, c)
        BY <2>4 DEF Cursors, SameSize
      <3> HIDE DEF c
      <3> QED
        BY <2>5, <3>1, <3>2, <3>3 DEF c
    <2>7. SameSize(dc, s.dc)
      BY <2>4, <2>6 DEF SameSize, SameBand
    <2>8. Printed(s.paper) \subseteq ink
      BY <1>1, <2>4, <2>5 DEF Printed
    <2>9. ASSUME Exact, ~Shifts, ~BandOnTrust(dc.text)
          PROVE  /\ Known(s.dc, s.paper)
                 /\ band # NumBands => 
                      Down([dc |-> s.dc, paper |-> s.paper]) = 12 * BandStart(band + 1)
      <3>1. /\ SmallErrors(dc) /\ InPlace(paper, dc.text)
            /\ KnowsAlong(w) => Along(w) = 12 * CurAlong(w)
            /\ KnowsDown(w) => Down(w) = 12 * CurDown(w)
            /\ dc.skip \/ Down(w) = 12 * BandStart(band)
        BY <1>1, <1>6, <2>9 DEF Known, w, Cursors
      <3>2. SmallErrors(t.dc) /\ Down(t) = 12 * BandStart(band) /\ Along(t) = Along(w)
            /\ CurAlong(t) = CurAlong(w) /\ t.dc.text = dc.text
        BY <1>4, <2>1, <2>9, <3>1 DEF ToldTo, SameBand
      <3>a. KnowsAlong(t) <=> KnowsAlong(w)
        BY <1>4, <3>2 DEF KnowsAlong
      <3>3. Ready(t, band)
        BY <2>2, <3>1, <3>2, <3>a DEF Ready, InPlace
      <3>4. /\ SmallErrors(q.dc) /\ InPlace(q.paper, q.dc.text)
            /\ band # NumBands => Down(q) = 12 * BandStart(band + 1)
        BY <2>3, <2>9, <3>3 DEF BandOut
      <3> DEFINE p == [dc |-> s.dc, paper |-> s.paper]
      <3>5. p.dc = s.dc /\ p.paper = s.paper
        OBVIOUS
      <3> HIDE DEF p
      <3>6. SmallErrors(s.dc) /\ Down(p) = Down(q)
        BY <2>5, <2>6, <3>4, <3>5 DEF SmallErrors, Down
      <3>7. CurAlong(p) = -1 /\ CurDown(p) = -1 /\ -1 \notin Nat
        BY <2>6, <3>5 DEF CurAlong, CurDown
      <3>8. Known(s.dc, s.paper)
        BY <2>5, <2>6, <3>4, <3>6, <3>7 DEF Known, SameSize, KnowsAlong, KnowsDown, p
      <3> QED
        BY <3>4, <3>6, <3>8 DEF p
    <2>10. SentBand(band, s)
      BY <2>4, <2>5, <2>6, <2>7, <2>8, <2>9 DEF SentBand
    <2> QED
      BY <1>2, <1>3, <2>10 DEF band, s
  <1> QED
    BY <1>1, <1>7, <1>8 DEF Cursors

\* What NEXTBAND gives to be drawn.
LEMMA GivenFacts ==
  ASSUME device \in Devices, Inks_, NEW d \in Cursors, NEW band \in 1 .. NumBands,
         GiveBand(d, band)
  PROVE  /\ dc' \in Cursors /\ dc'.n = band + 1
         /\ dc'.curx = d.curx /\ dc'.cury = d.cury /\ dc'.xerr = d.xerr /\ dc'.yerr = d.yerr
         /\ dc'.skip = d.skip /\ dc'.text = d.text
         /\ BandsOf(dc', bitmap')
  <1> DEFINE x == BandOffsets(band).x * Scale
             y == BandOffsets(band).y * Scale
             wb == BandBitmap(band).bytes
             h == BandBitmap(band).rows
  <1>1. NumBands \in Nat /\ band \in Nat /\ band + 1 \in Nat /\ band + 1 > 1 /\ (band + 1) - 1 = band
    BY BandSizes
  <1>2. wb \in Nat /\ h \in Nat
    BY DrawnFits
  <1>3. x \in Int /\ y \in Int
    <2>1. /\ device.land \in BOOLEAN /\ Width \in Nat /\ Scale \in {1, 2, 4}
          /\ BandSize(band) \in 1 .. DEPTH /\ (band - 1) * DEPTH \in Nat
      BY Sizes, BandSizes DEF Device
    <2>2. BandLeft(band) \in Int
      BY <1>1, <2>1 DEF BandLeft
    <2>3. NumBytes(BandSize(band)) * BYTE \in Int
      BY <2>1, WordFacts
    <2>4. BandOffsets(band).x \in Int /\ BandOffsets(band).y \in Int
      BY <2>1, <2>2, <2>3 DEF BandOffsets
    <2> QED
      BY <2>1, <2>4
  <1>4. /\ bitmap' = Drawn(band)
        /\ \E drawn \in BOOLEAN :
             /\ Drawn(band) # {} => drawn
             /\ dc' = [d EXCEPT !.n = band + 1, !.grx = drawn, !.xOffset = x, !.yOffset = y,
                                !.bmWidthBytes = wb, !.bmHeight = h]
    BY DEF GiveBand
  <1> HIDE DEF x, y, wb, h
  <1>5. PICK drawn \in BOOLEAN :
          /\ Drawn(band) # {} => drawn
          /\ dc' = [d EXCEPT !.n = band + 1, !.grx = drawn, !.xOffset = x, !.yOffset = y,
                             !.bmWidthBytes = wb, !.bmHeight = h]
    BY <1>4
  <1>6. /\ dc' \in Cursors /\ dc'.n = band + 1 /\ dc'.grx = drawn
        /\ dc'.curx = d.curx /\ dc'.cury = d.cury /\ dc'.xerr = d.xerr /\ dc'.yerr = d.yerr
        /\ dc'.skip = d.skip /\ dc'.text = d.text /\ dc'.bmWidthBytes = wb /\ dc'.bmHeight = h
    BY <1>1, <1>2, <1>3, <1>5 DEF Cursors
  <1>7. BandsOf(dc', bitmap')
    BY <1>1, <1>4, <1>5, <1>6 DEF BandsOf, wb, h
  <1> QED
    BY <1>6, <1>7

LEMMA InitInv == Init => Inv
  <1> SUFFICES ASSUME Init
               PROVE  Inv
    OBVIOUS
  <1>1. device \in Devices /\ Inks_ /\ bitmap = {} /\ paper = NewPaper
    BY DEF Init, Inks_
  <1>2. NumBands \in Nat \ {0} /\ NumBands + 1 \in Nat
    BY <1>1, BandSizes
  <1>3. -1 \in Int /\ -1 \notin Nat /\ 0 \in -4 .. 5 /\ 0 \in -4 .. 0
    OBVIOUS
  <1>4. dc \in Cursors
    BY <1>3 DEF Init, Cursors
  <1>5. /\ dc.n = 1 /\ ~dc.grx /\ dc.curx = -1 /\ dc.cury = -1 /\ dc.xerr = 0 /\ dc.yerr = 0
        /\ dc.bmWidthBytes = 0 /\ dc.bmHeight = 0
    BY DEF Init
  <1> HIDE DEF Init
  <1>6. paper \in Papers /\ paper.marks = {} /\ ~paper.graphics
    BY <1>1 DEF NewPaper, Papers
  <1>7. TypesOf(dc, paper)
    BY <1>2, <1>4, <1>5, <1>6 DEF TypesOf, Printed
  <1>8. BandsOf(dc, bitmap)
    BY <1>1, <1>5 DEF BandsOf
  <1>9. SheetOf(dc.n, paper)
    <2>1. \A band \in 1 .. NumBands : ~(band < 0)
      BY <1>2
    <2> QED
      BY <1>5, <1>6, <2>1 DEF SheetOf
  <1>10. PositionOf(dc, paper)
    <2>1. SmallErrors(dc)
      BY <1>3, <1>5 DEF SmallErrors
    <2>2. InPlace(paper, dc.text)
      BY <1>6 DEF InPlace
    <2> DEFINE q == [dc |-> dc, paper |-> paper]
    <2>3. CurAlong(q) \notin Nat /\ CurDown(q) \notin Nat
      BY <1>3, <1>5 DEF CurAlong, CurDown
    <2> QED
      BY <1>5, <2>1, <2>2, <2>3 DEF PositionOf, KnowsAlong, KnowsDown
  <1> QED
    BY <1>1, <1>7, <1>8, <1>9, <1>10 DEF Inv

\* What text leaves: on the y axis the paper is where the driver thinks it is.
TextLeft(q, t, r) ==
  /\ r \in Pairs
  /\ r.dc.curx = t.x /\ r.dc.text = t.x /\ r.dc.cury = t.y
  /\ r.dc.xerr \in -4 .. 0 /\ r.dc.yerr \in -4 .. 0
  /\ ~device.jet => r.dc.xerr = 0 /\ r.dc.yerr = 0
  /\ t.y \in Nat => r.paper.y + r.dc.yerr = 12 * t.y
  /\ r.paper.marks = q.paper.marks /\ r.paper.graphics = q.paper.graphics

LEMMA TextFacts ==
  ASSUME device \in Devices, NEW q \in Pairs, NEW t \in Text,
         q.dc.cury = -1, q.dc.xerr = 0, q.dc.yerr = 0
  PROVE  TextLeft(q, t, AfterText(q, t))
  <1> DEFINE line == YMoveTo(q, t.y)
             e == IF t.y = -1 \/ ~device.jet THEN 0 ELSE ErrorUp(t.y)
             f == IF device.jet THEN t.err ELSE 0
             y == IF t.y = -1 THEN q.paper.y
                  ELSE IF device.jet THEN RoundedUp(t.y) * 5 ELSE t.y * 12
             r == AfterText(q, t)
  <1>1. /\ device.jet \in BOOLEAN /\ t.x \in Int /\ t.at \in Int
        /\ t.y \in Nat \cup {-1} /\ t.y \in Int
        /\ q.dc \in Cursors /\ q.paper \in Papers /\ q = [dc |-> q.dc, paper |-> q.paper]
    BY Sizes DEF Device, Text, Pairs
  <1>2. RoundedUp(t.y) \in Int /\ ErrorUp(t.y) \in -4 .. 0
        /\ 5 * RoundedUp(t.y) + ErrorUp(t.y) = 12 * t.y
    BY <1>1, Rounding
  <1>f. f \in -4 .. 0 /\ (~device.jet => f = 0)
    BY <1>1 DEF Text
  <1>3. e \in -4 .. 0 /\ y \in Int /\ (~device.jet => e = 0) /\ (t.y \in Nat => y + e = 12 * t.y)
    <2>1. q.paper.y \in Int /\ -1 \notin Nat
      BY <1>1 DEF Papers
    <2> QED
      BY <1>1, <1>2, <2>1
  <1>4. line = [dc |-> [q.dc EXCEPT !.cury = t.y, !.yerr = e], paper |-> [q.paper EXCEPT !.y = y]]
    <2>1. CASE t.y = -1
      <3>1. line = q /\ e = 0 /\ y = q.paper.y
        BY <2>1 DEF YMoveTo
      <3>2. [q.dc EXCEPT !.cury = t.y, !.yerr = e] = q.dc /\ [q.paper EXCEPT !.y = y] = q.paper
        BY <1>1, <2>1, <3>1 DEF Cursors, Papers
      <3> HIDE DEF line, e, y
      <3> QED
        BY <1>1, <3>1, <3>2
    <2>2. CASE t.y # -1 /\ device.jet
      <3>1. e = ErrorUp(t.y) /\ y = RoundedUp(t.y) * 5
        BY <2>2
      <3>2. line = [dc |-> [q.dc EXCEPT !.cury = t.y, !.yerr = ErrorUp(t.y)],
                    paper |-> [q.paper EXCEPT !.y = RoundedUp(t.y) * 5]]
        BY <1>1, <2>2 DEF YMoveTo, GoY, Cursors, Papers
      <3> QED
        BY <3>1, <3>2
    <2>3. CASE t.y # -1 /\ ~device.jet
      <3>1. e = 0 /\ y = t.y * 12
        BY <2>3
      <3>2. line = [dc |-> [q.dc EXCEPT !.cury = t.y], paper |-> [q.paper EXCEPT !.y = t.y * 12]]
        BY <1>1, <2>3 DEF YMoveTo, GoY, Cursors, Papers
      <3>3. [q.dc EXCEPT !.cury = t.y, !.yerr = 0] = [q.dc EXCEPT !.cury = t.y]
        BY <1>1 DEF Cursors
      <3> HIDE DEF line, e, y
      <3> QED
        BY <3>1, <3>2, <3>3
    <2> QED
      BY <1>1, <2>1, <2>2, <2>3
  <1>5. r = [line EXCEPT !.dc.curx = t.x, !.dc.xerr = f, !.dc.text = t.x, !.paper.x = t.at]
    BY DEF AfterText
  <1> HIDE DEF line, e, f, y
  <1>6. r = [dc |-> [q.dc EXCEPT !.cury = t.y, !.yerr = e, !.curx = t.x, !.xerr = f, !.text = t.x],
             paper |-> [q.paper EXCEPT !.y = y, !.x = t.at]]
    BY <1>1, <1>4, <1>5 DEF Cursors, Papers
  <1> HIDE DEF r
  <1> DEFINE c == [q.dc EXCEPT !.cury = t.y, !.yerr = e, !.curx = t.x, !.xerr = f, !.text = t.x]
             p == [q.paper EXCEPT !.y = y, !.x = t.at]
  <1>7. /\ c \in Cursors /\ c.curx = t.x /\ c.text = t.x /\ c.cury = t.y /\ c.xerr = f /\ c.yerr = e
    <2>1. e \in -4 .. 5 /\ f \in Int
      BY <1>3, <1>f
    <2> QED
      BY <1>1, <2>1 DEF Cursors
  <1>8. /\ p \in Papers /\ p.y = y /\ p.marks = q.paper.marks /\ p.graphics = q.paper.graphics
    BY <1>1, <1>3 DEF Papers
  <1>9. r.dc = c /\ r.paper = p
    BY <1>6
  <1> HIDE DEF c, p
  <1>10. r \in Pairs
    BY <1>6, <1>7, <1>8, <1>9 DEF Pairs, c, p
  <1>11. TextLeft(q, t, r)
    BY <1>f, <1>3, <1>7, <1>8, <1>9, <1>10 DEF TextLeft
  <1> QED
    BY <1>11 DEF r

\* The first band comes after the text, however that left the cursor.
LEMMA FirstInv == Inv /\ FirstGraphicsBand => Inv'
  <1> SUFFICES ASSUME Inv, FirstGraphicsBand
               PROVE  Inv'
    OBVIOUS
  <1> DEFINE w == [dc |-> dc, paper |-> paper]
  <1>1. /\ device \in Devices /\ Inks_ /\ dc \in Cursors /\ paper \in Papers /\ ~paper.graphics
        /\ Printed(paper) \subseteq ink /\ dc.n = 1 /\ device' = device /\ ink' = ink
        /\ SheetOf(1, paper) /\ dc.cury = -1 /\ dc.xerr = 0 /\ dc.yerr = 0
    BY DEF Inv, TypesOf, BandsOf, FirstGraphicsBand
  <1>2. PICK t \in Texts : LET q == AfterText(w, t)
                           IN  GiveBand([q.dc EXCEPT !.skip = TRUE], 1) /\ paper' = q.paper
    BY DEF FirstGraphicsBand
  <1> DEFINE q == AfterText(w, t)
             d == [q.dc EXCEPT !.skip = TRUE]
  <1>3. t \in Text
    BY HpPageAssumption
  <1>4. w \in Pairs /\ w.dc = dc /\ w.paper = paper
    BY <1>1 DEF Pairs
  <1> HIDE DEF w
  <1>5. TextLeft(w, t, q)
    BY <1>1, <1>3, <1>4, TextFacts
  <1>6. NumBands \in Nat \ {0} /\ 1 \in 1 .. NumBands /\ 2 \in 0 .. NumBands + 1
    BY <1>1, BandSizes
  <1>7. GiveBand(d, 1) /\ paper' = q.paper
    BY <1>2
  <1> HIDE DEF q
  <1>8. /\ q.dc \in Cursors /\ q.paper \in Papers /\ q.dc.xerr \in -4 .. 0 /\ q.dc.yerr \in -4 .. 0
        /\ q.paper.marks = paper.marks /\ q.paper.graphics = paper.graphics
    BY <1>4, <1>5 DEF TextLeft, Pairs
  <1>d. /\ d \in Cursors /\ d.skip /\ d.curx = q.dc.curx /\ d.cury = q.dc.cury
        /\ d.xerr = q.dc.xerr /\ d.yerr = q.dc.yerr /\ d.text = q.dc.text
    BY <1>8 DEF Cursors
  <1> HIDE DEF d
  <1>9. /\ dc' \in Cursors /\ dc'.n = 1 + 1 /\ dc'.curx = q.dc.curx /\ dc'.cury = q.dc.cury
        /\ dc'.xerr = q.dc.xerr /\ dc'.yerr = q.dc.yerr /\ dc'.skip /\ dc'.text = q.dc.text
        /\ BandsOf(dc', bitmap')
    BY <1>1, <1>d, <1>6, <1>7, GivenFacts
  <1>10. dc'.n = 2
    BY <1>9
  <1>11. TypesOf(dc', paper')
    BY <1>1, <1>6, <1>7, <1>8, <1>9, <1>10 DEF TypesOf, Printed
  <1>12. SheetOf(dc'.n, paper')
    <2>1. \A band \in 1 .. NumBands : ~(band < 2 - 1)
      BY <1>6
    <2> QED
      BY <1>10, <2>1 DEF SheetOf
  <1>13. ASSUME Exact, ~Shifts
         PROVE  PositionOf(dc', paper')
    <2> DEFINE r == [dc |-> dc', paper |-> paper']
    <2>1. SmallErrors(dc') /\ InPlace(paper', dc'.text)
      <3>1. paper'.marks = {}
        BY <1>1, <1>7, <1>8 DEF SheetOf
      <3>2. dc'.xerr \in -4 .. 0 /\ (~device.jet => dc'.xerr = 0 /\ dc'.yerr = 0)
        BY <1>5, <1>8, <1>9 DEF TextLeft
      <3> QED
        BY <3>1, <3>2 DEF SmallErrors, InPlace
    <2>2. r.dc = dc' /\ r.paper = q.paper
      BY <1>7
    <2> HIDE DEF r
    <2>3. /\ r.dc.curx = r.dc.text
          /\ r.dc.cury \in Nat => r.paper.y + r.dc.yerr = 12 * r.dc.cury
      BY <1>5, <1>9, <2>2 DEF TextLeft
    <2>4. KnowsAlong(r) => Along(r) = 12 * CurAlong(r)
      BY <2>3 DEF KnowsAlong, CurAlong, Along
    <2>5. KnowsDown(r) => Down(r) = 12 * CurDown(r)
      BY <2>3 DEF KnowsDown, CurDown, Down
    <2> QED
      BY <1>9, <1>10, <2>1, <2>4, <2>5 DEF PositionOf, r
  <1> QED
    BY <1>1, <1>9, <1>11, <1>12, <1>13, InvKept

\* One band is sent and the next is given.
LEMMA NextInv == Inv /\ NextGraphicsBand => Inv'
  <1> SUFFICES ASSUME Inv, NextGraphicsBand
               PROVE  Inv'
    OBVIOUS
  <1> DEFINE s == Sent
             band == dc.n
  <1>1. /\ device \in Devices /\ Inks_ /\ device' = device /\ ink' = ink
        /\ band \in 2 .. NumBands /\ SheetOf(band, paper)
    BY DEF Inv, NextGraphicsBand
  <1>2. NumBands \in Nat /\ band \in Nat /\ band \in 1 .. NumBands
        /\ band \in 2 .. NumBands + 1 /\ band + 1 \in 0 .. NumBands + 1
    BY <1>1, BandSizes
  <1>3. SentBand(band - 1, s)
    BY <1>2, SentFacts
  <1>4. GiveBand(s.dc, band) /\ paper' = s.paper
    BY DEF NextGraphicsBand
  <1> HIDE DEF s, band
  <1>5. s.dc \in Cursors /\ s.paper \in Papers
    BY <1>3 DEF SentBand
  <1>6. /\ dc' \in Cursors /\ dc'.n = band + 1
        /\ dc'.curx = s.dc.curx /\ dc'.cury = s.dc.cury
        /\ dc'.xerr = s.dc.xerr /\ dc'.yerr = s.dc.yerr /\ dc'.skip = s.dc.skip
        /\ dc'.text = s.dc.text
        /\ BandsOf(dc', bitmap')
    BY <1>1, <1>2, <1>4, <1>5, GivenFacts
  <1>7. TypesOf(dc', paper')
    BY <1>2, <1>3, <1>4, <1>6 DEF TypesOf, SentBand
  <1>8. SheetOf(dc'.n, paper')
    <2>1. ASSUME NEW d \in ink, NEW b \in 1 .. NumBands, InBand(d, b), ~Unprintable(d),
                 b < (band + 1) - 1
          PROVE  d \in Printed(paper')
      <3>1. b = band - 1 \/ b < band - 1
        BY <1>2, <2>1
      <3>2. CASE b = band - 1
        BY <1>3, <1>4, <2>1, <3>2 DEF SentBand
      <3>3. CASE b < band - 1
        BY <1>1, <1>3, <1>4, <2>1, <3>3 DEF SheetOf, SentBand, Printed
      <3> QED
        BY <3>1, <3>2, <3>3
    <2>2. band + 1 # 0 /\ band + 1 # 1
      BY <1>1, <1>2
    <2> QED
      BY <1>6, <2>1, <2>2 DEF SheetOf
  <1>9. ASSUME Exact, ~Shifts, ~BandOnTrust(dc'.text)
        PROVE  PositionOf(dc', paper')
    <2> DEFINE q == [dc |-> s.dc, paper |-> s.paper]
               r == [dc |-> dc', paper |-> paper']
    <2>1. band - 1 # NumBands /\ (band - 1) + 1 = band /\ (band + 1) - 1 = band /\ band + 1 # 1
      BY <1>1, <1>2
    <2>2. Known(s.dc, s.paper) /\ (~s.dc.skip => Down(q) = 12 * BandStart(band))
      <3>1. ~BandOnTrust(dc.text)
        BY <1>3, <1>6, <1>9 DEF SentBand, SameSize
      <3> QED
        BY <1>3, <1>9, <2>1, <3>1 DEF SentBand
    <2>3. q.dc = s.dc /\ q.paper = s.paper /\ r.dc = dc' /\ r.paper = s.paper
      BY <1>4
    <2> HIDE DEF q, r
    <2>4. Down(r) = Down(q) /\ Along(r) = Along(q) /\ CurDown(r) = CurDown(q)
          /\ CurAlong(r) = CurAlong(q) /\ r.dc.text = q.dc.text
      BY <1>6, <2>3 DEF Down, Along, CurDown, CurAlong
    <2>5. SmallErrors(dc') /\ InPlace(paper', dc'.text)
      BY <1>4, <1>6, <2>2 DEF SmallErrors, Known, InPlace
    <2>6. /\ KnowsAlong(r) => Along(r) = 12 * CurAlong(r)
          /\ KnowsDown(r) => Down(r) = 12 * CurDown(r)
      BY <2>2, <2>4 DEF Known, KnowsAlong, KnowsDown, q
    <2> QED
      BY <1>6, <2>1, <2>2, <2>4, <2>5, <2>6 DEF PositionOf, r
  <1> QED
    BY <1>1, <1>6, <1>7, <1>8, <1>9, InvKept

\* The last band is sent and the page ends.
LEMMA LastInv == Inv /\ LastBand => Inv'
  <1> SUFFICES ASSUME Inv, LastBand
               PROVE  Inv'
    OBVIOUS
  <1> DEFINE s == Sent
             band == dc.n
  <1>1. /\ device \in Devices /\ Inks_ /\ device' = device /\ ink' = ink
        /\ band = NumBands + 1 /\ SheetOf(band, paper)
    BY DEF Inv, LastBand
  <1>2. NumBands \in Nat \ {0} /\ band \in 2 .. NumBands + 1 /\ band - 1 = NumBands
        /\ NumBands \in 1 .. NumBands /\ 0 \in 0 .. NumBands + 1
    BY <1>1, BandSizes
  <1>3. SentBand(band - 1, s) /\ BandNow(band - 1)
    BY <1>2, SentFacts
  <1>4. dc' = [s.dc EXCEPT !.n = 0] /\ paper' = s.paper /\ bitmap' = {}
    BY DEF LastBand
  <1> HIDE DEF s, band
  <1>5. s.dc \in Cursors /\ s.paper \in Papers
    BY <1>3 DEF SentBand
  <1>6. /\ dc' \in Cursors /\ dc'.n = 0
        /\ dc'.curx = s.dc.curx /\ dc'.cury = s.dc.cury
        /\ dc'.xerr = s.dc.xerr /\ dc'.yerr = s.dc.yerr
        /\ dc'.bmWidthBytes = s.dc.bmWidthBytes /\ dc'.bmHeight = s.dc.bmHeight
        /\ dc'.text = s.dc.text
    BY <1>4, <1>5 DEF Cursors
  <1>7. TypesOf(dc', paper')
    BY <1>2, <1>3, <1>4, <1>6 DEF TypesOf, SentBand
  <1>8. BandsOf(dc', bitmap')
    <2>1. s.dc.bmWidthBytes = dc.bmWidthBytes /\ s.dc.bmHeight = dc.bmHeight
      BY <1>3 DEF SentBand, SameSize
    <2>2. dc.bmWidthBytes * dc.bmHeight <= BandBitmapSize
      BY <1>1, <1>2, <1>3, DrawnFits DEF BandNow
    <2> QED
      BY <1>4, <1>6, <2>1, <2>2 DEF BandsOf
  <1>9. SheetOf(dc'.n, paper')
    <2>1. ASSUME NEW d \in ink, NEW b \in 1 .. NumBands, InBand(d, b), ~Unprintable(d)
          PROVE  d \in Printed(paper')
      <3>1. b = band - 1 \/ b < band - 1
        BY <1>2
      <3>2. CASE b = band - 1
        BY <1>3, <1>4, <2>1, <3>2 DEF SentBand
      <3>3. CASE b < band - 1
        BY <1>1, <1>3, <1>4, <2>1, <3>3 DEF SheetOf, SentBand, Printed
      <3> QED
        BY <3>1, <3>2, <3>3
    <2> QED
      BY <1>6, <2>1 DEF SheetOf
  <1>10. ASSUME Exact, ~Shifts, ~BandOnTrust(dc'.text)
         PROVE  PositionOf(dc', paper')
    <2> DEFINE q == [dc |-> s.dc, paper |-> s.paper]
               r == [dc |-> dc', paper |-> paper']
    <2>1. Known(s.dc, s.paper)
      <3>1. ~BandOnTrust(dc.text)
        BY <1>3, <1>6, <1>10 DEF SentBand, SameSize
      <3> QED
        BY <1>3, <1>10, <3>1 DEF SentBand
    <2>2. q.dc = s.dc /\ q.paper = s.paper /\ r.dc = dc' /\ r.paper = s.paper
      BY <1>4
    <2> HIDE DEF q, r
    <2>3. Down(r) = Down(q) /\ Along(r) = Along(q) /\ CurDown(r) = CurDown(q)
          /\ CurAlong(r) = CurAlong(q) /\ r.dc.text = q.dc.text
      BY <1>6, <2>2 DEF Down, Along, CurDown, CurAlong
    <2>4. SmallErrors(dc') /\ InPlace(paper', dc'.text)
      BY <1>4, <1>6, <2>1 DEF SmallErrors, Known, InPlace
    <2>5. /\ KnowsAlong(r) => Along(r) = 12 * CurAlong(r)
          /\ KnowsDown(r) => Down(r) = 12 * CurDown(r)
      BY <2>1, <2>3 DEF Known, KnowsAlong, KnowsDown, q
    <2> QED
      BY <1>6, <2>4, <2>5 DEF PositionOf, r
  <1> QED
    BY <1>1, <1>6, <1>7, <1>8, <1>9, <1>10, InvKept

LEMMA StepInv == Inv /\ [Next]_vars => Inv'
  <1>1. Inv /\ UNCHANGED vars => Inv'
    <2> SUFFICES ASSUME Inv, UNCHANGED vars
                 PROVE  Inv'
      OBVIOUS
    <2>1. device' = device /\ ink' = ink /\ dc' = dc /\ bitmap' = bitmap /\ paper' = paper
      BY DEF vars
    <2>2. /\ device \in Devices /\ Inks_ /\ TypesOf(dc, paper) /\ BandsOf(dc, bitmap)
          /\ SheetOf(dc.n, paper) /\ (Exact /\ ~Shifts /\ ~BandOnTrust(dc.text) => PositionOf(dc, paper))
      BY DEF Inv
    <2>3. /\ TypesOf(dc', paper') /\ BandsOf(dc', bitmap') /\ SheetOf(dc'.n, paper')
          /\ (Exact /\ ~Shifts /\ ~BandOnTrust(dc'.text) => PositionOf(dc', paper'))
      BY <2>1, <2>2
    <2> QED
      BY <2>1, <2>2, <2>3, InvKept
  <1> QED
    BY <1>1, FirstInv, NextInv, LastInv DEF Next

LEMMA InvAlways == Spec => []Inv
  BY InitInv, StepInv, PTL DEF Spec

-----------------------------------------------------------------------------
(* What follows.                                                           *)

\* Every variable keeps its type: what is printed are dots of the drawing, and the error
\* that SetY carries stays that of a rounding, so that no movement is corrected by more
\* than one decipoint.
THEOREM PageTypes == Spec => []TypeOK
  <1>1. Inv => TypeOK
    <2> SUFFICES ASSUME Inv
                 PROVE  TypeOK
      OBVIOUS
    <2>1. dc \in Cursors /\ dc.n \in 0 .. NumBands + 1 /\ Printed(paper) \subseteq ink
      BY DEF Inv, TypesOf
    <2>2. dc.curx \in Int /\ dc.cury \in Int /\ dc.xerr \in Int /\ dc.yerr \in -4 .. 5
      BY <2>1 DEF Cursors
    <2>3. \A m \in paper.marks : m.dot \in ink
      BY <2>1 DEF Printed
    <2> QED
      BY <2>1, <2>2, <2>3 DEF TypeOK, Inv
  <1> QED
    BY <1>1, InvAlways, PTL

\* What GDI draws in a band that NEXTBAND gives lies in the bitmap of the band, and that
\* bitmap in the memory that Enable allocated for all of them: the offsets of a landscape
\* band, which is flush right in its bitmap, and the rounding to words agree in
\* ComputeNextBandRect and ComputeBandBitmapSize.
THEOREM PageInBitmap == Spec => []DrawnInBitmap
  <1>1. Inv => DrawnInBitmap
    <2> SUFFICES ASSUME Inv
                 PROVE  DrawnInBitmap
      OBVIOUS
    <2>1. /\ device \in Devices /\ Inks_ /\ BandsOf(dc, bitmap) /\ dc \in Cursors
          /\ dc.n \in 0 .. NumBands + 1 /\ NumBands \in Nat \ {0}
      BY BandSizes DEF Inv, TypesOf
    <2>2. CASE dc.n = 0
      BY <2>1, <2>2 DEF BandsOf, DrawnInBitmap
    <2>3. CASE dc.n = 1
      <3>1. bitmap = {} /\ dc.bmWidthBytes * dc.bmHeight = 0
        BY <2>1, <2>3 DEF BandsOf
      <3>2. BandBitmapSize >= 0
        <4>1. BandBitmap(1).bytes * BandBitmap(1).rows <= BandBitmapSize
          BY <2>1, DrawnFits
        <4>2. BandBitmap(1).bytes \in Nat /\ BandBitmap(1).rows \in Nat
          BY <2>1, DrawnFits
        <4>3. BandBitmapSize \in Int
          BY <2>1, Sizes, WordFacts DEF BandBitmapSize
        <4> DEFINE k == BandBitmap(1).bytes * BandBitmap(1).rows
        <4>4. k \in Nat /\ k <= BandBitmapSize
          BY <4>1, <4>2
        <4> HIDE DEF k
        <4> QED
          BY <4>3, <4>4
      <3> QED
        BY <3>1, <3>2 DEF DrawnInBitmap
    <2>4. CASE dc.n > 1
      <3> DEFINE band == dc.n - 1
      <3>1. band \in 1 .. NumBands
        BY <2>1, <2>4
      <3>2. /\ bitmap = Drawn(band) /\ dc.bmWidthBytes = BandBitmap(band).bytes
            /\ dc.bmHeight = BandBitmap(band).rows
        BY <2>1, <2>4 DEF BandsOf
      <3> HIDE DEF band
      <3> QED
        BY <2>1, <3>1, <3>2, DrawnFits DEF DrawnInBitmap
    <2> QED
      BY <2>1, <2>2, <2>3, <2>4
  <1> QED
    BY <1>1, InvAlways, PTL

\* Every dot is printed where it belongs, whichever bands are skipped, however dump cuts
\* the rows into strips and however far text left the paper from where the driver takes
\* it to be, except where the driver does not move because it takes itself to be there
\* already: along a row in the strips that OnTrust names, and on the pages that
\* BandOnTrust names.  A printer that moves in decipoints is never off by more than one:
\* the errors that SetX and SetY carry do not add up.
THEOREM PageInPlace == Spec => []DotsInPlace
  <1>1. Inv => DotsInPlace
    BY DEF Inv, PositionOf, InPlace, MarkInPlace, Tolerance, Exact, DotsInPlace
  <1> QED
    BY <1>1, InvAlways, PTL

\* When the page is out, every dot of the drawing is on it, but for those that
\* Unprintable names: no dot lies between two bands (SetBandCount), no row is lost where
\* StripTrail and FindBitStrips cut it, and no band with dots is skipped.
THEOREM PageAllPrinted == Spec => []AllPrinted
  <1>1. Inv => AllPrinted
    <2> SUFFICES ASSUME Inv, dc.n = 0, NEW d \in ink, ~Unprintable(d)
                 PROVE  d \in {m.dot : m \in paper.marks}
      BY DEF AllPrinted
    <2>1. device \in Devices /\ Inks_ /\ SheetOf(0, paper)
      BY DEF Inv
    <2>2. PICK band \in 1 .. NumBands : InBand(d, band)
      BY <2>1, DotsInBands
    <2> QED
      BY <2>1, <2>2 DEF SheetOf, Printed
  <1> QED
    BY <1>1, InvAlways, PTL

\* A band that was sent leaves the paper where the next band starts, to one decipoint, so
\* that NEXTBAND need not move there (ComputeBandStartPosition); not on the pages that
\* BandOnTrust names.
THEOREM PageBandsJoin == Spec => BandsJoin
  <1> DEFINE Joins == dc.grx /\ dc'.n # 0 /\ ~Shifts /\ ~(device.land /\ device.jet)
                     /\ ~BandOnTrust(dc.text) =>
                LET off == (IF device.land THEN paper'.x ELSE paper'.y) - 12 * BandStart(dc.n)
                IN  off \in IF device.jet THEN -5 .. 5 ELSE {0}
  <1>1. Inv /\ Next => Joins
    <2> SUFFICES ASSUME Inv, Next, dc.grx, dc'.n # 0, ~Shifts, Exact, ~BandOnTrust(dc.text)
                 PROVE  LET off == (IF device.land THEN paper'.x ELSE paper'.y)
                                   - 12 * BandStart(dc.n)
                        IN  off \in IF device.jet THEN -5 .. 5 ELSE {0}
      BY DEF Exact
    <2>1. CASE FirstGraphicsBand
      BY <2>1 DEF FirstGraphicsBand, Inv, BandsOf
    <2>2. CASE NextGraphicsBand
      <3> DEFINE s == Sent
                 band == dc.n
                 q == [dc |-> s.dc, paper |-> s.paper]
      <3>1. /\ device \in Devices /\ band \in 2 .. NumBands /\ NumBands \in Nat
            /\ paper' = s.paper
        BY <2>2, BandSizes DEF Inv, NextGraphicsBand
      <3>2. SentBand(band - 1, s)
        BY <3>1, SentFacts
      <3> HIDE DEF s, band
      <3>3. band - 1 # NumBands /\ (band - 1) + 1 = band /\ band \in 1 .. NumBands
        BY <3>1
      <3>4. /\ s.dc \in Cursors /\ s.paper \in Papers /\ SmallErrors(s.dc)
            /\ Down(q) = 12 * BandStart(band)
        BY <3>2, <3>3 DEF SentBand, Known
      <3>5. BandStart(band) \in Int /\ device.land \in BOOLEAN /\ device.jet \in BOOLEAN
        <4>1. /\ StartRow(band) \in Nat /\ BandStart(band) = StartRow(band) * Scale
              /\ Scale \in {1, 2, 4} /\ device \in Device
          BY <3>1, <3>3, BandPlaces, Sizes
        <4> QED
          BY <4>1 DEF Device
      <3>6. /\ s.dc.xerr \in Int /\ s.dc.yerr \in -4 .. 5
            /\ s.paper.x \in Int /\ s.paper.y \in Int
        BY <3>4 DEF Cursors, Papers
      <3>7. Down(q) = IF device.land THEN s.paper.x + s.dc.xerr ELSE s.paper.y + s.dc.yerr
        BY DEF Down
      <3> DEFINE at == IF device.land THEN s.paper.x ELSE s.paper.y
                 err == IF device.land THEN s.dc.xerr ELSE s.dc.yerr
                 start == 12 * BandStart(band)
      <3>8. at \in Int /\ start \in Int /\ at + err = start
        BY <3>4, <3>5, <3>6, <3>7
      <3>9. err \in IF device.jet THEN -4 .. 5 ELSE {0}
        BY <3>4, <3>5, <3>6 DEF SmallErrors, Exact
      <3>10. at = IF device.land THEN paper'.x ELSE paper'.y
        BY <3>1
      <3> HIDE DEF q, at, err, start
      <3>11. at - start \in IF device.jet THEN -5 .. 5 ELSE {0}
        BY <3>5, <3>8, <3>9
      <3> QED
        BY <3>10, <3>11 DEF start, band
    <2>3. CASE LastBand
      <3>1. Sent.dc \in Cursors
        <4>1. dc.n \in 2 .. NumBands + 1
          BY <2>3, BandSizes DEF Inv, LastBand
        <4> QED
          BY <4>1, SentFacts DEF SentBand
      <3>2. dc'.n = 0
        BY <2>3, <3>1 DEF LastBand, Cursors
      <3> QED
        BY <3>2
    <2> QED
      BY <2>1, <2>2, <2>3 DEF Next
  <1>2. BandsJoin <=> [][Joins]_vars
    BY DEF BandsJoin
  <1> HIDE DEF Joins
  <1>3. Inv /\ [Next]_vars => [Joins]_vars
    BY <1>1
  <1> QED
    BY <1>2, <1>3, InvAlways, PTL DEF Spec

=============================================================================
