------------------------------- MODULE HpPage -------------------------------
(***************************************************************************)
(* The graphics of one page of the HPPCL printer driver: how NEXTBAND      *)
(* (control.c) divides the page into bands (paper.c) and how dump (dump.c, *)
(* dumputil.a) sends the bitmap of a band to the printer as raster rows    *)
(* with as few cursor movements as possible.                               *)
(*                                                                         *)
(* A dot is a pair <<x, y>> in the resolution of the graphics.  The        *)
(* printer's cursor is kept in twelfths of a dot of 1/300 inch, in which a *)
(* decipoint (the unit the first LaserJet positions in) is five: dc is     *)
(* what the driver believes, paper what the printer did (external).        *)
(*                                                                         *)
(* In portrait a row runs to the right and the printer moves down after    *)
(* it; in landscape the bitmap is transposed, a row runs down the page and *)
(* the printer moves left after it.                                        *)
(***************************************************************************)
EXTENDS Integers, FiniteSets, FiniteSetsExt

CONSTANTS DEPTH,   \* MAX_BANDDEPTH
          BYTE,    \* bits in a byte; a word is two bytes
          GAP,     \* a strip ends where more than GAP blank bytes follow
          POSSIZE, \* strips of a row that scanbits has room for
          Devices, \* set of printers and papers
          Inks,    \* set of drawings: sets of dots
          Texts    \* how the text band may leave the cursor

\* land: epType is DEV_LAND; sf: epScaleFac; jet: epCaps & HPJET; strips: not
\* NOBITSTRIP, not the IIP, not 75 dpi; xImage, yImage: epPF
Device == [land: BOOLEAN, sf: 0 .. 2, jet: BOOLEAN, strips: BOOLEAN,
           xImage: Nat, yImage: Nat]

\* x, y: epCurx, epCury, -1 without text; err: epXerr; at: where the paper is on the x axis
Text == [x: Int, y: Nat \cup {-1}, err: -4 .. 0, at: Int]

\* No row of a paper has more strips than POSSIZE: FindBitStrips starts one at least
\* GAP + 2 bytes after the one before, and none in the last byte.
Fits(d) ==
    LET dots == (IF d.land THEN d.yImage ELSE d.xImage) \div 2 ^ d.sf
        bytes == IF d.land THEN dots \div BYTE
                 ELSE ((dots + 2 * BYTE - 1) \div (2 * BYTE)) * 2
    IN  bytes - 2 < POSSIZE * (GAP + 2)

ASSUME HpPageAssumption ==
    /\ DEPTH \in Nat \ {0} /\ BYTE \in Nat \ {0} /\ GAP \in Nat /\ POSSIZE \in Nat \ {0}
    /\ DEPTH % (2 * BYTE) = 0
    /\ Devices \subseteq Device
    /\ \A d \in Devices : DEPTH * 2 ^ d.sf < (IF d.land THEN d.xImage ELSE d.yImage)
    /\ \A d \in Devices : Fits(d)
    /\ Texts \subseteq Text

VARIABLES device, ink, dc, bitmap, paper
vars == <<device, ink, dc, bitmap, paper>>

Scale == 2 ^ device.sf
Width == device.xImage \div Scale
Height == device.yImage \div Scale

NewPaper == [x |-> 0, y |-> 0, graphics |-> FALSE, margin |-> 0, marks |-> {}]

\* The page after its text band.  dc.text records the curx that text left.
Init ==
    /\ device \in Devices
    /\ ink \in Inks /\ ink \subseteq (0 .. Width - 1) \X (0 .. Height - 1)
    /\ dc = [n |-> 1, skip |-> FALSE, grx |-> FALSE, curx |-> -1, cury |-> -1,
             xerr |-> 0, yerr |-> 0, xOffset |-> 0, yOffset |-> 0,
             bmWidthBytes |-> 0, bmHeight |-> 0, text |-> -1]
    /\ bitmap = {}
    /\ paper = NewPaper

-----------------------------------------------------------------------------
(* paper.c                                                                 *)

NumBytes(val) == ((val + 2 * BYTE - 1) \div (2 * BYTE)) * 2

\* SetBandCount
Extent == IF device.land THEN Width ELSE Height
NumBands == (Extent + DEPTH - 1) \div DEPTH

LastBandSz == IF Extent % DEPTH = 0 THEN DEPTH ELSE Extent % DEPTH

BandSize(band) == IF band = NumBands THEN LastBandSz ELSE DEPTH

\* A wrong version: a band as wide as the page, without the word that it is rounded to
BitmapSizeTight ==
    IF device.land THEN NumBytes(DEPTH) * Height ELSE (Width \div BYTE) * DEPTH

\* ComputeBandBitmapSize: what Enable allocates
BandBitmapSize ==
    IF device.land THEN NumBytes(DEPTH) * Height ELSE NumBytes(Width) * DEPTH

\* ComputeNextBandRect: the rectangle, in dots of the graphics
BandLeft(band) == IF band = NumBands THEN 0 ELSE Width - DEPTH * band

BandRect(band) ==
    IF device.land
    THEN [left |-> BandLeft(band), right |-> BandLeft(band) + BandSize(band),
          top |-> 0, bottom |-> Height]
    ELSE [left |-> 0, right |-> Width, top |-> (band - 1) * DEPTH,
          bottom |-> (band - 1) * DEPTH + BandSize(band)]

\* ... and the offsets of the drawing, which is flush right in the bitmap
BandOffsets(band) ==
    IF device.land
    THEN [x |-> BandLeft(band) - (NumBytes(BandSize(band)) * BYTE - BandSize(band)), y |-> 0]
    ELSE [x |-> 0, y |-> (band - 1) * DEPTH]

BandBitmap(band) ==
    IF device.land THEN [bytes |-> NumBytes(BandSize(band)), rows |-> Height]
    ELSE [bytes |-> NumBytes(Width), rows |-> BandSize(band)]

\* ComputeBandStartPosition, on the axis along which the bands follow
BandStart(band) ==
    IF device.land THEN (Width - DEPTH * (band - 1)) * Scale ELSE (band - 1) * DEPTH * Scale

-----------------------------------------------------------------------------
(* Cursor movements, on a pair q of the device and the paper.  / and % of  *)
(* C round towards zero.                                                   *)

DivC(a, b) == IF a < 0 THEN -((-a) \div b) ELSE a \div b
ModC(a, b) == a - b * DivC(a, b)

\* The printer obeys: v is in dots or in decipoints, rel tells a relative move
GoX(q, v, unit, rel) == [q EXCEPT !.paper.x = IF rel THEN @ + v * unit ELSE v * unit]
GoY(q, v, unit, rel) == [q EXCEPT !.paper.y = IF rel THEN @ + v * unit ELSE v * unit]

RoundedUp(v) == (12 * v + 4) \div 5

\* ModC(12 * v, 5), less five when the position was rounded up
ErrorUp(v) == 12 * v - 5 * RoundedUp(v)

\* xmoveto and ymoveto
XMoveTo(q, x) ==
    IF q.dc.curx = x THEN q
    ELSE LET d == [q EXCEPT !.dc.curx = x] IN
         IF ~device.jet THEN GoX(d, x, 12, FALSE)
         ELSE GoX([d EXCEPT !.dc.xerr = ErrorUp(x)], RoundedUp(x), 5, FALSE)

YMoveTo(q, y) ==
    IF q.dc.cury = y THEN q
    ELSE LET d == [q EXCEPT !.dc.cury = y] IN
         IF ~device.jet THEN GoY(d, y, 12, FALSE)
         ELSE GoY([d EXCEPT !.dc.yerr = ErrorUp(y)], RoundedUp(y), 5, FALSE)

\* A wrong version: the error is only corrected downwards
SetYUnbounded(q, y, rel) ==
    LET d == [q EXCEPT !.dc.cury = IF rel THEN @ + y ELSE y]
        err == q.dc.yerr + ModC(12 * y, 5)
        adjust == IF rel /\ err < 0 THEN -1 ELSE 0
    IN  IF ~device.jet THEN GoY(d, y, 12, rel)
        ELSE GoY([d EXCEPT !.dc.yerr = err - 5 * adjust],
                 DivC(12 * y, 5) + adjust, 5, rel)

\* SetY: the error of the position is carried to the next movement
SetY(q, y, rel) ==
    LET d == [q EXCEPT !.dc.cury = IF rel THEN @ + y ELSE y]
        err == q.dc.yerr + ModC(12 * y, 5)
        adjust == IF rel /\ err < 0 THEN -1 ELSE IF err > 5 THEN 1 ELSE 0
    IN  IF ~device.jet THEN GoY(d, y, 12, rel)
        ELSE GoY([d EXCEPT !.dc.yerr = err - 5 * adjust],
                 DivC(12 * y, 5) + adjust, 5, rel)

\* SetX
SetX(q, x, rel) ==
    LET d == [q EXCEPT !.dc.curx = IF rel THEN @ + x ELSE x]
        err == q.dc.xerr - ModC(12 * x, 5)
        adjust == IF err < 0 THEN -1 ELSE 0
    IN  IF ~device.jet THEN GoX(d, x, 12, rel)
        ELSE IF device.land
        THEN GoX([d EXCEPT !.dc.xerr = err - 5 * adjust], DivC(12 * x, 5) + adjust, 5, rel)
        ELSE GoX([d EXCEPT !.dc.xerr = ErrorUp(x)], RoundedUp(x), 5, rel)

-----------------------------------------------------------------------------
(* Raster rows.  A row is the set of its dots, each with its place p in the *)
(* row; len is the length of the row in bytes.                             *)

Bytes(row) == {r.p \div BYTE : r \in row}

\* A wrong version: one byte short
StripTrailShort(bytes) == Max(bytes \cup {0})

\* StripTrail: the length without the blank bytes at the end.  The search ends
\* with its count at zero when only the first byte is not blank, too.
StripTrail(bytes) ==
    LET last == Max(bytes \cup {0}) IN IF last = 0 THEN 0 ELSE last + 1

\* FindBitStrips: where strips start.  The search for a strip ends with the
\* last byte of the row, blank or not.
StripStarts(bytes, len) ==
    {b \in bytes : b # len - 1 /\ (b - 1 - GAP) .. (b - 1) \cap bytes = {}}

\* dump inhibits bit stripping for the first LaserJet in landscape
BStripbits == device.strips /\ ~(device.land /\ device.jet)

\* The strips that are sent, by where they start: without bit stripping the first
RowStarts(bytes, len) ==
    LET starts == StripStarts(bytes, len)
    IN  IF BStripbits \/ starts = {} THEN starts ELSE {Min(starts)}

\* A strip ends after the last byte with ink before the next strip
StripEnd(bytes, starts, b) ==
    LET later == {s \in starts : s > b}
    IN  IF later = {} THEN StripTrail(bytes)
        ELSE Max({c \in bytes : c < Min(later)}) + 1

-----------------------------------------------------------------------------
(* dump, on q with the rows that were blank so far                         *)

EndGraphics(q) == [q EXCEPT !.paper.graphics = FALSE]

\* The rows that follow start where the cursor is now
StartGraphics(q) ==
    IF q.paper.graphics THEN q
    ELSE [q EXCEPT !.paper.graphics = TRUE,
                   !.paper.margin = IF device.land THEN q.paper.y ELSE q.paper.x]

\* A dot at place p of the row, in the strip that starts at the margin
Mark(q, r, strip) ==
    LET along == q.paper.margin + (r.p - strip.start * BYTE) * 12 * Scale
    IN  [dot |-> r.dot, start |-> strip.start,
         at |-> IF device.land THEN <<q.paper.x - 12 * Scale, along>> ELSE <<along, q.paper.y>>]

\* SendGraphics: the printer prints a strip and moves on by a row
Transfer(q, row, strip) ==
    LET dots == {r \in row : r.p \div BYTE \in strip.start .. strip.end - 1}
        done == [q EXCEPT !.paper.marks = @ \cup {Mark(q, r, strip) : r \in dots}]
    IN  IF device.land THEN [done EXCEPT !.paper.x = @ - 12 * Scale]
        ELSE [done EXCEPT !.paper.y = @ + 12 * Scale]

\* A strip in portrait: back up for the strips after the first, the margin, the
\* blank rows before it
SendStripPortrait(q, row, strip, first) ==
    LET pos == strip.start * BYTE * Scale
        moves == ~first \/ q.dc.curx # pos \/ q.rel # 0
        end == IF moves THEN EndGraphics(q) ELSE q
        back == IF first THEN end ELSE SetY(end, -Scale, TRUE)
        side == IF back.dc.curx # pos THEN SetX(back, pos, FALSE) ELSE back
        down == IF side.rel = 0 THEN side ELSE SetY(side, side.rel * Scale, TRUE)
    IN  Transfer(StartGraphics([down EXCEPT !.rel = 0]), row, strip)

\* A strip in landscape
SendStripLandscape(q, row, strip, first) ==
    LET pos == strip.start * BYTE * Scale
        moves == ~first \/ q.dc.cury # pos \/ q.rel # 0
        end == IF moves THEN EndGraphics(q) ELSE q
        back == IF first THEN end ELSE SetX(end, Scale, TRUE)
        side == IF back.dc.cury # pos THEN SetY(back, pos, FALSE) ELSE back
        left == IF side.rel = 0 THEN side ELSE SetX(side, -side.rel * Scale, TRUE)
    IN  Transfer(StartGraphics([left EXCEPT !.rel = 0]), row, strip)

SendStrip(q, row, strip, first) ==
    IF device.land THEN SendStripLandscape(q, row, strip, first)
    ELSE SendStripPortrait(q, row, strip, first)

\* The strips of a row from left to right: sent[b] is after those that start before b
SendRow(q, row, len) ==
    LET bytes == Bytes(row)
        starts == RowStarts(bytes, len)
        strip(b) == [start |-> b, end |-> StripEnd(bytes, starts, b)]
        sent[b \in 0 .. len] ==
            IF b = 0 THEN q
            ELSE IF b - 1 \in starts
            THEN SendStrip(sent[b - 1], row, strip(b - 1), starts \cap 0 .. b - 2 = {})
            ELSE sent[b - 1]
    IN  IF StripTrail(bytes) = 0 THEN [q EXCEPT !.rel = @ + 1] ELSE sent[len]

\* The rows of the bitmap, in the order in which they are sent: down the band,
\* or leftwards through it.  In landscape the dots below the last whole byte
\* are not transposed.
PortraitRow(i) == {[p |-> b.at[1], dot |-> b.dot] : b \in {c \in bitmap : c.at[2] = i - 1}}

LandscapeRow(i) ==
    {[p |-> b.at[2], dot |-> b.dot] :
        b \in {c \in bitmap : /\ c.at[1] = dc.bmWidthBytes * BYTE - i
                              /\ c.at[2] < (dc.bmHeight \div BYTE) * BYTE}}

\* A wrong version: the blank rows at the end of a band are forgotten
TrailForgotten(q) == q

Trail(q) ==
    IF q.rel = 0 THEN q
    ELSE IF device.land THEN SetX(q, -(q.rel * Scale), TRUE)
    ELSE SetY(q, q.rel * Scale, TRUE)

SendRows(q) ==
    LET rows == IF device.land THEN dc.bmWidthBytes * BYTE ELSE dc.bmHeight
        len == IF device.land THEN dc.bmHeight \div BYTE ELSE dc.bmWidthBytes
        at[i \in 0 .. rows] ==
            IF i = 0 THEN q
            ELSE SendRow(at[i - 1], IF device.land THEN LandscapeRow(i) ELSE PortraitRow(i), len)
    IN  at[rows]

Dump(q) == EndGraphics(Trail(SendRows([dc |-> q.dc, paper |-> q.paper, rel |-> 0])))
-----------------------------------------------------------------------------
(* NEXTBAND                                                                *)

\* What GDI draws in the band, in the bitmap's coordinates
Drawn(band) ==
    LET rect == BandRect(band) off == BandOffsets(band)
    IN  {[dot |-> d, at |-> <<d[1] - off.x, d[2] - off.y>>] :
            d \in {e \in ink : /\ e[1] \in rect.left .. rect.right - 1
                              /\ e[2] \in rect.top .. rect.bottom - 1}}

\* The next band, drawn into; drawing may leave no dot
GiveBand(d, band) ==
    /\ bitmap' = Drawn(band)
    /\ \E drawn \in BOOLEAN :
         /\ Drawn(band) # {} => drawn
         /\ dc' = [d EXCEPT !.n = band + 1, !.grx = drawn,
                            !.xOffset = BandOffsets(band).x * Scale,
                            !.yOffset = BandOffsets(band).y * Scale,
                            !.bmWidthBytes = BandBitmap(band).bytes,
                            !.bmHeight = BandBitmap(band).rows]

\* str_out: text goes to its line by ymoveto, but along it by relative movements that
\* it rounds and then forgets, and past the place it notes: the paper is anywhere.
\* Only the first LaserJet's SetX reads epXerr.
AfterText(q, t) ==
    LET line == YMoveTo(q, t.y)
    IN  [line EXCEPT !.dc.curx = t.x, !.dc.xerr = IF device.jet THEN t.err ELSE 0,
                     !.dc.text = t.x, !.paper.x = t.at]

\* After the text band: it is skipped, and the cursor is as text left it
FirstGraphicsBand ==
    /\ dc.n = 1
    /\ \E t \in Texts :
         LET q == AfterText([dc |-> dc, paper |-> paper], t)
         IN  GiveBand([q.dc EXCEPT !.skip = TRUE], 1) /\ paper' = q.paper
    /\ UNCHANGED <<device, ink>>

\* A wrong version: a band that follows skipped ones is sent where the cursor is
ToBandStays(q, band) == q

ToBand(q, band) ==
    IF ~q.dc.skip THEN q
    ELSE IF device.land THEN XMoveTo(q, BandStart(band)) ELSE YMoveTo(q, BandStart(band))

\* Send band n - 1 if anything was drawn in it
Sent ==
    LET w == [dc |-> dc, paper |-> paper]
        q == Dump(ToBand(w, dc.n - 1))
    IN  IF ~dc.grx THEN [w EXCEPT !.dc.skip = TRUE]
        ELSE [dc |-> [q.dc EXCEPT !.curx = -1, !.cury = -1, !.grx = FALSE, !.skip = FALSE],
              paper |-> q.paper]

NextGraphicsBand ==
    /\ dc.n \in 2 .. NumBands
    /\ \E q \in {Sent} : GiveBand(q.dc, dc.n) /\ paper' = q.paper
    /\ UNCHANGED <<device, ink>>

LastBand ==
    /\ dc.n = NumBands + 1
    /\ \E q \in {Sent} : dc' = [q.dc EXCEPT !.n = 0] /\ paper' = q.paper
    /\ bitmap' = {}
    /\ UNCHANGED <<device, ink>>

Next == FirstGraphicsBand \/ NextGraphicsBand \/ LastBand

Spec == Init /\ [][Next]_vars

-----------------------------------------------------------------------------
(* The rows of the page, as the printer gets them                          *)

RowOf(d) == IF device.land THEN d[1] ELSE d[2]
PlaceOf(d) == IF device.land THEN d[2] ELSE d[1]
RowBytes == IF device.land THEN Height \div BYTE ELSE NumBytes(Width)

\* The bytes of the row of dot d that have ink
InkedBytes(d) ==
    {PlaceOf(e) \div BYTE : e \in {f \in ink : /\ RowOf(f) = RowOf(d)
                                            /\ PlaceOf(f) \div BYTE < RowBytes}}

\* What the code does not print: a row with ink in its first byte only or in
\* its last byte only, and in landscape the dots below the last whole byte.
Unprintable(d) ==
    \/ InkedBytes(d) \in {{0}, {RowBytes - 1}}
    \/ PlaceOf(d) \div BYTE >= RowBytes

\* A row with ink in its last byte only is not counted as blank either: what
\* follows it in the band moves up.
Shifts == \E d \in ink : InkedBytes(d) = {RowBytes - 1} /\ RowBytes > 1

\* dump does not move to a strip that starts where text is taken to have left the
\* cursor (portrait), xmoveto not to a band that does (landscape).
OnTrust(m, text) == ~device.land /\ m.start * BYTE * Scale = text

BandOnTrust(text) == device.land /\ \E band \in 1 .. NumBands : BandStart(band) = text

-----------------------------------------------------------------------------
TypeOK ==
    /\ device \in Devices
    /\ dc.n \in 0 .. NumBands + 1
    /\ dc.curx \in Int /\ dc.cury \in Int
    /\ dc.xerr \in Int /\ dc.yerr \in -4 .. 5
    /\ \A m \in paper.marks : m.dot \in ink

\* Each dot is printed at its place on the page, whatever bands are skipped,
\* however the rows are cut into strips and however far text left the cursor from
\* where the driver takes it to be, as long as the driver moves: not along a row
\* in a strip (OnTrust), nor on a page where a band starts (BandOnTrust), exactly
\* where text is taken to have left the cursor.  A printer that positions in
\* decipoints is never off by more than one (dump, SetX, SetY, str_out,
\* ComputeNextBandRect, ComputeBandStartPosition).  Not for the first LaserJet in
\* landscape, whose relative SetX "needs fixing".
DotsInPlace ==
    ~Shifts /\ ~(device.land /\ device.jet) /\ ~BandOnTrust(dc.text) =>
        \A m \in paper.marks, axis \in {1, 2} :
            LET off == m.at[axis] - 12 * Scale * m.dot[axis]
            IN  (axis = 1 => ~OnTrust(m, dc.text)) =>
                    off \in IF device.jet THEN -5 .. 5 ELSE {0}

\* When the page is out every dot of the page has been printed, except those
\* that Unprintable names (FindBitStrips, StripTrail, SetBandCount).
AllPrinted ==
    dc.n = 0 => {d \in ink : ~Unprintable(d)} \subseteq {m.dot : m \in paper.marks}

\* What is drawn in a band lies in the bitmap of the band, and the bitmap in
\* what Enable allocated for it (ComputeBandBitmapSize).
DrawnInBitmap ==
    /\ dc.bmWidthBytes * dc.bmHeight <= BandBitmapSize
    /\ \A b \in bitmap : /\ b.at[1] \in 0 .. dc.bmWidthBytes * BYTE - 1
                          /\ b.at[2] \in 0 .. dc.bmHeight - 1

\* After a band that was sent the cursor is where the next band starts, so no
\* movement is needed (ComputeBandStartPosition).  BandOnTrust as above.
BandsJoin ==
    [][dc.grx /\ dc'.n # 0 /\ ~Shifts /\ ~(device.land /\ device.jet)
            /\ ~BandOnTrust(dc.text) =>
         LET off == (IF device.land THEN paper'.x ELSE paper'.y) - 12 * BandStart(dc.n)
         IN  off \in IF device.jet THEN -5 .. 5 ELSE {0}]_vars
=============================================================================
