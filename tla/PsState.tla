------------------------------ MODULE PsState ------------------------------
(***************************************************************************)
(* The PSCRIPT driver of src/printers/pscript sends a pen, a brush, a font *)
(* or a procedure only when it believes that the printer does not have it. *)
(* This module holds the driver's belief (dv) beside the state that a      *)
(* PostScript interpreter is in after what was sent (pr), and asks that    *)
(* everything painted is painted as GDI asked for it (wrong).              *)
(*                                                                         *)
(* The printer has a part that gsave and grestore keep (gs), a part that   *)
(* only save and restore keep (vm: the definitions), and the graphics      *)
(* states that were saved.  The procedures are those of res/header.ps and  *)
(* res/rle.ps.                                                             *)
(***************************************************************************)
EXTENDS PsRun, FiniteSets

CONSTANTS
  None,           \* a model value: no color, no tile, nothing painted
  Pens,           \* logical pens: [style, width, color]
  Brushes,        \* logical brushes: [style, color, bk, tile]
  DrawModes,      \* [opaque, bkColor, TextColor]
  Fonts,          \* realised fonts: [lid, iFont, soft]
  Rows,           \* rows of bitmaps
  LineCaps,       \* the values an application gives to SETLINECAP
  Programs,       \* the sets of calls that GDI and one application make
  MAXSOFTFONTS,   \* the soft fonts the driver can remember
  MaxDepth        \* bound on nested paths and saved clips (of the model only)

ASSUME BoundsAssumption == MAXSOFTFONTS \in Nat /\ MaxDepth \in Nat

\* What GDI passes.  A hatch is a tile of its own, and every hollow brush is alike.
Tones == STRING \cup {None}
ASSUME GDIAssumption ==
  /\ None \notin STRING /\ None # "pattern"
  /\ Pens \subseteq [style : STRING, width : Nat, color : STRING]
  /\ Brushes \subseteq [style : {"solid", "hatched", "pattern", "hollow"},
                        color : Tones, bk : Tones, tile : Tones]
  /\ \A brush \in Brushes :
       /\ brush.style \in {"solid", "hollow"} => brush.tile = None
       /\ brush.style = "hatched" => brush.tile \notin {None, "pattern"}
       /\ brush.style = "hollow" => brush.color = None /\ brush.bk = None
  /\ DrawModes \subseteq [opaque : BOOLEAN, bkColor : STRING, TextColor : STRING]
  /\ Fonts \subseteq [lid : STRING, iFont : Nat, soft : BOOLEAN]
  /\ Rows \subseteq Seq(Bytes) \ {<<>>}
  /\ LineCaps \subseteq Int

LSNoLine == "noline"
NoPen    == [style |-> "null", width |-> 0, color |-> None]
Hollow   == [style |-> "hollow", color |-> None, bk |-> None, tile |-> None]
AnyMode  == [opaque |-> FALSE, bkColor |-> None, TextColor |-> None]
FM_NONE  == [fill |-> FALSE, over |-> None]
Default  == -1

VARIABLES
  dv,      \* the PDEVICE of the driver
  gl,      \* MoveCmd and ArcDir, which are global to the driver
  pr,      \* the interpreter in the printer
  app,     \* the application: its calls, paths and clips, and what went wrong
  wrong    \* what the last call painted otherwise than it was asked for

vars == <<dv, gl, pr, app, wrong>>

Enabled ==
  [fh |-> FALSE, fDirty |-> FALSE, fPenSelected |-> FALSE,
   pen |-> [style |-> "solid", width |-> 0, color |-> None],
   FillMode |-> FM_NONE, FillColor |-> None, HatchColor |-> None, rgbPat |-> None,
   lidFont |-> None, slots |-> <<>>, DLState |-> {}, fIsClipped |-> FALSE,
   iCur |-> [cap |-> Default, join |-> Default],
   iNew |-> [cap |-> Default, join |-> Default], PathLevel |-> 0]

(* Right after the header: nothing defined, the default graphics state.    *)
SoftFonts == {f.iFont : f \in {g \in Fonts : g.soft}}
Fresh ==
  [vm |-> [fC |-> None, hC |-> None, pC |-> None, PenW |-> 1, fm |-> FM_NONE,
           pat |-> None, p |-> "proc", arc |-> "ccw", procs |-> {},
           fonts |-> [f \in SoftFonts |-> 0]],
   gs |-> [ends |-> [cap |-> 0, join |-> 0], dash |-> None, font |-> None,
           clip |-> [box |-> FALSE, path |-> FALSE]],
   saved |-> <<>>, marks |-> FALSE]

NoPaint  == [color |-> None, over |-> None]
NoStroke == [color |-> None, width |-> 0, dash |-> None]
Nothing  == [stroke |-> NoStroke, ends |-> None, fill |-> NoPaint,
             tile |-> None, text |-> None, clip |-> None, move |-> None, arc |-> None, row |-> None]

(* Of app, clips and path are the clips that the application made, begun   *)
(* says that its path has a figure.  The rest is what went wrong before:   *)
(* dashes and font may have been restored, the job was aborted, a clip box *)
(* was left behind (stray), a path was cut (broken), and the files of some *)
(* soft fonts could not be read (unsent).                                  *)
Init ==
  /\ dv = Enabled
  /\ gl = [MoveCmd |-> "M", ArcDir |-> "ccw"]
  /\ pr = Fresh
  /\ \E calls \in Programs :
     app = [calls |-> calls, clips |-> <<>>, path |-> FALSE, begun |-> FALSE,
            restored |-> FALSE, aborted |-> FALSE, stray |-> FALSE, broken |-> FALSE,
            unsent |-> {}]
  /\ wrong = {}

(***************************************************************************)
(* What the driver sends.  A w is [d |-> driver, p |-> printer]; nothing   *)
(* reaches a printer while no channel is open.                             *)
(***************************************************************************)
W == [d |-> dv, p |-> pr]

Send(w, p) == [d |-> [w.d EXCEPT !.fDirty = TRUE], p |-> IF w.d.fh THEN p ELSE w.p]

(* gs and gr.                                                              *)
GSave(p)    == [p EXCEPT !.saved = Append(@, p.gs)]
GRestore(p) == IF p.saved = <<>> THEN [p EXCEPT !.gs = Fresh.gs]
               ELSE [p EXCEPT !.gs = p.saved[Len(p.saved)],
                              !.saved = SubSeq(@, 1, Len(@) - 1)]

PenWidth(pen) == IF pen.width = 0 THEN 1 ELSE pen.width

(* Line ends: the application's, or those GDI expects of the pen.          *)
Ends(d, round) ==
  [f \in {"cap", "join"} |-> IF d.iNew[f] # Default THEN d.iNew[f]
                             ELSE IF round THEN 1 ELSE 0]

SelectEnds(w, round) ==
  LET want == Ends(w.d, round)
      w1   == Send(w, [w.p EXCEPT !.gs.ends =
                [f \in {"cap", "join"} |-> IF w.d.iCur[f] # want[f] THEN want[f] ELSE @[f]]])
  IN  IF w.d.iCur = want THEN w ELSE [w1 EXCEPT !.d.iCur = want]

SelectPenColor(w, pen) ==
  LET w1 == Send(w, [w.p EXCEPT !.vm.pC = pen.color])
  IN  IF w.d.fPenSelected /\ pen.color = w.d.pen.color THEN w
      ELSE [w1 EXCEPT !.d.pen.color = pen.color]

(* SP: the dashes are made for the width and go to the graphics state.     *)
SelectPenStyle(w, pen) ==
  LET w1 == Send(w, [w.p EXCEPT !.vm.PenW = PenWidth(pen),
                                !.gs.dash = <<pen.style, PenWidth(pen)>>])
  IN  IF /\ w.d.fPenSelected
         /\ PenWidth(pen) = PenWidth(w.d.pen)
         /\ pen.style = w.d.pen.style
      THEN w ELSE [w1 EXCEPT !.d.pen = pen]

SelectPen(w, pen, round) ==
  IF pen.style \in {"null", LSNoLine} THEN [w EXCEPT !.d.pen.style = LSNoLine]
  ELSE [SelectPenStyle(SelectPenColor(SelectEnds(w, round), pen), pen)
          EXCEPT !.d.fPenSelected = TRUE]

(* Brushes: a color to fill with, a color and a tile to lay over it.       *)
FillColorOf(brush, dm)  == CASE brush.style = "solid"   -> brush.color
                             [] brush.style = "hatched" -> brush.bk
                             [] brush.style = "pattern" -> dm.bkColor
HatPatColor(brush, dm)  == IF brush.style = "pattern" THEN dm.TextColor ELSE brush.color
FillModeOf(brush, dm) ==
  [fill |-> brush.style # "hatched" \/ dm.opaque,
   over |-> CASE brush.style = "solid"   -> None
              [] brush.style = "hatched" -> brush.tile
              [] brush.style = "pattern" -> "pattern"]

SendFillColor(w, color) ==
  [Send(w, [w.p EXCEPT !.vm.fC = color]) EXCEPT !.d.FillColor = color]

(* The procedure p of header.ps sets the pattern, unless a definition of   *)
(* that name took its place.                                               *)
SendPattern(w, tile) ==
  [Send(w, IF w.p.vm.p = "proc" THEN [w.p EXCEPT !.vm.pat = tile] ELSE w.p)
     EXCEPT !.d.rgbPat = tile]

SelectBrush(w, brush, dm) ==
  LET fm    == FillModeOf(brush, dm)
      old   == w.d.FillMode
      color == FillColorOf(brush, dm)
      over  == HatPatColor(brush, dm)
      w1 == IF fm.fill /\ (~old.fill \/ w.d.FillColor # color)
            THEN SendFillColor(w, color) ELSE w
      w2 == IF fm.over # None /\ (old.over = None \/ w.d.HatchColor # over)
            THEN [Send(w1, [w1.p EXCEPT !.vm.hC = over]) EXCEPT !.d.HatchColor = over]
            ELSE w1
      w3 == IF old # fm THEN Send(w2, [w2.p EXCEPT !.vm.fm = fm]) ELSE w2
      w4 == IF fm.over = "pattern" /\ (old.over # "pattern" \/ w.d.rgbPat # brush.tile)
            THEN SendPattern(w3, brush.tile) ELSE w3
  IN  IF brush.style = "hollow" THEN [w EXCEPT !.d.FillMode = FM_NONE]
      ELSE [w4 EXCEPT !.d.FillMode = fm]

(* A clip box that is the whole page sends nothing: it is no box here.     *)
ClipBox(w, box) ==
  IF box THEN [Send(w, [GSave(w.p) EXCEPT !.gs.clip.box = TRUE]) EXCEPT !.d.fIsClipped = TRUE]
  ELSE IF w.d.fIsClipped
  THEN [Send(w, GRestore(w.p)) EXCEPT !.d.fIsClipped = FALSE] ELSE w

(* The procedures of rle.ps that the driver does not remember.             *)
Procs(w, procs) ==
  IF procs \subseteq w.d.DLState THEN w
  ELSE [Send(w, [w.p EXCEPT !.vm.procs = @ \cup procs,
                            !.vm.p = IF "UNPACK" \in procs \ w.d.DLState THEN "byte" ELSE @])
          EXCEPT !.d.DLState = @ \cup procs]

(***************************************************************************)
(* What the printer paints with F, S, SB and image.                        *)
(***************************************************************************)
FillPaint(p) ==
  LET fm == p.vm.fm
  IN  [color |-> IF fm.fill THEN p.vm.fC ELSE None,
       over  |-> IF fm.over # None THEN p.vm.hC ELSE None]
TilePaint(p) == IF p.vm.fm.over = "pattern" THEN p.vm.pat ELSE p.vm.fm.over

StrokePaint(p) == [color |-> p.vm.pC, width |-> p.vm.PenW, dash |-> p.gs.dash]

(* FillDraw: F when something is to be filled, S unless there is no pen.   *)
FillDraw(w, fill, draw) ==
  LET f == fill /\ w.d.FillMode # FM_NONE
      s == draw /\ w.d.pen.style # LSNoLine
  IN  [Nothing EXCEPT !.fill   = IF f THEN FillPaint(w.p) ELSE @,
                      !.tile   = IF f THEN TilePaint(w.p) ELSE @,
                      !.stroke = IF s THEN StrokePaint(w.p) ELSE @,
                      !.ends   = IF s THEN w.p.gs.ends ELSE @,
                      !.clip   = w.p.gs.clip]

AskedFill(brush, dm) ==
  IF brush.style = "hollow" THEN NoPaint
  ELSE LET fm == FillModeOf(brush, dm)
       IN  [color |-> IF fm.fill THEN FillColorOf(brush, dm) ELSE None,
            over  |-> IF fm.over # None THEN HatPatColor(brush, dm) ELSE None]

Drawable(pen) == pen.style \notin {"null", LSNoLine}
AskedStroke(pen) ==
  IF ~Drawable(pen) THEN NoStroke
  ELSE [color |-> pen.color, width |-> PenWidth(pen), dash |-> <<pen.style, PenWidth(pen)>>]
AskedEnds(pen, round) == IF Drawable(pen) THEN Ends(dv, round) ELSE None
AskedClip(box)        == [box |-> box, path |-> app.path]

(* One call: what was asked and what got painted, if there is a job.       *)
Does(w, asked, got) ==
  /\ dv' = w.d
  /\ pr' = [w.p EXCEPT !.marks = dv.fh /\ (@ \/ got # Nothing)]
  /\ wrong' = IF dv.fh THEN {what \in DOMAIN asked : asked[what] # got[what]} ELSE {}

Quiet(w) == dv' = w.d /\ pr' = w.p /\ wrong' = {}

(* A program draws in a document.  After a job that failed it ends the     *)
(* document or takes a new device context (what the driver believes is not *)
(* true any more).                                                         *)
Uses(call) == call \in app.calls /\ dv.fh /\ ~app.aborted

(***************************************************************************)
(* Output.  Inside a path nothing is selected, clipped or painted.         *)
(***************************************************************************)
Selected(w, pen, round, brushes, brush, dm, box) ==
  LET w1 == IF pen = NoPen THEN w ELSE SelectPen(w, pen, round)
      w2 == IF brushes THEN SelectBrush(w1, brush, dm) ELSE w1
      w3 == IF box THEN ClipBox(w2, TRUE) ELSE w2
  IN  Send(IF w.d.PathLevel > 0 THEN w ELSE w3, (IF w.d.PathLevel > 0 THEN w ELSE w3).p)

\* A wrong version: the clip box is not taken back
ReleasedNever(w, box) == w
Released(w, box) == IF w.d.PathLevel <= 0 /\ box THEN ClipBox(w, FALSE) ELSE w

(* The next figure of a path is to go on from this one.                    *)
MoveAfter ==
  /\ gl' = [gl EXCEPT !.MoveCmd = IF dv.PathLevel > 0 THEN "L" ELSE @]
  /\ app' = [app EXCEPT !.begun = @ \/ dv.PathLevel > 0]

(* Rectangles, ellipses and arcs: the path, then FillDraw.  PATBLT is the  *)
(* rectangle without a pen that StretchBlt asks Output for.                *)
Round(shape) == shape # "RECTANGLE"

Shape(shape, pen, brush, dm, box) ==
  /\ Uses(shape)
  /\ MoveAfter
  /\ \E w \in {Selected(W, pen, Round(shape), TRUE, brush, dm, box)} :
       LET fill  == shape # "ARC"
           got   == [FillDraw(w, fill, shape # "PATBLT") EXCEPT
                       !.arc = IF fill THEN None ELSE w.p.vm.arc]
           asked == [Nothing EXCEPT !.stroke = AskedStroke(pen),
                                    !.ends   = AskedEnds(pen, Round(shape)),
                                    !.fill   = IF fill THEN AskedFill(brush, dm) ELSE @,
                                    !.tile   = IF fill THEN brush.tile ELSE @,
                                    !.clip   = AskedClip(box),
                                    !.arc    = IF fill THEN None ELSE gl.ArcDir]
       IN  IF dv.PathLevel > 0 THEN Does(w, Nothing, Nothing)
           ELSE Does(Released(w, box), asked, got)

\* A wrong version: the exit without the grestore
PolyRefusedClipped(w, box) == w
(* GDI is told to simulate: the clip box is taken back.                    *)
PolyRefused(w, box) == IF box THEN ClipBox(w, FALSE) ELSE w

(* Polylines and polygons.  A path may have half as many points when it is *)
(* to be filled with a tile; GDI simulates those that have too many.       *)
TooMany(d, polygon, points) ==
  \/ points = "many"
  \/ points = "half" /\ polygon /\ d.FillMode.over # None

Poly(polygon, points, pen, brush, dm, box) ==
  /\ Uses(IF polygon THEN "POLYGON" ELSE "POLYLINE")
  /\ \E w \in {Selected(W, pen, TRUE, polygon, brush, dm, box)} :
       LET got   == [FillDraw(w, polygon, TRUE) EXCEPT !.move = gl.MoveCmd]
           asked == [Nothing EXCEPT !.stroke = AskedStroke(pen),
                                    !.ends   = AskedEnds(pen, TRUE),
                                    !.fill   = IF polygon THEN AskedFill(brush, dm) ELSE @,
                                    !.tile   = IF polygon THEN brush.tile ELSE @,
                                    !.clip   = AskedClip(box),
                                    !.move   = "M"]
           inPath(move) == [Nothing EXCEPT !.move = move]
       IN  IF TooMany(w.d, polygon, points)
           THEN Quiet(PolyRefused(w, box)) /\ UNCHANGED <<gl, app>>
           ELSE /\ MoveAfter
                /\ IF dv.PathLevel > 0
                   THEN Does(w, inPath(IF app.begun THEN "L" ELSE "M"), inPath(gl.MoveCmd))
                   ELSE Does(Released(w, box), asked, got)

(* Scan lines, by which GDI fills with a brush what the driver refuses, or *)
(* draws with a pen of one dot.  F and S are sent whatever is selected, and*)
(* in a path as well: each line then paints the path so far and removes it.*)
ScanLines(byBrush, pen, brush, dm, box) ==
  /\ Uses("SCANLINES")
  /\ IF byBrush THEN brush # Hollow ELSE Drawable(pen)
  /\ gl' = [gl EXCEPT !.MoveCmd = IF dv.PathLevel > 0 THEN "L" ELSE @]
  /\ app' = [app EXCEPT !.begun = @ /\ dv.PathLevel <= 0, !.broken = @ \/ dv.PathLevel > 0]
  /\ \E thin \in {[pen EXCEPT !.width = 1]} :
     \E w \in {Selected(W, IF byBrush THEN NoPen ELSE thin, TRUE, TRUE, brush, dm, box)} :
       LET got   == [Nothing EXCEPT !.fill   = IF byBrush THEN FillPaint(w.p) ELSE @,
                                    !.tile   = IF byBrush THEN TilePaint(w.p) ELSE @,
                                    !.stroke = IF byBrush THEN @ ELSE StrokePaint(w.p),
                                    !.clip   = w.p.gs.clip]
           asked == [Nothing EXCEPT !.fill   = IF byBrush THEN AskedFill(brush, dm) ELSE @,
                                    !.tile   = IF byBrush THEN brush.tile ELSE @,
                                    !.stroke = IF byBrush THEN @ ELSE AskedStroke(thin),
                                    !.clip   = AskedClip(box)]
       IN  Does(Released(w, box), IF dv.PathLevel > 0 THEN Nothing ELSE asked, got)

(***************************************************************************)
(* ExtTextOut and the bitmaps.                                             *)
(***************************************************************************)
(* A soft font that has no slot gets the next one, and is sent: unless its *)
(* file cannot be opened or read.                                          *)
Known(d, font) == \E i \in 1 .. Len(d.slots) : d.slots[i] = font.iFont

DownLineLoadFont(w, font, sent) ==
  LET w1 == Send(w, [w.p EXCEPT !.vm.fonts[font.iFont] = IF sent /\ @ < 2 THEN @ + 1 ELSE @])
  IN  IF ~font.soft \/ Known(w.d, font) THEN w
      ELSE [w1 EXCEPT !.d.slots = Append(@, font.iFont)]

SelectFont(w, font, sent) ==
  LET w1   == DownLineLoadFont([w EXCEPT !.d.lidFont = font.lid], font, sent)
      there == ~font.soft \/ w1.p.vm.fonts[font.iFont] > 0
  IN  IF w.d.lidFont = font.lid THEN w
      ELSE Send(w1, [w1.p EXCEPT !.gs.font = IF there THEN font.lid ELSE "missing"])

Loads(d, font) == d.lidFont # font.lid /\ font.soft /\ ~Known(d, font)

TextReady(w, font, sent, color, box) ==
  LET w1 == IF w.d.FillColor # color THEN SendFillColor(w, color) ELSE w
  IN  ClipBox(SelectFont(w1, font, sent), box)

(* A page with more soft fonts than slots is left out: the store is past   *)
(* the array then, into the output buffer that follows it.                 *)
ExtTextOut(font, sent, color, box) ==
  /\ Uses("ExtTextOut")
  /\ ~font.soft \/ Known(dv, font) \/ Len(dv.slots) < MAXSOFTFONTS
  /\ sent \/ Loads(dv, font)
  /\ app' = [app EXCEPT !.unsent = IF sent THEN @ ELSE @ \cup {font.iFont}]
  /\ UNCHANGED gl
  /\ \E w \in {TextReady(W, font, sent, color, box)} :
       Does(ClipBox(Send(w, w.p), FALSE),
            [Nothing EXCEPT !.text = <<font.lid, color>>, !.clip = AskedClip(box)],
            [Nothing EXCEPT !.text = <<w.p.gs.font, w.p.vm.fC>>, !.clip = w.p.gs.clip])

(* A row of a bitmap of one plane, which is clipped first, or of a device  *)
(* independent one in colors.                                              *)
Needs(mono) == IF mono THEN {"UNPACK"} ELSE {"UNPACK", "CIMAGE"}
ImageReady(w, mono, box) ==
  IF mono THEN Procs(ClipBox(w, box), Needs(mono)) ELSE ClipBox(Procs(w, Needs(mono)), box)

Image(mono, row, box) ==
  /\ Uses("Image")
  /\ UNCHANGED <<gl, app>>
  /\ \E w \in {ImageReady(W, mono, box)} :
       LET read == Unpack(RunEncode(row), Len(row))
       IN  Does(ClipBox(Send(w, w.p), FALSE),
                [Nothing EXCEPT !.row = [row |-> row, rest |-> <<>>], !.clip = AskedClip(box)],
                [Nothing EXCEPT !.row = IF Needs(mono) \subseteq w.p.vm.procs THEN read
                                        ELSE [row |-> <<>>, rest |-> <<>>],
                                !.clip = w.p.gs.clip])

(* StretchBlt finds no memory for a row when it has clipped already, and   *)
(* leaves without taking the clip box back.                                *)
BltNoMemory(box) ==
  /\ Uses("Image") /\ Len(pr.saved) <= MaxDepth
  /\ Quiet(ClipBox(Send(W, pr), box))
  /\ app' = [app EXCEPT !.stray = @ \/ box]
  /\ UNCHANGED gl

(* The page is left behind: ejected, ended or given up.  A clip that the   *)
(* driver still takes to be there stays with the device context.           *)
PageLeft(aborted) ==
  [app EXCEPT !.clips = <<>>, !.path = FALSE, !.restored = FALSE, !.unsent = {},
              !.begun = @ /\ dv.PathLevel <= 0, !.broken = @ \/ dv.PathLevel > 0,
              !.stray = @ /\ dv.fIsClipped, !.aborted = aborted]
NoPage(aborted) == app' = PageLeft(aborted)

(* What stops the interpreter ends the job, and the driver goes on: when   *)
(* it has no memory for a row, StretchDIB sends the restore of a save that *)
(* was not sent; and DumpResourceString remembers a procedure also when it *)
(* could not be read, which is then called undefined.                      *)
Stopped(w) == [d |-> ClipBox(Send(w, w.p), FALSE).d, p |-> Fresh]

DIBNoMemory ==
  /\ Uses("Image")
  /\ Quiet(Stopped(W))
  /\ NoPage(TRUE)
  /\ UNCHANGED gl

ProcsUnread(mono) ==
  /\ Uses("Image") /\ ~(Needs(mono) \subseteq dv.DLState)
  /\ Quiet(Stopped(Procs(W, Needs(mono))))
  /\ NoPage(TRUE)
  /\ UNCHANGED gl

(***************************************************************************)
(* Escapes: line ends, arcs, paths and clips.                              *)
(***************************************************************************)
SetLineCap(cap) ==
  /\ Uses("SETLINECAP")
  /\ Quiet([W EXCEPT !.d.iNew.cap = cap])
  /\ UNCHANGED <<gl, app>>

SetArcDirection(dir) ==
  /\ Uses("SET_ARC_DIRECTION")
  /\ gl' = [gl EXCEPT !.ArcDir = dir]
  /\ Quiet(IF dir # gl.ArcDir THEN Send(W, [pr EXCEPT !.vm.arc = dir]) ELSE W)
  /\ UNCHANGED app

ClipSave ==
  /\ Uses("CLIP_TO_PATH") /\ Len(app.clips) < MaxDepth
  /\ Quiet(Send(W, GSave(pr)))
  /\ app' = [app EXCEPT !.clips = Append(@, app.path)]
  /\ UNCHANGED gl

ClipRestore ==
  /\ Uses("CLIP_TO_PATH") /\ app.clips # <<>>
  /\ Quiet(Send(W, GRestore(pr)))
  /\ app' = [app EXCEPT !.path = app.clips[Len(app.clips)],
                        !.clips = SubSeq(@, 1, Len(@) - 1), !.restored = TRUE]
  /\ UNCHANGED gl

ClipInclusive ==
  /\ Uses("CLIP_TO_PATH")
  /\ Quiet(Send(W, [pr EXCEPT !.gs.clip.path = TRUE]))
  /\ app' = [app EXCEPT !.path = TRUE]
  /\ UNCHANGED gl

BeginPath ==
  /\ Uses("BEGIN_PATH") /\ dv.PathLevel < MaxDepth
  /\ Quiet([W EXCEPT !.d.PathLevel = @ + 1])
  /\ gl' = [gl EXCEPT !.MoveCmd = IF dv.PathLevel = 0 THEN "M" ELSE @]
  /\ app' = [app EXCEPT !.begun = @ /\ dv.PathLevel > 0, !.broken = @ /\ dv.PathLevel > 0]

(* A path that is open when the job ends is given up, not drawn.           *)
(* The pen that END_PATH makes has a random round flag, and its draw mode  *)
(* no text color, so that it is not known how it fills with a pattern.     *)
EndPath(mode, pen, round, brush, dm) ==
  /\ dv.PathLevel > 0
  /\ (dv.fh /\ ~app.aborted) \/ mode = "no_display"
  /\ mode = "closed" => brush.style # "pattern"
  /\ gl' = [gl EXCEPT !.MoveCmd = IF dv.PathLevel = 1 THEN "M" ELSE @]
  /\ app' = [app EXCEPT !.broken = @ /\ dv.PathLevel > 1]
  /\ LET closed == mode = "closed"
         w1     == IF closed THEN SelectBrush(Send(W, pr), brush, dm) ELSE W
     IN  IF mode = "no_display" \/ dv.PathLevel # 1
         THEN Does([d |-> [(IF closed THEN Send(W, pr) ELSE W).d EXCEPT !.PathLevel = @ - 1],
                    p |-> pr], Nothing, Nothing)
         ELSE \E w \in {SelectPen(w1, pen, round)} :
                LET got == FillDraw(w, closed, TRUE)
                IN  Does([Send(w, w.p) EXCEPT !.d.PathLevel = @ - 1],
                         [Nothing EXCEPT !.stroke = AskedStroke(pen), !.ends = got.ends,
                                         !.fill = IF closed THEN AskedFill(brush, dm) ELSE @,
                                         !.tile = IF closed THEN brush.tile ELSE @,
                                         !.clip = AskedClip(FALSE)],
                         got)

(***************************************************************************)
(* Pages and documents.                                                    *)
(***************************************************************************)
\* A wrong version: the pen is still believed to be selected
NewFrameKeepsPen(w) ==
  [Send(w, Fresh) EXCEPT !.d.DLState = {}, !.d.lidFont = None,
                         !.d.slots = <<>>, !.d.FillMode = FM_NONE, !.d.FillColor = None,
                         !.d.fDirty = FALSE]
\* A wrong version: the font is still believed to be selected
NewFrameKeepsFont(w) ==
  [Send(w, Fresh) EXCEPT !.d.fPenSelected = FALSE, !.d.DLState = {},
                         !.d.slots = <<>>, !.d.FillMode = FM_NONE, !.d.FillColor = None,
                         !.d.fDirty = FALSE]
(* "EJ RS SS": the page is ejected, and the next one begins with what the  *)
(* header left.                                                            *)
NewFrame(w) ==
  [Send(w, Fresh) EXCEPT !.d.fPenSelected = FALSE, !.d.DLState = {}, !.d.lidFont = None,
                         !.d.slots = <<>>, !.d.FillMode = FM_NONE, !.d.FillColor = None,
                         !.d.fDirty = FALSE]

Ended(w) == [d |-> [w.d EXCEPT !.fh = FALSE, !.fDirty = TRUE],
             p |-> [Fresh EXCEPT !.marks = w.p.marks]]
\* A wrong version: a dirty page is not ejected
EndDocKeepsPage(w) == Ended(w)
EndDoc(w) == Ended(IF w.d.fDirty THEN NewFrame(w) ELSE w)

NewPage ==
  /\ Uses("NEWFRAME")
  /\ Quiet(NewFrame(W))
  /\ NoPage(app.aborted)
  /\ UNCHANGED gl

(* A document that is still open is ended; the channel may not open.       *)
StartDoc ==
  /\ dv.fh \/ ~app.aborted
  /\ \E opened \in BOOLEAN :
       LET w == IF dv.fh THEN EndDoc(W) ELSE W
       IN  Quiet([d |-> [w.d EXCEPT !.fh = opened, !.fDirty = opened,
                                    !.slots = IF opened THEN <<>> ELSE @],
                  p |-> IF opened THEN [Fresh EXCEPT !.marks = w.p.marks] ELSE w.p])
  /\ NoPage(FALSE)
  /\ UNCHANGED gl

EndDocument ==
  /\ dv.fh
  /\ Quiet(EndDoc(W))
  /\ NoPage(FALSE)
  /\ UNCHANGED gl

(* The spooler refuses what is flushed, the job is deleted, and the error  *)
(* is kept in place of the job.  0 is an error, and taken for a job.       *)
FlushFails ==
  /\ dv.fh
  /\ \E open \in BOOLEAN : Quiet([d |-> [dv EXCEPT !.fh = open, !.fDirty = TRUE], p |-> Fresh])
  /\ NoPage(TRUE)
  /\ UNCHANGED gl

AbortDoc ==
  /\ dv.fh
  /\ Quiet([d |-> [dv EXCEPT !.fh = FALSE, !.fDirty = TRUE], p |-> Fresh])
  /\ NoPage(TRUE)
  /\ UNCHANGED gl

(* Another device context: the globals stay, MoveCmd within a path also.   *)
NewDC ==
  /\ ~dv.fh \/ app.aborted
  /\ Quiet([d |-> Enabled, p |-> Fresh])
  /\ app' = [PageLeft(FALSE) EXCEPT !.stray = FALSE]
  /\ UNCHANGED gl

GDICall ==
  \/ \E pen \in Pens, box \in BOOLEAN :
       \/ \E brush \in Brushes, dm \in DrawModes :
            \/ \E shape \in {"RECTANGLE", "ELLIPSE", "ARC"} : Shape(shape, pen, brush, dm, box)
            \/ \E points \in {"few", "half", "many"} : Poly(TRUE, points, pen, brush, dm, box)
       \/ \E points \in {"few", "many"} : Poly(FALSE, points, pen, Hollow, AnyMode, box)
       \/ ScanLines(FALSE, pen, Hollow, AnyMode, box)
  \/ \E brush \in Brushes, dm \in DrawModes :
       \/ Shape("PATBLT", NoPen, brush, dm, FALSE)
       \/ \E box \in BOOLEAN : ScanLines(TRUE, NoPen, brush, dm, box)
  \/ \E font \in Fonts, sent \in BOOLEAN, color \in {dm.TextColor : dm \in DrawModes},
        box \in BOOLEAN : ExtTextOut(font, sent, color, box)
  \/ \E mono \in BOOLEAN, row \in Rows, box \in BOOLEAN : Image(mono, row, box)
  \/ \E box \in BOOLEAN : BltNoMemory(box)
  \/ DIBNoMemory
  \/ \E mono \in BOOLEAN : ProcsUnread(mono)

Escape ==
  \/ \E cap \in LineCaps : SetLineCap(cap)
  \/ \E dir \in {"cw", "ccw"} : SetArcDirection(dir)
  \/ ClipSave \/ ClipRestore \/ ClipInclusive \/ BeginPath
  \/ EndPath("no_display", NoPen, FALSE, Hollow, AnyMode)
  \/ \E pen \in Pens, round \in BOOLEAN :
       \/ EndPath("open", pen, round, Hollow, AnyMode)
       \/ \E brush \in Brushes, dm \in DrawModes : EndPath("closed", pen, round, brush, dm)
  \/ NewPage \/ StartDoc \/ EndDocument \/ AbortDoc \/ FlushFails

Next == GDICall \/ Escape \/ NewDC

Spec == Init /\ [][Next]_vars

(***************************************************************************)
(* Properties.                                                             *)
(***************************************************************************)
InCutPath == app.broken /\ dv.PathLevel > 0

(* What the driver and the printer hold.  Every gs of a clip box has its   *)
(* gr, whatever way a call is left: only the graphics states that the      *)
(* application saved stay in the printer (ClipBox, PolyRefused).  The exit *)
(* of StretchBlt without memory is the one that forgets it.                *)
TypeOK ==
  /\ dv.fh \in BOOLEAN /\ dv.fDirty \in BOOLEAN /\ dv.fPenSelected \in BOOLEAN
  /\ dv.pen.style \in {p.style : p \in Pens} \cup {"solid", LSNoLine}
  /\ dv.FillMode \in [fill : BOOLEAN, over : {None, "pattern"} \cup {b.tile : b \in Brushes}]
  /\ Len(dv.slots) <= MAXSOFTFONTS
  /\ dv.PathLevel \in 0 .. MaxDepth
  /\ dv.fIsClipped => app.stray
  /\ dv.fh /\ ~app.stray => Len(pr.saved) = Len(app.clips)

(* A line comes out in the color, the width and the dashes of the pen GDI  *)
(* passed, although SelectPen sends only what it believes has changed: also*)
(* on the second page and in the second document.  CLIP_RESTORE takes the  *)
(* dashes back without the driver's knowledge, and so does the gr of a clip*)
(* box that was left behind; scan lines in a path paint with what is there.*)
StrokeAsAsked == "stroke" \in wrong => app.restored \/ app.stray \/ InCutPath

(* An area is filled with the color and the tile of the brush: SelectBrush *)
(* keeps the fill color, which ExtTextOut changes too, the hatch color, the*)
(* fill mode and the pattern.  (After a bitmap, the patterns of the page   *)
(* are at the mercy of rle.ps, which defines a p of its own.)              *)
FillAsAsked ==
  /\ "fill" \in wrong => InCutPath
  /\ "tile" \in wrong => InCutPath \/ (pr.vm.fm.over = "pattern" /\ "UNPACK" \in pr.vm.procs)

(* In a path the first figure moves and the others connect; outside, every *)
(* figure moves: also after an END_PATH at any depth, unless a path was cut*)
(* by scan lines, the end of the page or of its device context (MoveCmd is *)
(* global).                                                                *)
MovesOnce == "move" \in wrong \/ (gl.MoveCmd = "L" /\ dv.PathLevel = 0) => app.broken

(* Figures come out as GDI asked for them: with the pen, with the brush and*)
(* in the place of the call (SelectPen, SelectBrush, MoveCmd).             *)
PaintedAsAsked == StrokeAsAsked /\ FillAsAsked /\ MovesOnce

(* The printer has every soft font the driver remembers, once, but those   *)
(* whose file could not be read on this page.                              *)
FontsOnce ==
  dv.fh /\ ~app.aborted =>
    \A i \in 1 .. Len(dv.slots) :
      pr.vm.fonts[dv.slots[i]] = IF dv.slots[i] \in app.unsent THEN 0 ELSE 1

(* Text comes out in the font and the color GDI passed, although a soft    *)
(* font is sent once a page (DownLineLoadFont) and SelectFont is silent    *)
(* when the font did not change: or in a font that could not be sent.      *)
FontMissing == \E f \in Fonts : f.lid = dv.lidFont /\ f.soft /\ f.iFont \in app.unsent
TextAsAsked ==
  /\ "text" \in wrong => app.restored \/ app.stray \/ FontMissing
  /\ FontsOnce

(* Everything is clipped to the box of the call and to the path of the     *)
(* application, to nothing else and to nothing left from an earlier call:  *)
(* while no StretchBlt ran out of memory behind its clip box on this page. *)
ClipAsAsked == "clip" \in wrong => app.stray \/ InCutPath

(* The printer makes the row of a bitmap out of the codes exactly, and has *)
(* nothing left of them that it would run as a program (RunEncode, unpack);*)
(* and it has the procedures when it gets the codes (DLState), if they     *)
(* could be read.                                                          *)
BitmapAsSent == "row" \notin wrong

(* What was painted in a job that did not fail is on a page that was       *)
(* ejected when the document ends (ENDDOC and STARTDOC eject a dirty page).*)
LastPageOut == ~dv.fh => ~pr.marks

(* A line has the cap and the join that the application chose, or those of *)
(* its pen: SelectPen sends them when they differ from what it sent last,  *)
(* and NEWFRAME says that it invalidates pens.                             *)
EndsAsAsked == "ends" \in wrong => app.restored

=============================================================================
