---------------------------- MODULE PsState_proofs ----------------------------
(***************************************************************************)
(* Proofs about PsState, for any pens, brushes, draw modes, fonts, rows    *)
(* and programs: what the driver believes of the printer is true whenever  *)
(* it relies on it.                                                        *)
(***************************************************************************)
EXTENDS PsState, PsRun_proofs

(***************************************************************************)
(* Types.                                                                  *)
(***************************************************************************)
Flags == {"cap", "join"}
Styles == {p.style : p \in Pens} \cup {"solid", LSNoLine}
Overs == {None, "pattern"} \cup {b.tile : b \in Brushes}
Modes == [fill : BOOLEAN, over : Overs]
Procedures == {"UNPACK", "CIMAGE"}
Arcs == {"cw", "ccw"}

PenTypes == [style : Styles, width : Nat, color : Tones]
Drivers ==
  [fh : BOOLEAN, fDirty : BOOLEAN, fPenSelected : BOOLEAN, pen : PenTypes,
   FillMode : Modes, FillColor : Tones, HatchColor : Tones, rgbPat : Tones,
   lidFont : Tones, slots : Seq(SoftFonts), DLState : SUBSET Procedures, fIsClipped : BOOLEAN,
   iCur : [Flags -> Int], iNew : [Flags -> Int], PathLevel : Nat]

ClipTypes == [box : BOOLEAN, path : BOOLEAN]
States == [ends : [Flags -> Int], dash : {None} \cup (Styles \X Nat), font : Tones \cup {"missing"},
           clip : ClipTypes]
Memories ==
  [fC : Tones, hC : Tones, pC : Tones, PenW : Nat, fm : Modes, pat : Tones,
   p : {"proc", "byte"}, arc : Arcs, procs : SUBSET Procedures, fonts : [SoftFonts -> 0 .. 2]]
Printers == [vm : Memories, gs : States, saved : Seq(States), marks : BOOLEAN]

Globals == [MoveCmd : {"M", "L"}, ArcDir : Arcs]
Apps == [calls : Programs, clips : Seq(BOOLEAN), path : BOOLEAN, begun : BOOLEAN,
         restored : BOOLEAN, aborted : BOOLEAN, stray : BOOLEAN, broken : BOOLEAN,
         unsent : SUBSET SoftFonts]

(***************************************************************************)
(* What the driver believes, and the printer has.                          *)
(***************************************************************************)
\* The fill color always; the mode once there is one, with what it needs.  A bitmap
\* spoils the patterns.
FillOK(d, vm) ==
  /\ vm.fC = d.FillColor
  /\ d.FillMode # FM_NONE => vm.fm = d.FillMode
  /\ d.FillMode.over # None => vm.hC = d.HatchColor
  /\ d.FillMode.over = "pattern" => vm.pat = d.rgbPat \/ "UNPACK" \in vm.procs

\* The pen that is selected, unless it draws nothing.
PenOK(d, vm, gs) ==
  d.fPenSelected =>
    /\ vm.pC = d.pen.color
    /\ d.pen.style # LSNoLine => vm.PenW = PenWidth(d.pen) /\ gs.dash = <<d.pen.style, PenWidth(d.pen)>>

\* A soft font is in the printer once, when it has a slot and could be sent.
HasSlot(d, f) == \E i \in 1 .. Len(d.slots) : d.slots[i] = f
SlotsOK(d, vm, unsent) ==
  /\ \A f \in SoftFonts : vm.fonts[f] = IF HasSlot(d, f) /\ f \notin unsent THEN 1 ELSE 0
  /\ \A f \in unsent : HasSlot(d, f)

LidMissing(lid, unsent) == \E f \in Fonts : f.lid = lid /\ f.soft /\ f.iFont \in unsent
FontOK(d, gs, unsent) == d.lidFont = gs.font \/ LidMissing(d.lidFont, unsent)

ProcsOK(d, vm) ==
  /\ d.DLState \subseteq vm.procs
  /\ vm.p = "proc" \/ "UNPACK" \in vm.procs

ClipsOK(gs, saved, a) ==
  /\ gs.clip = [box |-> FALSE, path |-> a.path]
  /\ Len(saved) = Len(a.clips)
  /\ \A i \in 1 .. Len(saved) : saved[i].clip = [box |-> FALSE, path |-> a.clips[i]]

\* CLIP_RESTORE takes dashes and font back without the driver's knowledge, and so does the
\* gr of a clip box that was left behind.
Loose(a) == a.restored \/ a.stray
Holds(d, p, a) ==
  /\ FillOK(d, p.vm) /\ SlotsOK(d, p.vm, a.unsent) /\ ProcsOK(d, p.vm)
  /\ a.stray \/ ClipsOK(p.gs, p.saved, a)
  /\ Loose(a) \/ (PenOK(d, p.vm, p.gs) /\ FontOK(d, p.gs, a.unsent))

\* The driver believes nothing.
Clean(d) ==
  /\ d.FillMode = FM_NONE /\ d.FillColor = None /\ d.lidFont = None
  /\ ~d.fPenSelected /\ d.DLState = {}

\* Of a job that failed nothing is believed that is used: its page is dirty.
DeviceOK(d, p, a) ==
  /\ a.stray \/ ~d.fIsClipped
  /\ Len(d.slots) <= MAXSOFTFONTS
  /\ d.fh /\ ~a.aborted => Holds(d, p, a)
  /\ d.fh /\ a.aborted => d.fDirty /\ p = Fresh /\ a.clips = <<>>
  /\ d.fDirty \/ Clean(d)
  /\ (d.fh /\ d.fDirty) \/ ~p.marks
  /\ d.fh \/ a.aborted \/ Clean(d)

\* A path goes on from its first figure, unless it was cut.
PathOK(d, g, a) ==
  /\ d.PathLevel <= MaxDepth
  /\ d.PathLevel = 0 => g.MoveCmd = "M" \/ a.broken
  /\ d.PathLevel > 0 => (g.MoveCmd = "L" <=> a.begun) \/ a.broken

Inv ==
  /\ dv \in Drivers /\ pr \in Printers /\ gl \in Globals /\ app \in Apps
  /\ DeviceOK(dv, pr, app) /\ PathOK(dv, gl, app)

(***************************************************************************)
(* Driver and printer while a job is open.                                 *)
(***************************************************************************)
Worlds == [d : Drivers, p : Printers]
Live(w) == w \in Worlds /\ w.d.fh

\* The parts of both that belong together.
FillState(w) == <<w.d.FillMode, w.d.FillColor, w.d.HatchColor, w.d.rgbPat,
                  w.p.vm.fC, w.p.vm.hC, w.p.vm.fm, w.p.vm.pat>>
PenState(w)  == <<w.d.pen, w.d.fPenSelected, w.p.vm.pC, w.p.vm.PenW, w.p.gs.dash>>
FontState(w) == <<w.d.lidFont, w.p.gs.font>>
SlotState(w) == <<w.d.slots, w.p.vm.fonts>>
ProcState(w) == <<w.d.DLState, w.p.vm.procs, w.p.vm.p>>
ClipState(w) == <<w.d.fIsClipped, w.p.gs.clip, w.p.saved>>
JobState(w)  == <<w.d.fh, w.d.PathLevel, w.p.marks>>

LEMMA FreshIs == Fresh \in Printers /\ ~Fresh.marks /\ [Fresh EXCEPT !.marks = FALSE] = Fresh
  <1> DEFINE vm == Fresh.vm
             gs == Fresh.gs
             fonts == [f \in SoftFonts |-> 0]
             ends == [cap |-> 0, join |-> 0]
             no == FALSE
             clip == [box |-> no, path |-> no]
  <1>1. FM_NONE \in Modes /\ fonts \in [SoftFonts -> 0 .. 2] /\ ends \in [Flags -> Int]
    BY DEF FM_NONE, Modes, Overs, Flags
  <1>2. clip \in ClipTypes
    BY DEF ClipTypes
  <1>3. /\ vm = [fC |-> None, hC |-> None, pC |-> None, PenW |-> 1, fm |-> FM_NONE, pat |-> None,
                 p |-> "proc", arc |-> "ccw", procs |-> {}, fonts |-> fonts]
        /\ gs = [ends |-> ends, dash |-> None, font |-> None, clip |-> clip]
        /\ Fresh = [vm |-> vm, gs |-> gs, saved |-> <<>>, marks |-> no]
    BY DEF Fresh
  <1> HIDE DEF fonts, ends, clip, vm, gs
  <1>4. vm \in Memories
    BY <1>1, <1>3 DEF Memories, Tones, Arcs, Procedures
  <1>5. gs \in States
    BY <1>1, <1>2, <1>3 DEF States, Tones
  <1>6. Fresh \in Printers
    BY <1>3, <1>4, <1>5 DEF Printers
  <1>7. Fresh.marks = no
    BY <1>3
  <1>8. [Fresh EXCEPT !.marks = no] = Fresh
    <2> HIDE DEF no
    <2> QED
      BY <1>6, <1>7 DEF Printers
  <1> QED
    BY <1>6, <1>7, <1>8

LEMMA FrontIs ==
  ASSUME NEW S, NEW q \in Seq(S), q # <<>>, NEW n, n = Len(q) - 1
  PROVE  /\ n \in Nat /\ SubSeq(q, 1, n) \in Seq(S) /\ Len(SubSeq(q, 1, n)) = n
         /\ \A i \in 1 .. n : SubSeq(q, 1, n)[i] = q[i]
         /\ n + 1 = Len(q) /\ q[n + 1] \in S
  <1>1. Len(q) \in Nat /\ Len(q) > 0
    OBVIOUS
  <1>2. n \in Nat /\ n + 1 = Len(q)
    BY <1>1
  <1>3. q[n + 1] \in S
    BY <1>2
  <1>4. /\ SubSeq(q, 1, n) \in Seq(S) /\ Len(SubSeq(q, 1, n)) = n
        /\ \A i \in 1 .. n : SubSeq(q, 1, n)[i] = q[i]
    BY <1>2
  <1> QED
    BY <1>2, <1>3, <1>4

LEMMA SendIs ==
  ASSUME NEW w, Live(w), NEW p \in Printers
  PROVE  /\ Live(Send(w, p)) /\ Send(w, p).d = [w.d EXCEPT !.fDirty = TRUE] /\ Send(w, p).p = p
         /\ Send(w, p).d.fDirty
  BY DEF Live, Worlds, Send, Drivers

\* What boxes and procedures leave alone in the driver and in the memory of the printer.
SameBeliefs(d, e) ==
  /\ d.fh = e.fh /\ d.pen = e.pen /\ d.fPenSelected = e.fPenSelected
  /\ d.FillMode = e.FillMode /\ d.FillColor = e.FillColor /\ d.HatchColor = e.HatchColor
  /\ d.rgbPat = e.rgbPat /\ d.lidFont = e.lidFont /\ d.slots = e.slots
  /\ d.PathLevel = e.PathLevel
SameDriver(d, e) == SameBeliefs(d, e) /\ d.fIsClipped = e.fIsClipped
SameMemory(vm, um) ==
  /\ vm.fC = um.fC /\ vm.hC = um.hC /\ vm.pC = um.pC /\ vm.PenW = um.PenW
  /\ vm.fm = um.fm /\ vm.pat = um.pat /\ vm.fonts = um.fonts

LEMMA SendSame ==
  ASSUME NEW w, Live(w), NEW p \in Printers
  PROVE  /\ Live(Send(w, p)) /\ SameDriver(Send(w, p).d, w.d)
         /\ Send(w, p).d.DLState = w.d.DLState /\ Send(w, p).d.fDirty /\ Send(w, p).p = p
  <1> DEFINE v == Send(w, p)
  <1>1. Live(v) /\ v.d = [w.d EXCEPT !.fDirty = TRUE] /\ v.p = p /\ v.d.fDirty
    BY SendIs
  <1> HIDE DEF v
  <1>2. SameDriver(v.d, w.d) /\ v.d.DLState = w.d.DLState
    BY <1>1 DEF Live, Worlds, Drivers, SameBeliefs, SameDriver
  <1> QED
    BY <1>1, <1>2 DEF v

\* The ends of lines are sent, whatever they are.
LEMMA SelectEndsIs ==
  ASSUME NEW w, Live(w), NEW round \in BOOLEAN, NEW v, v = SelectEnds(w, round)
  PROVE  /\ Live(v) /\ FillState(v) = FillState(w) /\ PenState(v) = PenState(w)
         /\ FontState(v) = FontState(w) /\ SlotState(v) = SlotState(w)
         /\ ProcState(v) = ProcState(w) /\ ClipState(v) = ClipState(w)
         /\ JobState(v) = JobState(w)
  <1> DEFINE want == Ends(w.d, round)
             ends == [f \in Flags |-> IF w.d.iCur[f] # want[f] THEN want[f] ELSE w.p.gs.ends[f]]
             p == [w.p EXCEPT !.gs.ends = ends]
             w1 == Send(w, p)
  <1>1. want \in [Flags -> Int] /\ ends \in [Flags -> Int]
    BY DEF Ends, Flags, Live, Worlds, Drivers, Printers, States, Default
  <1>2. v = IF w.d.iCur = want THEN w ELSE [w1 EXCEPT !.d.iCur = want]
    BY DEF SelectEnds, Flags, Live, Worlds, Printers, States
  <1> HIDE DEF want, ends
  <1>3. /\ p \in Printers /\ p.vm = w.p.vm /\ p.saved = w.p.saved /\ p.marks = w.p.marks
        /\ p.gs.dash = w.p.gs.dash /\ p.gs.font = w.p.gs.font /\ p.gs.clip = w.p.gs.clip
    BY <1>1 DEF Live, Worlds, Printers, States
  <1> HIDE DEF p
  <1>4. Live(w1) /\ w1.d = [w.d EXCEPT !.fDirty = TRUE] /\ w1.p = p
    BY <1>3, SendIs
  <1> HIDE DEF w1
  <1>5. CASE w.d.iCur = want
    BY <1>2, <1>5
  <1>6. CASE w.d.iCur # want
    <2> DEFINE d == [w1.d EXCEPT !.iCur = want]
    <2>1. v = [w1 EXCEPT !.d = d]
      BY <1>2, <1>4, <1>6 DEF Live, Worlds
    <2>2. /\ d \in Drivers /\ d.fh = w1.d.fh
          /\ d.FillMode = w1.d.FillMode /\ d.FillColor = w1.d.FillColor
          /\ d.HatchColor = w1.d.HatchColor /\ d.rgbPat = w1.d.rgbPat
          /\ d.pen = w1.d.pen /\ d.fPenSelected = w1.d.fPenSelected
          /\ d.lidFont = w1.d.lidFont /\ d.slots = w1.d.slots /\ d.DLState = w1.d.DLState
          /\ d.fIsClipped = w1.d.fIsClipped /\ d.PathLevel = w1.d.PathLevel
      BY <1>1, <1>4 DEF Live, Worlds, Drivers
    <2> HIDE DEF d
    <2>3. Live(v) /\ v.p = w1.p /\ v.d = d
      BY <2>1, <2>2, <1>4 DEF Live, Worlds
    <2> QED
      BY <2>2, <2>3, <1>3, <1>4 DEF FillState, PenState, FontState, SlotState, ProcState,
                                     ClipState, JobState
  <1> QED
    BY <1>5, <1>6


LEMMA SelectPenColorIs ==
  ASSUME NEW w, Live(w), NEW pen \in PenTypes, NEW v, v = SelectPenColor(w, pen)
  PROVE  /\ Live(v) /\ FillState(v) = FillState(w)
         /\ FontState(v) = FontState(w) /\ SlotState(v) = SlotState(w)
         /\ ProcState(v) = ProcState(w) /\ ClipState(v) = ClipState(w)
         /\ JobState(v) = JobState(w)
         /\ v.d.pen.style = w.d.pen.style /\ v.d.pen.width = w.d.pen.width
         /\ v.d.fPenSelected = w.d.fPenSelected
         /\ v.p.vm.PenW = w.p.vm.PenW /\ v.p.gs = w.p.gs
         /\ v.d.pen.color = pen.color
         /\ v.p.vm.pC = IF w.d.fPenSelected /\ pen.color = w.d.pen.color
                        THEN w.p.vm.pC ELSE pen.color
  <1> DEFINE color == pen.color
             p == [w.p EXCEPT !.vm.pC = color]
             w1 == Send(w, p)
  <1>1. color \in Tones /\ w.d.pen \in PenTypes
    BY DEF PenTypes, Live, Worlds, Drivers
  <1>2. v = IF w.d.fPenSelected /\ color = w.d.pen.color
            THEN w ELSE [w1 EXCEPT !.d.pen.color = color]
    BY DEF SelectPenColor
  <1> HIDE DEF color
  <1>3. /\ p \in Printers /\ p.gs = w.p.gs /\ p.saved = w.p.saved /\ p.marks = w.p.marks
        /\ p.vm.pC = color /\ p.vm.PenW = w.p.vm.PenW
        /\ p.vm.fC = w.p.vm.fC /\ p.vm.hC = w.p.vm.hC /\ p.vm.fm = w.p.vm.fm
        /\ p.vm.pat = w.p.vm.pat /\ p.vm.p = w.p.vm.p /\ p.vm.procs = w.p.vm.procs
        /\ p.vm.fonts = w.p.vm.fonts
    BY <1>1 DEF Live, Worlds, Printers, Memories
  <1> HIDE DEF p
  <1>4. Live(w1) /\ w1.d = [w.d EXCEPT !.fDirty = TRUE] /\ w1.p = p
    BY <1>3, SendIs
  <1> HIDE DEF w1
  <1>5. CASE w.d.fPenSelected /\ color = w.d.pen.color
    BY <1>2, <1>5 DEF color
  <1>6. CASE ~(w.d.fPenSelected /\ color = w.d.pen.color)
    <2> DEFINE d == [w1.d EXCEPT !.pen.color = color]
    <2>1. v = [w1 EXCEPT !.d = d]
      BY <1>2, <1>4, <1>6 DEF Live, Worlds
    <2>2. /\ d \in Drivers /\ d.fh = w1.d.fh
          /\ d.FillMode = w1.d.FillMode /\ d.FillColor = w1.d.FillColor
          /\ d.HatchColor = w1.d.HatchColor /\ d.rgbPat = w1.d.rgbPat
          /\ d.pen.style = w1.d.pen.style /\ d.pen.width = w1.d.pen.width /\ d.pen.color = color
          /\ d.fPenSelected = w1.d.fPenSelected
          /\ d.lidFont = w1.d.lidFont /\ d.slots = w1.d.slots /\ d.DLState = w1.d.DLState
          /\ d.fIsClipped = w1.d.fIsClipped /\ d.PathLevel = w1.d.PathLevel
      BY <1>1, <1>4 DEF Live, Worlds, Drivers, PenTypes
    <2> HIDE DEF d
    <2>3. Live(v) /\ v.p = w1.p /\ v.d = d
      BY <2>1, <2>2, <1>4 DEF Live, Worlds
    <2>4. /\ w1.d.pen = w.d.pen /\ w1.d.fPenSelected = w.d.fPenSelected
      BY <1>4 DEF Live, Worlds, Drivers
    <2>5. /\ Live(v) /\ FillState(v) = FillState(w)
          /\ FontState(v) = FontState(w) /\ SlotState(v) = SlotState(w)
          /\ ProcState(v) = ProcState(w) /\ ClipState(v) = ClipState(w)
          /\ JobState(v) = JobState(w)
      BY <2>2, <2>3, <1>3, <1>4 DEF FillState, FontState, SlotState, ProcState, ClipState, JobState
    <2> QED
      BY <2>2, <2>3, <2>4, <2>5, <1>3, <1>4, <1>6 DEF color
  <1> QED
    BY <1>5, <1>6

LEMMA SelectPenStyleIs ==
  ASSUME NEW w, Live(w), NEW pen \in PenTypes, NEW v, v = SelectPenStyle(w, pen),
         w.d.pen.color = pen.color
  PROVE  /\ Live(v) /\ FillState(v) = FillState(w)
         /\ FontState(v) = FontState(w) /\ SlotState(v) = SlotState(w)
         /\ ProcState(v) = ProcState(w) /\ ClipState(v) = ClipState(w)
         /\ JobState(v) = JobState(w)
         /\ v.d.pen.style = pen.style /\ PenWidth(v.d.pen) = PenWidth(pen)
         /\ v.d.pen.color = pen.color
         /\ v.d.fPenSelected = w.d.fPenSelected /\ v.p.vm.pC = w.p.vm.pC
         /\ \/ v.p.vm.PenW = PenWidth(pen) /\ v.p.gs.dash = <<pen.style, PenWidth(pen)>>
            \/ /\ v = w /\ w.d.fPenSelected
               /\ PenWidth(pen) = PenWidth(w.d.pen) /\ pen.style = w.d.pen.style
  <1> DEFINE width == PenWidth(pen)
             dash == <<pen.style, width>>
             p == [w.p EXCEPT !.vm.PenW = width, !.gs.dash = dash]
             w1 == Send(w, p)
             same == w.d.fPenSelected /\ width = PenWidth(w.d.pen) /\ pen.style = w.d.pen.style
  <1>1. width \in Nat /\ dash \in Styles \X Nat
    BY DEF PenTypes, PenWidth
  <1>2. v = IF same THEN w ELSE [w1 EXCEPT !.d.pen = pen]
    BY DEF SelectPenStyle
  <1> HIDE DEF width, dash
  <1>3. /\ p \in Printers /\ p.saved = w.p.saved /\ p.marks = w.p.marks
        /\ p.gs.font = w.p.gs.font /\ p.gs.clip = w.p.gs.clip /\ p.gs.dash = dash
        /\ p.vm.pC = w.p.vm.pC /\ p.vm.PenW = width
        /\ p.vm.fC = w.p.vm.fC /\ p.vm.hC = w.p.vm.hC /\ p.vm.fm = w.p.vm.fm
        /\ p.vm.pat = w.p.vm.pat /\ p.vm.p = w.p.vm.p /\ p.vm.procs = w.p.vm.procs
        /\ p.vm.fonts = w.p.vm.fonts
    BY <1>1 DEF Live, Worlds, Printers, Memories, States
  <1> HIDE DEF p
  <1>4. Live(w1) /\ w1.d = [w.d EXCEPT !.fDirty = TRUE] /\ w1.p = p
    BY <1>3, SendIs
  <1> HIDE DEF w1
  <1>5. CASE same
    BY <1>2, <1>5 DEF width
  <1>6. CASE ~same
    <2> DEFINE d == [w1.d EXCEPT !.pen = pen]
    <2>1. v = [w1 EXCEPT !.d = d]
      BY <1>2, <1>4, <1>6 DEF Live, Worlds
    <2>2. /\ d \in Drivers /\ d.fh = w1.d.fh
          /\ d.FillMode = w1.d.FillMode /\ d.FillColor = w1.d.FillColor
          /\ d.HatchColor = w1.d.HatchColor /\ d.rgbPat = w1.d.rgbPat
          /\ d.pen = pen /\ d.fPenSelected = w1.d.fPenSelected
          /\ d.lidFont = w1.d.lidFont /\ d.slots = w1.d.slots /\ d.DLState = w1.d.DLState
          /\ d.fIsClipped = w1.d.fIsClipped /\ d.PathLevel = w1.d.PathLevel
      BY <1>1, <1>4 DEF Live, Worlds, Drivers
    <2> HIDE DEF d
    <2>3. Live(v) /\ v.p = w1.p /\ v.d = d
      BY <2>1, <2>2, <1>4 DEF Live, Worlds
    <2>4. w1.d.fPenSelected = w.d.fPenSelected
      BY <1>4 DEF Live, Worlds, Drivers
    <2>5. /\ Live(v) /\ FillState(v) = FillState(w)
          /\ FontState(v) = FontState(w) /\ SlotState(v) = SlotState(w)
          /\ ProcState(v) = ProcState(w) /\ ClipState(v) = ClipState(w)
          /\ JobState(v) = JobState(w)
      BY <2>2, <2>3, <1>3, <1>4 DEF FillState, FontState, SlotState, ProcState, ClipState, JobState
    <2> HIDE DEF same
    <2> QED
      BY <2>2, <2>3, <2>4, <2>5, <1>3, <1>4 DEF width, dash
  <1> QED
    BY <1>5, <1>6


\* SelectPen leaves the pen it was given in the printer, or the pen that was there
\* and draws nothing.
LEMMA SelectPenIs ==
  ASSUME NEW w, Live(w), NEW pen \in PenTypes, NEW round \in BOOLEAN,
         NEW v, v = SelectPen(w, pen, round), NEW r \in BOOLEAN,
         r \/ PenOK(w.d, w.p.vm, w.p.gs)
  PROVE  /\ Live(v) /\ FillState(v) = FillState(w)
         /\ FontState(v) = FontState(w) /\ SlotState(v) = SlotState(w)
         /\ ProcState(v) = ProcState(w) /\ ClipState(v) = ClipState(w)
         /\ JobState(v) = JobState(w)
         /\ r \/ PenOK(v.d, v.p.vm, v.p.gs)
         /\ v.d.pen.style = LSNoLine <=> ~Drawable(pen)
         /\ r \/ ~Drawable(pen) \/ StrokePaint(v.p) = AskedStroke(pen)
  <1>1. w.d.pen \in PenTypes /\ w.d \in Drivers
    BY DEF Live, Worlds, Drivers
  <1>2. CASE ~Drawable(pen)
    <2> DEFINE d == [w.d EXCEPT !.pen.style = LSNoLine]
    <2>1. v = [w EXCEPT !.d = d]
      BY <1>2 DEF SelectPen, Drawable, Live, Worlds
    <2>2. /\ d \in Drivers /\ d.fh = w.d.fh
          /\ d.FillMode = w.d.FillMode /\ d.FillColor = w.d.FillColor
          /\ d.HatchColor = w.d.HatchColor /\ d.rgbPat = w.d.rgbPat
          /\ d.pen.style = LSNoLine /\ d.pen.color = w.d.pen.color
          /\ d.fPenSelected = w.d.fPenSelected
          /\ d.lidFont = w.d.lidFont /\ d.slots = w.d.slots /\ d.DLState = w.d.DLState
          /\ d.fIsClipped = w.d.fIsClipped /\ d.PathLevel = w.d.PathLevel
      BY <1>1 DEF Drivers, PenTypes, Styles
    <2> HIDE DEF d
    <2>3. Live(v) /\ v.p = w.p /\ v.d = d
      BY <2>1, <2>2 DEF Live, Worlds
    <2>4. /\ FillState(v) = FillState(w) /\ FontState(v) = FontState(w)
          /\ SlotState(v) = SlotState(w) /\ ProcState(v) = ProcState(w)
          /\ ClipState(v) = ClipState(w) /\ JobState(v) = JobState(w)
      BY <2>2, <2>3 DEF FillState, FontState, SlotState, ProcState, ClipState, JobState
    <2>5. r \/ PenOK(v.d, v.p.vm, v.p.gs)
      BY <2>2, <2>3 DEF PenOK
    <2> QED
      BY <2>2, <2>3, <2>4, <2>5, <1>2
  <1>3. CASE Drawable(pen)
    <2> DEFINE w1 == SelectEnds(w, round)
               w2 == SelectPenColor(w1, pen)
               w3 == SelectPenStyle(w2, pen)
               d == [w3.d EXCEPT !.fPenSelected = TRUE]
    <2>1. v = [w3 EXCEPT !.d.fPenSelected = TRUE]
      BY <1>3 DEF SelectPen, Drawable
    <2>2. /\ Live(w1) /\ FillState(w1) = FillState(w) /\ PenState(w1) = PenState(w)
          /\ FontState(w1) = FontState(w) /\ SlotState(w1) = SlotState(w)
          /\ ProcState(w1) = ProcState(w) /\ ClipState(w1) = ClipState(w)
          /\ JobState(w1) = JobState(w)
      BY SelectEndsIs
    <2> HIDE DEF w1
    <2>3. /\ Live(w2) /\ FillState(w2) = FillState(w1)
          /\ FontState(w2) = FontState(w1) /\ SlotState(w2) = SlotState(w1)
          /\ ProcState(w2) = ProcState(w1) /\ ClipState(w2) = ClipState(w1)
          /\ JobState(w2) = JobState(w1)
          /\ w2.d.pen.style = w1.d.pen.style /\ w2.d.pen.width = w1.d.pen.width
          /\ w2.d.fPenSelected = w1.d.fPenSelected
          /\ w2.p.vm.PenW = w1.p.vm.PenW /\ w2.p.gs = w1.p.gs
          /\ w2.d.pen.color = pen.color
          /\ w2.p.vm.pC = IF w1.d.fPenSelected /\ pen.color = w1.d.pen.color
                          THEN w1.p.vm.pC ELSE pen.color
      BY <2>2, SelectPenColorIs
    <2> HIDE DEF w2
    <2>4. /\ Live(w3) /\ FillState(w3) = FillState(w2)
          /\ FontState(w3) = FontState(w2) /\ SlotState(w3) = SlotState(w2)
          /\ ProcState(w3) = ProcState(w2) /\ ClipState(w3) = ClipState(w2)
          /\ JobState(w3) = JobState(w2)
          /\ w3.d.pen.style = pen.style /\ PenWidth(w3.d.pen) = PenWidth(pen)
          /\ w3.d.pen.color = pen.color
          /\ w3.d.fPenSelected = w2.d.fPenSelected /\ w3.p.vm.pC = w2.p.vm.pC
          /\ \/ w3.p.vm.PenW = PenWidth(pen) /\ w3.p.gs.dash = <<pen.style, PenWidth(pen)>>
             \/ /\ w3 = w2 /\ w2.d.fPenSelected
                /\ PenWidth(pen) = PenWidth(w2.d.pen) /\ pen.style = w2.d.pen.style
      BY <2>3, SelectPenStyleIs
    <2> HIDE DEF w3
    <2>5. v = [w3 EXCEPT !.d = d]
      BY <2>1, <2>4 DEF Live, Worlds
    <2>6. /\ d \in Drivers /\ d.fh = w3.d.fh
          /\ d.FillMode = w3.d.FillMode /\ d.FillColor = w3.d.FillColor
          /\ d.HatchColor = w3.d.HatchColor /\ d.rgbPat = w3.d.rgbPat
          /\ d.pen = w3.d.pen
          /\ d.lidFont = w3.d.lidFont /\ d.slots = w3.d.slots /\ d.DLState = w3.d.DLState
          /\ d.fIsClipped = w3.d.fIsClipped /\ d.PathLevel = w3.d.PathLevel
      BY <2>4 DEF Live, Worlds, Drivers
    <2> HIDE DEF d
    <2>7. Live(v) /\ v.p = w3.p /\ v.d = d
      BY <2>4, <2>5, <2>6 DEF Live, Worlds
    <2>8. /\ FillState(v) = FillState(w3) /\ FontState(v) = FontState(w3)
          /\ SlotState(v) = SlotState(w3) /\ ProcState(v) = ProcState(w3)
          /\ ClipState(v) = ClipState(w3) /\ JobState(v) = JobState(w3)
      BY <2>6, <2>7 DEF FillState, FontState, SlotState, ProcState, ClipState, JobState
    <2>9. /\ w1.d.pen = w.d.pen /\ w1.d.fPenSelected = w.d.fPenSelected
          /\ w1.p.vm.pC = w.p.vm.pC /\ w1.p.vm.PenW = w.p.vm.PenW
          /\ w1.p.gs.dash = w.p.gs.dash
      BY <2>2 DEF PenState
    <2>10. pen.style # LSNoLine
      BY <1>3 DEF Drawable
    <2>11. PenWidth(w2.d.pen) = PenWidth(w.d.pen)
      BY <2>3, <2>9 DEF PenWidth
    <2>12. r \/ (/\ v.p.vm.pC = pen.color /\ v.p.vm.PenW = PenWidth(pen)
                 /\ v.p.gs.dash = <<pen.style, PenWidth(pen)>>)
      BY <2>3, <2>4, <2>7, <2>9, <2>10, <2>11 DEF PenOK
    <2>13. /\ v.d.pen.style = pen.style /\ PenWidth(v.d.pen) = PenWidth(pen)
           /\ v.d.pen.color = pen.color
      BY <2>4, <2>6, <2>7
    <2>14. r \/ PenOK(v.d, v.p.vm, v.p.gs)
      BY <2>12, <2>13 DEF PenOK
    <2>15. r \/ StrokePaint(v.p) = AskedStroke(pen)
      BY <2>12, <1>3 DEF StrokePaint, AskedStroke
    <2> QED
      BY <1>3, <2>2, <2>3, <2>4, <2>7, <2>8, <2>10, <2>13, <2>14, <2>15
  <1> QED
    BY <1>2, <1>3


\* What is laid over a fill is what a brush lays over it.
LEMMA FillModeOfIs ==
  ASSUME NEW brush \in Brushes, NEW dm \in DrawModes, brush.style # "hollow"
  PROVE  /\ FillModeOf(brush, dm) \in Modes /\ FillModeOf(brush, dm) # FM_NONE
         /\ FillColorOf(brush, dm) \in Tones /\ HatPatColor(brush, dm) \in Tones
         /\ FillModeOf(brush, dm).over = "pattern" \/ FillModeOf(brush, dm).over = brush.tile
  <1>1. /\ brush \in [style : {"solid", "hatched", "pattern", "hollow"},
                      color : Tones, bk : Tones, tile : Tones]
        /\ brush.style = "solid" => brush.tile = None
        /\ brush.style = "hatched" => brush.tile \notin {None, "pattern"}
        /\ dm \in [opaque : BOOLEAN, bkColor : STRING, TextColor : STRING]
        /\ None # "pattern"
    BY GDIAssumption
  <1>2. brush.style \in {"solid", "hatched", "pattern"}
    BY <1>1
  <1>3. brush.tile \in Overs /\ "pattern" \in Overs /\ None \in Overs
    BY DEF Overs
  <1>4. CASE brush.style = "solid"
    BY <1>1, <1>3, <1>4 DEF FillModeOf, FillColorOf, HatPatColor, Modes, FM_NONE, Tones
  <1>5. CASE brush.style = "hatched"
    <2>1. FillModeOf(brush, dm) = [fill |-> dm.opaque, over |-> brush.tile]
      BY <1>1, <1>5 DEF FillModeOf
    <2> QED
      BY <1>1, <1>3, <1>5, <2>1 DEF FillColorOf, HatPatColor, Modes, FM_NONE, Tones
  <1>6. CASE brush.style = "pattern"
    <2>1. FillModeOf(brush, dm) = [fill |-> TRUE, over |-> "pattern"]
      BY <1>1, <1>6 DEF FillModeOf
    <2> QED
      BY <1>1, <1>3, <1>6, <2>1 DEF FillColorOf, HatPatColor, Modes, FM_NONE, Tones
  <1> QED
    BY <1>2, <1>4, <1>5, <1>6



\* What selecting a brush leaves alone.
KeepsAllButFill(v, w) ==
  /\ PenState(v) = PenState(w) /\ FontState(v) = FontState(w) /\ SlotState(v) = SlotState(w)
  /\ ProcState(v) = ProcState(w) /\ ClipState(v) = ClipState(w) /\ JobState(v) = JobState(w)

LEMMA SendFillColorIs ==
  ASSUME NEW w, Live(w), NEW color \in Tones, NEW v, v = SendFillColor(w, color)
  PROVE  /\ Live(v) /\ KeepsAllButFill(v, w)
         /\ v.p.vm.fC = color /\ v.d.FillColor = color
         /\ v.p.vm.hC = w.p.vm.hC /\ v.p.vm.fm = w.p.vm.fm /\ v.p.vm.pat = w.p.vm.pat
         /\ v.d.FillMode = w.d.FillMode /\ v.d.HatchColor = w.d.HatchColor /\ v.d.rgbPat = w.d.rgbPat
  <1> DEFINE p == [w.p EXCEPT !.vm.fC = color]
             w1 == Send(w, p)
             d == [w1.d EXCEPT !.FillColor = color]
  <1>1. /\ p \in Printers /\ p.gs = w.p.gs /\ p.saved = w.p.saved /\ p.marks = w.p.marks
        /\ p.vm.fC = color /\ p.vm.pC = w.p.vm.pC /\ p.vm.PenW = w.p.vm.PenW
        /\ p.vm.procs = w.p.vm.procs /\ p.vm.p = w.p.vm.p /\ p.vm.fonts = w.p.vm.fonts
        /\ p.vm.hC = w.p.vm.hC /\ p.vm.fm = w.p.vm.fm /\ p.vm.pat = w.p.vm.pat
    BY DEF Live, Worlds, Printers, Memories
  <1> HIDE DEF p
  <1>2. Live(w1) /\ SameDriver(w1.d, w.d) /\ w1.d.DLState = w.d.DLState /\ w1.p = p
    BY <1>1, SendSame
  <1>3. v = [w1 EXCEPT !.d = d]
    BY <1>2 DEF SendFillColor, p, Live, Worlds
  <1> HIDE DEF w1
  <1>4. /\ d \in Drivers /\ d.fh = w.d.fh /\ d.FillColor = color
        /\ d.FillMode = w.d.FillMode /\ d.HatchColor = w.d.HatchColor /\ d.rgbPat = w.d.rgbPat
        /\ d.pen = w.d.pen /\ d.fPenSelected = w.d.fPenSelected
        /\ d.lidFont = w.d.lidFont /\ d.slots = w.d.slots /\ d.DLState = w.d.DLState
        /\ d.fIsClipped = w.d.fIsClipped /\ d.PathLevel = w.d.PathLevel
    BY <1>2 DEF Live, Worlds, Drivers, SameDriver, SameBeliefs
  <1> HIDE DEF d
  <1>5. Live(v) /\ v.p = p /\ v.d = d
    BY <1>2, <1>3, <1>4 DEF Live, Worlds
  <1> QED
    BY <1>1, <1>4, <1>5 DEF KeepsAllButFill, PenState, FontState, SlotState, ProcState, ClipState,
                            JobState

SendHatColor(w, over) ==
  [Send(w, [w.p EXCEPT !.vm.hC = over]) EXCEPT !.d.HatchColor = over]

LEMMA SendHatColorIs ==
  ASSUME NEW w, Live(w), NEW over \in Tones, NEW v, v = SendHatColor(w, over)
  PROVE  /\ Live(v) /\ KeepsAllButFill(v, w)
         /\ v.p.vm.hC = over /\ v.d.HatchColor = over
         /\ v.p.vm.fC = w.p.vm.fC /\ v.p.vm.fm = w.p.vm.fm /\ v.p.vm.pat = w.p.vm.pat
         /\ v.d.FillMode = w.d.FillMode /\ v.d.FillColor = w.d.FillColor /\ v.d.rgbPat = w.d.rgbPat
  <1> DEFINE p == [w.p EXCEPT !.vm.hC = over]
             w1 == Send(w, p)
             d == [w1.d EXCEPT !.HatchColor = over]
  <1>1. /\ p \in Printers /\ p.gs = w.p.gs /\ p.saved = w.p.saved /\ p.marks = w.p.marks
        /\ p.vm.hC = over /\ p.vm.pC = w.p.vm.pC /\ p.vm.PenW = w.p.vm.PenW
        /\ p.vm.procs = w.p.vm.procs /\ p.vm.p = w.p.vm.p /\ p.vm.fonts = w.p.vm.fonts
        /\ p.vm.fC = w.p.vm.fC /\ p.vm.fm = w.p.vm.fm /\ p.vm.pat = w.p.vm.pat
    BY DEF Live, Worlds, Printers, Memories
  <1> HIDE DEF p
  <1>2. Live(w1) /\ SameDriver(w1.d, w.d) /\ w1.d.DLState = w.d.DLState /\ w1.p = p
    BY <1>1, SendSame
  <1>3. v = [w1 EXCEPT !.d = d]
    BY <1>2 DEF SendHatColor, p, Live, Worlds
  <1> HIDE DEF w1
  <1>4. /\ d \in Drivers /\ d.fh = w.d.fh /\ d.HatchColor = over
        /\ d.FillMode = w.d.FillMode /\ d.FillColor = w.d.FillColor /\ d.rgbPat = w.d.rgbPat
        /\ d.pen = w.d.pen /\ d.fPenSelected = w.d.fPenSelected
        /\ d.lidFont = w.d.lidFont /\ d.slots = w.d.slots /\ d.DLState = w.d.DLState
        /\ d.fIsClipped = w.d.fIsClipped /\ d.PathLevel = w.d.PathLevel
    BY <1>2 DEF Live, Worlds, Drivers, SameDriver, SameBeliefs
  <1> HIDE DEF d
  <1>5. Live(v) /\ v.p = p /\ v.d = d
    BY <1>2, <1>3, <1>4 DEF Live, Worlds
  <1> QED
    BY <1>1, <1>4, <1>5 DEF KeepsAllButFill, PenState, FontState, SlotState, ProcState, ClipState,
                            JobState

LEMMA SendPatternIs ==
  ASSUME NEW w, Live(w), NEW tile \in Tones, NEW v, v = SendPattern(w, tile)
  PROVE  /\ Live(v) /\ KeepsAllButFill(v, w)
         /\ (v.p.vm.pat = IF w.p.vm.p = "proc" THEN tile ELSE w.p.vm.pat) /\ v.d.rgbPat = tile
         /\ v.p.vm.fC = w.p.vm.fC /\ v.p.vm.hC = w.p.vm.hC /\ v.p.vm.fm = w.p.vm.fm
         /\ v.d.FillMode = w.d.FillMode /\ v.d.FillColor = w.d.FillColor /\ v.d.HatchColor = w.d.HatchColor
  <1> DEFINE p == IF w.p.vm.p = "proc" THEN [w.p EXCEPT !.vm.pat = tile] ELSE w.p
             w1 == Send(w, p)
             d == [w1.d EXCEPT !.rgbPat = tile]
  <1>1. /\ p \in Printers /\ p.gs = w.p.gs /\ p.saved = w.p.saved /\ p.marks = w.p.marks
        /\ (p.vm.pat = IF w.p.vm.p = "proc" THEN tile ELSE w.p.vm.pat) /\ p.vm.pC = w.p.vm.pC /\ p.vm.PenW = w.p.vm.PenW
        /\ p.vm.procs = w.p.vm.procs /\ p.vm.p = w.p.vm.p /\ p.vm.fonts = w.p.vm.fonts
        /\ p.vm.fC = w.p.vm.fC /\ p.vm.hC = w.p.vm.hC /\ p.vm.fm = w.p.vm.fm
    BY DEF Live, Worlds, Printers, Memories
  <1> HIDE DEF p
  <1>2. Live(w1) /\ SameDriver(w1.d, w.d) /\ w1.d.DLState = w.d.DLState /\ w1.p = p
    BY <1>1, SendSame
  <1>3. v = [w1 EXCEPT !.d = d]
    BY <1>2 DEF SendPattern, p, Live, Worlds
  <1> HIDE DEF w1
  <1>4. /\ d \in Drivers /\ d.fh = w.d.fh /\ d.rgbPat = tile
        /\ d.FillMode = w.d.FillMode /\ d.FillColor = w.d.FillColor /\ d.HatchColor = w.d.HatchColor
        /\ d.pen = w.d.pen /\ d.fPenSelected = w.d.fPenSelected
        /\ d.lidFont = w.d.lidFont /\ d.slots = w.d.slots /\ d.DLState = w.d.DLState
        /\ d.fIsClipped = w.d.fIsClipped /\ d.PathLevel = w.d.PathLevel
    BY <1>2 DEF Live, Worlds, Drivers, SameDriver, SameBeliefs
  <1> HIDE DEF d
  <1>5. Live(v) /\ v.p = p /\ v.d = d
    BY <1>2, <1>3, <1>4 DEF Live, Worlds
  <1> QED
    BY <1>1, <1>4, <1>5 DEF KeepsAllButFill, PenState, FontState, SlotState, ProcState, ClipState,
                            JobState

LEMMA SendModeIs ==
  ASSUME NEW w, Live(w), NEW fm \in Modes, NEW v, v = Send(w, [w.p EXCEPT !.vm.fm = fm])
  PROVE  /\ Live(v) /\ KeepsAllButFill(v, w) /\ v.p.vm.fm = fm
         /\ v.p.vm.fC = w.p.vm.fC /\ v.p.vm.hC = w.p.vm.hC /\ v.p.vm.pat = w.p.vm.pat
         /\ v.d.FillMode = w.d.FillMode /\ v.d.FillColor = w.d.FillColor
         /\ v.d.HatchColor = w.d.HatchColor /\ v.d.rgbPat = w.d.rgbPat
  <1> DEFINE p == [w.p EXCEPT !.vm.fm = fm]
  <1>1. /\ p \in Printers /\ p.gs = w.p.gs /\ p.saved = w.p.saved /\ p.marks = w.p.marks
        /\ p.vm.fm = fm /\ p.vm.pC = w.p.vm.pC /\ p.vm.PenW = w.p.vm.PenW
        /\ p.vm.procs = w.p.vm.procs /\ p.vm.p = w.p.vm.p /\ p.vm.fonts = w.p.vm.fonts
        /\ p.vm.fC = w.p.vm.fC /\ p.vm.hC = w.p.vm.hC /\ p.vm.pat = w.p.vm.pat
    BY DEF Live, Worlds, Printers, Memories
  <1>2. Live(v) /\ SameDriver(v.d, w.d) /\ v.d.DLState = w.d.DLState /\ v.p = p
    <2>1. v = Send(w, p)
      OBVIOUS
    <2> HIDE DEF p
    <2>2. /\ Live(Send(w, p)) /\ SameDriver(Send(w, p).d, w.d)
          /\ Send(w, p).d.DLState = w.d.DLState /\ Send(w, p).p = p
      BY <1>1, SendSame
    <2> QED
      BY <2>1, <2>2
  <1> HIDE DEF p
  <1>3. /\ v.d.fh = w.d.fh /\ v.d.FillMode = w.d.FillMode /\ v.d.FillColor = w.d.FillColor
        /\ v.d.HatchColor = w.d.HatchColor /\ v.d.rgbPat = w.d.rgbPat
        /\ v.d.pen = w.d.pen /\ v.d.fPenSelected = w.d.fPenSelected
        /\ v.d.lidFont = w.d.lidFont /\ v.d.slots = w.d.slots /\ v.d.DLState = w.d.DLState
        /\ v.d.fIsClipped = w.d.fIsClipped /\ v.d.PathLevel = w.d.PathLevel
    BY <1>2 DEF SameDriver, SameBeliefs
  <1> QED
    BY <1>1, <1>2, <1>3 DEF KeepsAllButFill, PenState, FontState, SlotState, ProcState, ClipState,
                            JobState


\* SelectBrush leaves in the printer what fills as the brush does; only a pattern may
\* be another, after a bitmap.
LEMMA SelectBrushIs ==
  ASSUME NEW w, Live(w), NEW brush \in Brushes, NEW dm \in DrawModes,
         NEW v, v = SelectBrush(w, brush, dm), FillOK(w.d, w.p.vm), ProcsOK(w.d, w.p.vm)
  PROVE  /\ Live(v) /\ KeepsAllButFill(v, w) /\ FillOK(v.d, v.p.vm)
         /\ brush.style = "hollow" <=> v.d.FillMode = FM_NONE
         /\ brush.style # "hollow" =>
              /\ FillPaint(v.p) = AskedFill(brush, dm)
              /\ TilePaint(v.p) = brush.tile
                   \/ (v.p.vm.fm.over = "pattern" /\ "UNPACK" \in v.p.vm.procs)
  <1>1. CASE brush.style = "hollow"
    <2>1. v = [w EXCEPT !.d.FillMode = FM_NONE]
      BY <1>1 DEF SelectBrush
    <2>2. FM_NONE \in Modes /\ FM_NONE.over = None
      BY DEF FM_NONE, Modes, Overs
    <2> DEFINE d == [w.d EXCEPT !.FillMode = FM_NONE]
    <2>3. /\ d \in Drivers /\ d.fh = w.d.fh /\ d.FillMode = FM_NONE
          /\ d.FillColor = w.d.FillColor /\ d.HatchColor = w.d.HatchColor
          /\ d.rgbPat = w.d.rgbPat
          /\ d.pen = w.d.pen /\ d.fPenSelected = w.d.fPenSelected
          /\ d.lidFont = w.d.lidFont /\ d.slots = w.d.slots /\ d.DLState = w.d.DLState
          /\ d.fIsClipped = w.d.fIsClipped /\ d.PathLevel = w.d.PathLevel
      BY <2>2 DEF Live, Worlds, Drivers
    <2> HIDE DEF d
    <2>4. v = [w EXCEPT !.d = d]
      BY <2>1 DEF d, Live, Worlds
    <2>5. Live(v) /\ v.d = d /\ v.p = w.p
      BY <2>3, <2>4 DEF Live, Worlds
    <2>6. KeepsAllButFill(v, w)
      BY <2>3, <2>5 DEF KeepsAllButFill, PenState, FontState, SlotState, ProcState, ClipState,
                        JobState
    <2>7. FillOK(v.d, v.p.vm)
      BY <2>2, <2>3, <2>5, GDIAssumption DEF FillOK
    <2> QED
      BY <1>1, <2>3, <2>5, <2>6, <2>7
  <1>2. CASE brush.style # "hollow"
    <2> DEFINE fm    == FillModeOf(brush, dm)
               old   == w.d.FillMode
               color == FillColorOf(brush, dm)
               over  == HatPatColor(brush, dm)
               tile  == brush.tile
               w1 == IF fm.fill /\ (~old.fill \/ w.d.FillColor # color)
                     THEN SendFillColor(w, color) ELSE w
               w2 == IF fm.over # None /\ (old.over = None \/ w.d.HatchColor # over)
                     THEN [Send(w1, [w1.p EXCEPT !.vm.hC = over]) EXCEPT !.d.HatchColor = over]
                     ELSE w1
               w3 == IF old # fm THEN Send(w2, [w2.p EXCEPT !.vm.fm = fm]) ELSE w2
               w4 == IF fm.over = "pattern" /\ (old.over # "pattern" \/ w.d.rgbPat # tile)
                     THEN SendPattern(w3, tile) ELSE w3
               d == [w4.d EXCEPT !.FillMode = fm]
    <2>1. v = [w4 EXCEPT !.d.FillMode = fm]
      BY <1>2 DEF SelectBrush
    <2>2. AskedFill(brush, dm) = [color |-> IF fm.fill THEN color ELSE None,
                                  over |-> IF fm.over # None THEN over ELSE None]
      BY <1>2 DEF AskedFill
    <2>3. /\ fm \in Modes /\ fm # FM_NONE /\ color \in Tones /\ over \in Tones
          /\ fm.over = "pattern" \/ fm.over = tile
      BY <1>2, FillModeOfIs
    <2>4. tile \in Tones
      BY GDIAssumption
    <2> HIDE DEF fm, color, over, tile
    <2>5. /\ Live(w1) /\ KeepsAllButFill(w1, w) /\ w1.p.vm.fC = w1.d.FillColor
          /\ fm.fill => w1.p.vm.fC = color
          /\ w1.p.vm.hC = w.p.vm.hC /\ w1.p.vm.fm = w.p.vm.fm /\ w1.p.vm.pat = w.p.vm.pat
          /\ w1.d.FillMode = old /\ w1.d.HatchColor = w.d.HatchColor /\ w1.d.rgbPat = w.d.rgbPat
      BY <2>3, SendFillColorIs DEF FillOK, KeepsAllButFill
    <2> HIDE DEF w1
    <2>6. /\ Live(w2) /\ KeepsAllButFill(w2, w1)
          /\ fm.over # None => w2.p.vm.hC = over /\ w2.d.HatchColor = over
          /\ w2.p.vm.fC = w1.p.vm.fC /\ w2.p.vm.fm = w1.p.vm.fm /\ w2.p.vm.pat = w1.p.vm.pat
          /\ w2.d.FillColor = w1.d.FillColor /\ w2.d.FillMode = old /\ w2.d.rgbPat = w1.d.rgbPat
      <3> DEFINE u == [Send(w1, [w1.p EXCEPT !.vm.hC = over]) EXCEPT !.d.HatchColor = over]
      <3>1. w2 = IF fm.over # None /\ (old.over = None \/ w.d.HatchColor # over) THEN u ELSE w1
        OBVIOUS
      <3>5. u = SendHatColor(w1, over)
        BY DEF SendHatColor
      <3> HIDE DEF u
      <3>2. /\ Live(u) /\ KeepsAllButFill(u, w1) /\ u.p.vm.hC = over /\ u.d.HatchColor = over
            /\ u.p.vm.fC = w1.p.vm.fC /\ u.p.vm.fm = w1.p.vm.fm /\ u.p.vm.pat = w1.p.vm.pat
            /\ u.d.FillColor = w1.d.FillColor /\ u.d.FillMode = old /\ u.d.rgbPat = w1.d.rgbPat
        BY <2>3, <2>5, <3>5, SendHatColorIs
      <3>3. KeepsAllButFill(w1, w1)
        BY DEF KeepsAllButFill
      <3>4. old.over # None => w.p.vm.hC = w.d.HatchColor
        BY DEF FillOK
      <3> HIDE DEF w2, old
      <3> QED
        BY <2>5, <3>1, <3>2, <3>3, <3>4
    <2> HIDE DEF w2
    <2>7. /\ Live(w3) /\ KeepsAllButFill(w3, w2) /\ w3.p.vm.fm = fm
          /\ w3.p.vm.hC = w2.p.vm.hC /\ w3.p.vm.fC = w2.p.vm.fC /\ w3.p.vm.pat = w2.p.vm.pat
          /\ w3.d.FillColor = w2.d.FillColor /\ w3.d.FillMode = old
          /\ w3.d.HatchColor = w2.d.HatchColor /\ w3.d.rgbPat = w2.d.rgbPat
      BY <2>3, <2>5, <2>6, SendModeIs DEF FillOK, KeepsAllButFill
    <2> HIDE DEF w3
    <2>8. /\ w3.p.vm.p = w.p.vm.p /\ w3.p.vm.procs = w.p.vm.procs
      BY <2>5, <2>6, <2>7 DEF KeepsAllButFill, ProcState
    <2>9. /\ Live(w4) /\ KeepsAllButFill(w4, w3) /\ w4.p.vm.fm = w3.p.vm.fm
          /\ w4.p.vm.hC = w3.p.vm.hC /\ w4.p.vm.fC = w3.p.vm.fC
          /\ w4.d.FillColor = w3.d.FillColor /\ w4.d.HatchColor = w3.d.HatchColor
          /\ fm.over = "pattern" =>
               w4.d.rgbPat = tile /\ (w4.p.vm.pat = tile \/ "UNPACK" \in w.p.vm.procs)
      BY <2>4, <2>5, <2>6, <2>7, <2>8, SendPatternIs DEF FillOK, ProcsOK, KeepsAllButFill
    <2> HIDE DEF w4
    <2>10. /\ d \in Drivers /\ d.fh = w4.d.fh /\ d.FillMode = fm
           /\ d.FillColor = w4.d.FillColor /\ d.HatchColor = w4.d.HatchColor
           /\ d.rgbPat = w4.d.rgbPat
           /\ d.pen = w4.d.pen /\ d.fPenSelected = w4.d.fPenSelected
           /\ d.lidFont = w4.d.lidFont /\ d.slots = w4.d.slots /\ d.DLState = w4.d.DLState
           /\ d.fIsClipped = w4.d.fIsClipped /\ d.PathLevel = w4.d.PathLevel
      BY <2>3, <2>9 DEF Live, Worlds, Drivers
    <2>11. v = [w4 EXCEPT !.d = d]
      BY <2>1, <2>9 DEF Live, Worlds
    <2> HIDE DEF d
    <2>12. Live(v) /\ v.d = d /\ v.p = w4.p
      BY <2>9, <2>10, <2>11 DEF Live, Worlds
    <2>13. KeepsAllButFill(v, w4)
      BY <2>10, <2>12 DEF KeepsAllButFill, PenState, FontState, SlotState, ProcState, ClipState,
                          JobState
    <2>14. KeepsAllButFill(v, w)
      BY <2>5, <2>6, <2>7, <2>9, <2>13 DEF KeepsAllButFill
    <2>15. v.p.vm.procs = w.p.vm.procs
      BY <2>14 DEF KeepsAllButFill, ProcState
    <2>16. /\ v.p.vm.fC = v.d.FillColor /\ v.p.vm.fm = fm /\ v.d.FillMode = fm
           /\ fm.fill => v.p.vm.fC = color
           /\ fm.over # None => v.p.vm.hC = over /\ v.d.HatchColor = over
           /\ fm.over = "pattern" =>
                v.d.rgbPat = tile /\ (v.p.vm.pat = tile \/ "UNPACK" \in v.p.vm.procs)
      BY <2>5, <2>6, <2>7, <2>9, <2>10, <2>12, <2>15
    <2>17. FillOK(v.d, v.p.vm)
      BY <2>16 DEF FillOK
    <2>18. FillPaint(v.p) = AskedFill(brush, dm)
      BY <2>2, <2>16 DEF FillPaint
    <2>19. TilePaint(v.p) = tile \/ (v.p.vm.fm.over = "pattern" /\ "UNPACK" \in v.p.vm.procs)
      BY <2>3, <2>16 DEF TilePaint
    <2> QED
      BY <1>2, <2>3, <2>12, <2>14, <2>16, <2>17, <2>18, <2>19 DEF tile
  <1> QED
    BY <1>1, <1>2


(***************************************************************************)
(* Clip boxes: a is w inside a box.  The grestore takes everything back.   *)
(***************************************************************************)
InBox(a, w) ==
  /\ Live(a) /\ Live(w)
  /\ SameBeliefs(a.d, w.d) /\ a.d.DLState = w.d.DLState /\ a.d.fIsClipped
  /\ a.p.vm = w.p.vm /\ a.p.marks = w.p.marks
  /\ a.p.gs = [w.p.gs EXCEPT !.clip = [box |-> TRUE, path |-> w.p.gs.clip.path]]
  /\ a.p.saved = Append(w.p.saved, w.p.gs)

\* Whatever boxes come and go, they change the graphics state only.
Touched(v, w) ==
  /\ Live(v) /\ Live(w) /\ SameBeliefs(v.d, w.d) /\ v.d.DLState = w.d.DLState
  /\ w.d.fDirty => v.d.fDirty
  /\ v.p.vm = w.p.vm /\ v.p.marks = w.p.marks

\* What is left without the box: all that was there, unless a box was left behind before.
Left(v, w, stray) ==
  /\ Touched(v, w) /\ v.d.fDirty
  /\ stray \/ (v.d.fIsClipped = w.d.fIsClipped /\ v.p = w.p)

Box(w)   == ClipBox(w, TRUE)
Unbox(w) == ClipBox(w, FALSE)

LEMMA ClipIs ==
  ASSUME NEW c \in ClipTypes, NEW box \in BOOLEAN
  PROVE  /\ [c EXCEPT !.box = box] = [box |-> box, path |-> c.path]
         /\ [box |-> box, path |-> c.path] \in ClipTypes
         /\ [c EXCEPT !.path = box] = [box |-> c.box, path |-> box]
         /\ [box |-> c.box, path |-> box] \in ClipTypes
  BY DEF ClipTypes

LEMMA BoxIs ==
  ASSUME NEW w, Live(w), NEW a, a = Box(w)
  PROVE  InBox(a, w)
  <1> DEFINE q == GSave(w.p)
             p == [q EXCEPT !.gs.clip.box = TRUE]
             w1 == Send(w, p)
             d == [w1.d EXCEPT !.fIsClipped = TRUE]
  <1>1. a = [w1 EXCEPT !.d.fIsClipped = TRUE]
    BY DEF Box, ClipBox
  <1>2. /\ q \in Printers /\ q.vm = w.p.vm /\ q.marks = w.p.marks /\ q.gs = w.p.gs
        /\ q.saved = Append(w.p.saved, w.p.gs)
    <2>1. /\ w.p \in Printers /\ w.p.saved \in Seq(States) /\ w.p.gs \in States
      BY DEF Live, Worlds, Printers
    <2>2. q = [w.p EXCEPT !.saved = Append(w.p.saved, w.p.gs)]
      BY <2>1 DEF GSave, Printers
    <2>3. Append(w.p.saved, w.p.gs) \in Seq(States)
      BY <2>1
    <2> HIDE DEF q
    <2> QED
      BY <2>1, <2>2, <2>3 DEF Printers
  <1> HIDE DEF q
  <1>3. /\ p \in Printers /\ p.vm = w.p.vm /\ p.marks = w.p.marks
        /\ p.gs = [w.p.gs EXCEPT !.clip = [box |-> TRUE, path |-> w.p.gs.clip.path]]
        /\ p.saved = Append(w.p.saved, w.p.gs)
    <2> DEFINE c == [box |-> TRUE, path |-> w.p.gs.clip.path]
               g == [w.p.gs EXCEPT !.clip = c]
    <2>1. w.p.gs \in States /\ w.p.gs.clip \in ClipTypes
      BY DEF Live, Worlds, Printers, States
    <2>2. c \in ClipTypes /\ [w.p.gs.clip EXCEPT !.box = TRUE] = c
      BY <2>1, ClipIs
    <2>3. g = [w.p.gs EXCEPT !.clip.box = TRUE]
      BY <2>1, <2>2 DEF States
    <2> HIDE DEF c
    <2>4. g \in States
      BY <2>1, <2>2 DEF States
    <2>5. p = [q EXCEPT !.gs = g]
      BY <1>2, <2>3 DEF Printers
    <2> HIDE DEF p, g
    <2>6. /\ p \in Printers /\ p.vm = w.p.vm /\ p.marks = w.p.marks /\ p.gs = g
          /\ p.saved = Append(w.p.saved, w.p.gs)
      BY <1>2, <2>4, <2>5 DEF Printers
    <2> QED
      BY <2>6 DEF c, g
  <1> HIDE DEF p
  <1>4. Live(w1) /\ SameDriver(w1.d, w.d) /\ w1.d.DLState = w.d.DLState /\ w1.p = p
    BY <1>3, SendSame
  <1>5. a = [w1 EXCEPT !.d = d]
    BY <1>1, <1>4 DEF Live, Worlds
  <1> HIDE DEF w1
  <1>6. /\ d \in Drivers /\ d.fh
        /\ SameBeliefs(d, w.d) /\ d.DLState = w.d.DLState /\ d.fIsClipped
    BY <1>4 DEF Live, Worlds, Drivers, SameBeliefs, SameDriver
  <1> HIDE DEF d
  <1>7. Live(a) /\ a.d = d /\ a.p = p
    BY <1>4, <1>5, <1>6 DEF Live, Worlds
  <1> QED
    BY <1>3, <1>6, <1>7 DEF InBox

LEMMA UnboxIs ==
  ASSUME NEW w, NEW a, InBox(a, w), ~w.d.fIsClipped, NEW v, v = Unbox(a), NEW stray
  PROVE  Left(v, w, stray)
  <1> DEFINE s == w.p.saved
             g == w.p.gs
             p == GRestore(a.p)
             w1 == Send(a, p)
             d == [w1.d EXCEPT !.fIsClipped = FALSE]
  <1>1. Live(a) /\ Live(w) /\ a.d.fIsClipped
    BY DEF InBox, Live, Worlds, Drivers
  <1>2. v = [w1 EXCEPT !.d.fIsClipped = FALSE]
    BY <1>1 DEF Unbox, ClipBox
  <1>3. s \in Seq(States) /\ g \in States /\ a.p.saved = Append(s, g) /\ a.p.vm = w.p.vm
        /\ a.p.marks = w.p.marks /\ a.p \in Printers /\ w.p \in Printers
    BY <1>1 DEF InBox, Live, Worlds, Printers
  <1>4. p = w.p
    <2>1. p = [a.p EXCEPT !.gs = a.p.saved[Len(a.p.saved)],
                          !.saved = SubSeq(a.p.saved, 1, Len(a.p.saved) - 1)]
      BY <1>3 DEF GRestore, Printers
    <2> HIDE DEF p, s, g
    <2>2. a.p.saved[Len(a.p.saved)] = g /\ SubSeq(a.p.saved, 1, Len(a.p.saved) - 1) = s
      BY <1>3
    <2>3. p = [a.p EXCEPT !.gs = g, !.saved = s]
      BY <2>1, <2>2
    <2> QED
      BY <1>3, <2>3 DEF Printers, s, g
  <1> HIDE DEF p
  <1>5. /\ Live(w1) /\ SameDriver(w1.d, a.d) /\ w1.d.DLState = a.d.DLState
        /\ w1.d.fDirty /\ w1.p = p
    BY <1>1, <1>3, <1>4, SendSame
  <1>6. v = [w1 EXCEPT !.d = d]
    BY <1>2, <1>5 DEF Live, Worlds
  <1> HIDE DEF w1
  <1>7. /\ w1.d \in Drivers /\ SameBeliefs(w1.d, w.d) /\ w1.d.DLState = w.d.DLState
        /\ w1.d.fDirty /\ w1.d.fh
    BY <1>1, <1>5 DEF Live, Worlds, SameDriver, SameBeliefs, InBox
  <1>8. /\ d \in Drivers /\ d.fh /\ SameDriver(d, w.d) /\ d.DLState = w.d.DLState
        /\ d.fDirty
    BY <1>1, <1>7 DEF Live, Worlds, Drivers, SameBeliefs, SameDriver
  <1> HIDE DEF d
  <1> QED
    BY <1>1, <1>4, <1>5, <1>6, <1>8 DEF Live, Worlds, Left, Touched, SameDriver

\* Saved and restored graphics states are graphics states.
LEMMA GSaveIs ==
  ASSUME NEW p \in Printers, NEW q, q = GSave(p)
  PROVE  /\ q \in Printers /\ q.vm = p.vm /\ q.marks = p.marks /\ q.gs = p.gs
         /\ q.saved = Append(p.saved, p.gs)
  <1> DEFINE new == Append(p.saved, p.gs)
  <1>1. p.saved \in Seq(States) /\ p.gs \in States
    BY DEF Printers
  <1>2. q = [p EXCEPT !.saved = new]
    BY DEF GSave
  <1>3. new \in Seq(States)
    BY <1>1
  <1> HIDE DEF new
  <1>4. q \in Printers /\ q.vm = p.vm /\ q.marks = p.marks /\ q.gs = p.gs /\ q.saved = new
    BY <1>2, <1>3 DEF Printers
  <1> QED
    BY <1>4 DEF new

LEMMA GRestoreIs ==
  ASSUME NEW p \in Printers, NEW q, q = GRestore(p)
  PROVE  q \in Printers /\ q.vm = p.vm /\ q.marks = p.marks
  <1>1. p.saved \in Seq(States) /\ Fresh.gs \in States
    BY FreshIs DEF Printers
  <1>2. CASE p.saved = <<>>
    <2> DEFINE g == Fresh.gs
    <2>1. q = [p EXCEPT !.gs = g]
      BY <1>2 DEF GRestore
    <2> HIDE DEF g
    <2> QED
      BY <1>1, <2>1 DEF Printers, g
  <1>3. CASE p.saved # <<>>
    <2> DEFINE n == Len(p.saved) - 1
               g == p.saved[Len(p.saved)]
               front == SubSeq(p.saved, 1, n)
    <2>1. q = [p EXCEPT !.gs = g, !.saved = front]
      BY <1>3 DEF GRestore
    <2>2. n + 1 = Len(p.saved) /\ front \in Seq(States) /\ p.saved[n + 1] \in States
      BY <1>1, <1>3, FrontIs
    <2>3. g \in States
      BY <2>2
    <2> HIDE DEF n, g, front
    <2> QED
      BY <2>1, <2>2, <2>3 DEF Printers
  <1> QED
    BY <1>2, <1>3

LEMMA TouchedSend ==
  ASSUME NEW w, Live(w), NEW p \in Printers, p.vm = w.p.vm, p.marks = w.p.marks
  PROVE  Touched(Send(w, p), w) /\ Send(w, p).d.fDirty /\ Send(w, p).p = p
         /\ Send(w, p).d.fIsClipped = w.d.fIsClipped
  <1> DEFINE v == Send(w, p)
  <1>1. /\ Live(v) /\ SameDriver(v.d, w.d) /\ v.d.DLState = w.d.DLState /\ v.d.fDirty /\ v.p = p
    BY SendSame
  <1> HIDE DEF v
  <1>2. Touched(v, w) /\ v.d.fDirty /\ v.p = p /\ v.d.fIsClipped = w.d.fIsClipped
    BY <1>1 DEF Touched, SameDriver
  <1> QED
    BY <1>2 DEF v

LEMMA ClipBoxTouches ==
  ASSUME NEW w, Live(w), NEW box \in BOOLEAN, NEW v, v = ClipBox(w, box)
  PROVE  Touched(v, w) /\ (~box => ~v.d.fIsClipped)
  <1>1. w.p \in Printers /\ w.d \in Drivers
    BY DEF Live, Worlds
  <1>2. CASE box
    <2>1. v = Box(w)
      BY <1>2 DEF Box, ClipBox
    <2>2. InBox(v, w)
      BY <2>1, BoxIs
    <2>3. w.d.fDirty => v.d.fDirty
      <3> DEFINE p == [GSave(w.p) EXCEPT !.gs.clip.box = TRUE]
                 u == Send(w, p)
      <3>1. v = [u EXCEPT !.d.fIsClipped = TRUE] /\ u.d = [w.d EXCEPT !.fDirty = TRUE]
        BY <2>1 DEF Box, ClipBox, Send
      <3> HIDE DEF p
      <3>3. u = [d |-> [w.d EXCEPT !.fDirty = TRUE], p |-> u.p]
        BY DEF Send
      <3> HIDE DEF u
      <3>2. v.d = [u.d EXCEPT !.fIsClipped = TRUE]
        BY <3>1, <3>3
      <3> QED
        BY <1>1, <3>1, <3>2 DEF Drivers
    <2> QED
      BY <1>2, <2>2, <2>3 DEF InBox, Touched
  <1>3. CASE ~box /\ ~w.d.fIsClipped
    <2>1. v = w
      BY <1>3 DEF ClipBox
    <2> QED
      BY <1>3, <2>1 DEF Touched, SameBeliefs
  <1>4. CASE ~box /\ w.d.fIsClipped
    <2> DEFINE p == GRestore(w.p)
               u == Send(w, p)
               d == [u.d EXCEPT !.fIsClipped = FALSE]
    <2>1. v = [u EXCEPT !.d.fIsClipped = FALSE]
      BY <1>4 DEF ClipBox
    <2>2. p \in Printers /\ p.vm = w.p.vm /\ p.marks = w.p.marks
      BY <1>1, GRestoreIs
    <2> HIDE DEF p
    <2>3. Touched(u, w) /\ u.d.fDirty /\ u.p = p
      BY <2>2, TouchedSend
    <2> HIDE DEF u
    <2>4. v = [u EXCEPT !.d = d]
      BY <2>1, <2>3 DEF Touched, Live, Worlds
    <2>5. /\ d \in Drivers /\ d.fh /\ SameBeliefs(d, u.d) /\ d.DLState = u.d.DLState
          /\ d.fDirty /\ ~d.fIsClipped
      BY <2>3 DEF Touched, Live, Worlds, Drivers, SameBeliefs
    <2> HIDE DEF d
    <2>6. Live(v) /\ v.d = d /\ v.p = u.p
      BY <2>3, <2>4, <2>5 DEF Touched, Live, Worlds
    <2> QED
      BY <2>3, <2>5, <2>6 DEF Touched, SameBeliefs
  <1> QED
    BY <1>2, <1>3, <1>4

LEMMA TouchedOn ==
  ASSUME NEW u, NEW v, NEW w, Touched(u, v), Touched(v, w)
  PROVE  Touched(u, w)
  BY DEF Touched, SameBeliefs

LEMMA SendBoxed ==
  ASSUME NEW w, NEW a, InBox(a, w), NEW v, v = Send(a, a.p)
  PROVE  InBox(v, w)
  <1>1. Live(a) /\ Live(w) /\ a.p \in Printers
    BY DEF InBox, Live, Worlds
  <1>2. Live(v) /\ v.d = [a.d EXCEPT !.fDirty = TRUE] /\ v.p = a.p
    BY <1>1, SendIs
  <1>3. SameBeliefs(v.d, a.d) /\ v.d.DLState = a.d.DLState /\ v.d.fIsClipped = a.d.fIsClipped
    BY <1>1, <1>2 DEF Live, Worlds, Drivers, SameBeliefs
  <1> QED
    BY <1>1, <1>2, <1>3 DEF InBox, SameBeliefs


(***************************************************************************)
(* Procedures.  They are there when they are believed to be.               *)
(***************************************************************************)
ProcsVM(vm, DLState, procs) ==
  IF procs \subseteq DLState THEN vm
  ELSE [vm EXCEPT !.procs = vm.procs \cup procs,
                  !.p = IF "UNPACK" \in procs \ DLState THEN "byte" ELSE vm.p]

LEMMA ProcsIs ==
  ASSUME NEW w, Live(w), NEW procs \in SUBSET Procedures, NEW v, v = Procs(w, procs),
         ProcsOK(w.d, w.p.vm)
  PROVE  /\ Live(v) /\ SameDriver(v.d, w.d) /\ SameMemory(v.p.vm, w.p.vm)
         /\ v.p.gs = w.p.gs /\ v.p.saved = w.p.saved /\ v.p.marks = w.p.marks
         /\ w.p.vm.procs \subseteq v.p.vm.procs /\ procs \subseteq v.p.vm.procs
         /\ ProcsOK(v.d, v.p.vm)
         /\ v.d.DLState = w.d.DLState \cup procs
         /\ v.p.vm = ProcsVM(w.p.vm, w.d.DLState, procs)
  <1> DEFINE D == w.d.DLState \cup procs
             Q == w.p.vm.procs \cup procs
             which == IF "UNPACK" \in procs \ w.d.DLState THEN "byte" ELSE w.p.vm.p
             p == [w.p EXCEPT !.vm.procs = Q, !.vm.p = which]
             w1 == Send(w, p)
             d == [w1.d EXCEPT !.DLState = D]
  <1>1. /\ D \in SUBSET Procedures /\ Q \in SUBSET Procedures /\ which \in {"proc", "byte"}
        /\ which = "proc" \/ "UNPACK" \in Q
    BY DEF Live, Worlds, Drivers, Printers, Memories, ProcsOK
  <1>2. CASE procs \subseteq w.d.DLState
    BY <1>2 DEF Procs, ProcsOK, ProcsVM, SameBeliefs, SameDriver, SameMemory
  <1>3. CASE ~(procs \subseteq w.d.DLState)
    <2>1. p = [w.p EXCEPT !.vm.procs = w.p.vm.procs \cup procs,
                          !.vm.p = IF "UNPACK" \in procs \ w.d.DLState THEN "byte" ELSE w.p.vm.p]
      OBVIOUS
    <2>2. v = [w1 EXCEPT !.d.DLState = w1.d.DLState \cup procs]
      BY <1>3, <2>1 DEF Procs, Live, Worlds, Printers
    <2> HIDE DEF D, Q, which
    <2>3. /\ p \in Printers /\ p.gs = w.p.gs /\ p.saved = w.p.saved /\ p.marks = w.p.marks
          /\ p.vm.procs = Q /\ p.vm.p = which /\ SameMemory(p.vm, w.p.vm)
          /\ p.vm = [w.p.vm EXCEPT !.procs = Q, !.p = which]
      BY <1>1 DEF Live, Worlds, Printers, Memories, SameMemory
    <2> HIDE DEF p
    <2>4. Live(w1) /\ SameDriver(w1.d, w.d) /\ w1.d.DLState = w.d.DLState /\ w1.p = p
      BY <2>3, SendSame
    <2> HIDE DEF w1
    <2>5. w1.d \in Drivers /\ SameDriver(w1.d, w.d) /\ w1.d.DLState \cup procs = D
          /\ w1.d.fh
      BY <2>4 DEF Live, Worlds, D
    <2>6. v = [w1 EXCEPT !.d = d]
      BY <2>2, <2>4, <2>5 DEF Live, Worlds
    <2>7. d \in Drivers /\ SameDriver(d, w.d) /\ d.DLState = D /\ d.fh
      BY <1>1, <2>5 DEF Drivers, SameBeliefs, SameDriver
    <2> HIDE DEF d
    <2>8. Live(v) /\ v.d = d /\ v.p = p
      BY <2>3, <2>4, <2>6, <2>7 DEF Live, Worlds
    <2>9. D \subseteq Q /\ w.p.vm.procs \subseteq Q /\ procs \subseteq Q
      BY DEF ProcsOK, D, Q
    <2>10. p.vm = ProcsVM(w.p.vm, w.d.DLState, procs)
      BY <1>3, <2>3 DEF ProcsVM, Q, which
    <2> QED
      BY <1>1, <2>3, <2>7, <2>8, <2>9, <2>10 DEF ProcsOK, D
  <1> QED
    BY <1>2, <1>3

\* The procedures do not mind the box.
LEMMA ProcsBoxed ==
  ASSUME NEW w, NEW a, InBox(a, w), NEW procs \in SUBSET Procedures,
         NEW v, v = Procs(a, procs), NEW u, u = Procs(w, procs),
         ProcsOK(w.d, w.p.vm)
  PROVE  InBox(v, u)
  <1>1. /\ Live(a) /\ Live(w) /\ SameBeliefs(a.d, w.d) /\ a.d.DLState = w.d.DLState
        /\ a.d.fIsClipped /\ a.p.vm = w.p.vm /\ a.p.marks = w.p.marks
        /\ a.p.gs = [w.p.gs EXCEPT !.clip = [box |-> TRUE, path |-> w.p.gs.clip.path]]
        /\ a.p.saved = Append(w.p.saved, w.p.gs)
    BY DEF InBox
  <1>2. ProcsOK(a.d, a.p.vm)
    BY <1>1 DEF ProcsOK
  <1>3. /\ Live(v) /\ SameDriver(v.d, a.d) /\ v.p.gs = a.p.gs /\ v.p.saved = a.p.saved
        /\ v.p.marks = a.p.marks /\ v.d.DLState = a.d.DLState \cup procs
        /\ v.p.vm = ProcsVM(a.p.vm, a.d.DLState, procs)
    BY <1>1, <1>2, ProcsIs
  <1>4. /\ Live(u) /\ SameDriver(u.d, w.d) /\ u.p.gs = w.p.gs /\ u.p.saved = w.p.saved
        /\ u.p.marks = w.p.marks /\ u.d.DLState = w.d.DLState \cup procs
        /\ u.p.vm = ProcsVM(w.p.vm, w.d.DLState, procs)
    BY <1>1, ProcsIs
  <1>5. SameBeliefs(v.d, u.d)
    BY <1>1, <1>3, <1>4 DEF SameDriver, SameBeliefs
  <1> QED
    BY <1>1, <1>3, <1>4, <1>5 DEF InBox, SameDriver


(***************************************************************************)
(* Fonts.  A soft font that has a slot is in the printer once, if it could *)
(* be sent.                                                                *)
(***************************************************************************)
KeepsAllButFont(v, w) ==
  /\ FillState(v) = FillState(w) /\ PenState(v) = PenState(w) /\ ProcState(v) = ProcState(w)
  /\ ClipState(v) = ClipState(w) /\ JobState(v) = JobState(w)

\* The fonts that could not be read.
Unread(U, font, sent) == IF sent THEN U ELSE U \cup {font.iFont}

LEMMA LoadIs ==
  ASSUME NEW w, Live(w), NEW font \in Fonts, NEW sent \in BOOLEAN,
         NEW U \in SUBSET SoftFonts, SlotsOK(w.d, w.p.vm, U),
         Len(w.d.slots) <= MAXSOFTFONTS,
         ~font.soft \/ Known(w.d, font) \/ Len(w.d.slots) < MAXSOFTFONTS,
         sent \/ (font.soft /\ ~Known(w.d, font)),
         NEW V, V = Unread(U, font, sent),
         NEW v, v = DownLineLoadFont(w, font, sent)
  PROVE  /\ Live(v) /\ KeepsAllButFont(v, w) /\ FontState(v) = FontState(w)
         /\ V \in SUBSET SoftFonts
         /\ SlotsOK(v.d, v.p.vm, V) /\ Len(v.d.slots) <= MAXSOFTFONTS
         /\ ~font.soft \/ v.p.vm.fonts[font.iFont] > 0 \/ font.iFont \in V
  <1> DEFINE i == font.iFont
             Slots == w.d.slots
  <1>1. /\ w.d \in Drivers /\ w.p \in Printers /\ w.d.fh
        /\ Slots \in Seq(SoftFonts) /\ w.p.vm.fonts \in [SoftFonts -> 0 .. 2]
        /\ Len(Slots) \in Nat
    BY DEF Live, Worlds, Drivers, Printers, Memories
  <1>2. font.soft => i \in SoftFonts
    BY DEF SoftFonts
  <1>3. CASE ~font.soft \/ Known(w.d, font)
    <2>1. v = w
      BY <1>3 DEF DownLineLoadFont
    <2>2. V = U
      BY <1>3 DEF Unread
    <2>3. font.soft => HasSlot(w.d, i)
      BY <1>3 DEF Known, HasSlot
    <2>4. font.soft => w.p.vm.fonts[i] = 1 \/ i \in U
      BY <1>2, <2>3 DEF SlotsOK
    <2>5. KeepsAllButFont(v, w) /\ FontState(v) = FontState(w)
      BY <2>1 DEF KeepsAllButFont
    <2> QED
      BY <2>1, <2>2, <2>4, <2>5
  <1>4. CASE font.soft /\ ~Known(w.d, font)
    <2> DEFINE once == IF sent THEN 1 ELSE 0
               F == [w.p.vm.fonts EXCEPT ![i] = once]
               p == [w.p EXCEPT !.vm.fonts = F]
               w1 == Send(w, p)
               news == Append(Slots, i)
               d == [w1.d EXCEPT !.slots = news]
    <2>0. ~HasSlot(w.d, i) /\ i \notin U
      BY <1>4 DEF SlotsOK, Known, HasSlot
    <2>1. w.p.vm.fonts[i] = 0
      BY <1>2, <1>4, <2>0 DEF SlotsOK
    <2>16. once \in 0 .. 1 /\ once = IF sent /\ w.p.vm.fonts[i] < 2 THEN w.p.vm.fonts[i] + 1
                                     ELSE w.p.vm.fonts[i]
      BY <2>1
    <2>2. p = [w.p EXCEPT !.vm.fonts[i] = IF sent /\ w.p.vm.fonts[i] < 2 THEN w.p.vm.fonts[i] + 1
                                          ELSE w.p.vm.fonts[i]]
      <3> HIDE DEF once
      <3> QED
        BY <1>1, <2>16 DEF Printers, Memories
    <2>3. v = [w1 EXCEPT !.d.slots = Append(w1.d.slots, i)]
      <3> HIDE DEF once, F
      <3> QED
        BY <1>4, <2>2 DEF DownLineLoadFont
    <2> HIDE DEF once
    <2>4. /\ F \in [SoftFonts -> 0 .. 2] /\ F[i] = once
          /\ \A f \in SoftFonts : f # i => F[f] = w.p.vm.fonts[f]
      BY <1>1, <1>2, <1>4, <2>16
    <2>17. /\ V \in SUBSET SoftFonts /\ (i \notin V <=> sent)
           /\ \A f \in SoftFonts : f # i => (f \in V <=> f \in U)
           /\ \A f \in V : f \in U \/ f = i
      BY <1>2, <1>4, <2>0 DEF Unread
    <2>5. /\ news \in Seq(SoftFonts) /\ Len(news) = Len(Slots) + 1 /\ news[Len(Slots) + 1] = i
          /\ \A j \in 1 .. Len(Slots) : news[j] = Slots[j]
      BY <1>1, <1>2, <1>4
    <2> HIDE DEF F, i
    <2>6. /\ p \in Printers /\ p.gs = w.p.gs /\ p.saved = w.p.saved /\ p.marks = w.p.marks
          /\ p.vm.fonts = F /\ p.vm.fC = w.p.vm.fC /\ p.vm.hC = w.p.vm.hC
          /\ p.vm.pC = w.p.vm.pC /\ p.vm.PenW = w.p.vm.PenW /\ p.vm.fm = w.p.vm.fm
          /\ p.vm.pat = w.p.vm.pat /\ p.vm.p = w.p.vm.p /\ p.vm.procs = w.p.vm.procs
      BY <1>1, <2>4 DEF Printers, Memories
    <2> HIDE DEF p
    <2>7. Live(w1) /\ SameDriver(w1.d, w.d) /\ w1.d.DLState = w.d.DLState /\ w1.p = p
      BY <2>6, SendSame
    <2> HIDE DEF w1
    <2>8. w1.d.slots = Slots /\ w1.d \in Drivers /\ w1.d.fh
      BY <2>7 DEF SameDriver, SameBeliefs, Live, Worlds
    <2>9. v = [w1 EXCEPT !.d = d]
      BY <2>3, <2>7, <2>8 DEF Live, Worlds
    <2> HIDE DEF news
    <2>10. /\ d \in Drivers /\ d.slots = news /\ d.fh
           /\ d.FillMode = w.d.FillMode /\ d.FillColor = w.d.FillColor
           /\ d.HatchColor = w.d.HatchColor /\ d.rgbPat = w.d.rgbPat
           /\ d.pen = w.d.pen /\ d.fPenSelected = w.d.fPenSelected
           /\ d.lidFont = w.d.lidFont /\ d.DLState = w.d.DLState
           /\ d.fIsClipped = w.d.fIsClipped /\ d.PathLevel = w.d.PathLevel
      BY <2>5, <2>7, <2>8 DEF Drivers, SameDriver, SameBeliefs
    <2> HIDE DEF d
    <2>11. Live(v) /\ v.d = d /\ v.p = p
      BY <2>7, <2>9, <2>10 DEF Live, Worlds
    <2>12. KeepsAllButFont(v, w) /\ FontState(v) = FontState(w)
      BY <1>1, <2>6, <2>10, <2>11 DEF KeepsAllButFont, FillState, PenState, ProcState, ClipState,
                                      JobState, FontState
    <2>13. \A f : HasSlot(v.d, f) <=> HasSlot(w.d, f) \/ f = i
      <3>0. SUFFICES ASSUME NEW f PROVE HasSlot(v.d, f) <=> HasSlot(w.d, f) \/ f = i
        OBVIOUS
      <3>1. v.d.slots = news
        BY <2>10, <2>11
      <3>4. w.d.slots = Slots
        OBVIOUS
      <3> DEFINE n == Len(Slots)
      <3> HIDE DEF Slots
      <3>2. /\ n \in Nat /\ Len(news) = n + 1 /\ news[n + 1] = i
            /\ \A j \in 1 .. n : news[j] = Slots[j]
        BY <1>1, <2>5
      <3> HIDE DEF n
      <3>3. \A j : j \in 1 .. n + 1 <=> j \in 1 .. n \/ j = n + 1
        BY <3>2
      <3>5. (\E j \in 1 .. Len(news) : news[j] = f) <=> (\E j \in 1 .. n : Slots[j] = f) \/ f = i
        BY <3>2, <3>3
      <3> QED
        BY <3>1, <3>4, <3>5 DEF HasSlot, n
    <2>18. ASSUME NEW f \in SoftFonts
           PROVE  F[f] = IF HasSlot(v.d, f) /\ f \notin V THEN 1 ELSE 0
      <3>1. CASE f = i
        BY <2>4, <2>13, <2>17, <3>1 DEF once
      <3>2. CASE f # i
        BY <2>4, <2>13, <2>17, <3>2 DEF SlotsOK
      <3> QED
        BY <3>1, <3>2
    <2>14. SlotsOK(v.d, v.p.vm, V)
      BY <2>6, <2>10, <2>11, <2>13, <2>17, <2>18 DEF SlotsOK
    <2>15. Len(v.d.slots) <= MAXSOFTFONTS
      BY <1>1, <1>4, <2>5, <2>10, <2>11, BoundsAssumption
    <2> QED
      BY <2>4, <2>6, <2>11, <2>12, <2>14, <2>15, <2>17 DEF i, once
  <1> QED
    BY <1>3, <1>4


LEMMA SelectFontIs ==
  ASSUME NEW w, Live(w), NEW font \in Fonts, NEW sent \in BOOLEAN,
         NEW U \in SUBSET SoftFonts, SlotsOK(w.d, w.p.vm, U),
         Len(w.d.slots) <= MAXSOFTFONTS,
         ~font.soft \/ Known(w.d, font) \/ Len(w.d.slots) < MAXSOFTFONTS,
         sent \/ Loads(w.d, font),
         NEW V, V = Unread(U, font, sent),
         NEW v, v = SelectFont(w, font, sent)
  PROVE  /\ Live(v) /\ KeepsAllButFont(v, w)
         /\ V \in SUBSET SoftFonts
         /\ SlotsOK(v.d, v.p.vm, V) /\ Len(v.d.slots) <= MAXSOFTFONTS
         /\ v.d.lidFont = font.lid
         /\ FontOK(w.d, w.p.gs, U) => FontOK(v.d, v.p.gs, V)
  <1> DEFINE lid == font.lid
             d == [w.d EXCEPT !.lidFont = lid]
             w0 == [w EXCEPT !.d = d]
             w1 == DownLineLoadFont(w0, font, sent)
             there == ~font.soft \/ w1.p.vm.fonts[font.iFont] > 0
             name == IF there THEN lid ELSE "missing"
             p == [w1.p EXCEPT !.gs.font = name]
  <1>1. lid \in Tones /\ name \in Tones \cup {"missing"}
    <2>1. lid \in Tones
      BY GDIAssumption DEF Tones
    <2> HIDE DEF lid, there
    <2> QED
      BY <2>1
  <1>2. w0 = [w EXCEPT !.d.lidFont = lid]
    BY DEF Live, Worlds
  <1>3. CASE w.d.lidFont = lid
    <2>1. v = w /\ V = U
      BY <1>3 DEF SelectFont, Loads, Unread
    <2> QED
      BY <1>3, <2>1 DEF KeepsAllButFont
  <1>4. CASE w.d.lidFont # lid
    <2>1. v = Send(w1, p)
      BY <1>2, <1>4 DEF SelectFont
    <2> HIDE DEF lid, there, name
    <2>2. /\ d \in Drivers /\ d.lidFont = lid /\ d.fh
          /\ d.FillMode = w.d.FillMode /\ d.FillColor = w.d.FillColor
          /\ d.HatchColor = w.d.HatchColor /\ d.rgbPat = w.d.rgbPat
          /\ d.pen = w.d.pen /\ d.fPenSelected = w.d.fPenSelected
          /\ d.slots = w.d.slots /\ d.DLState = w.d.DLState
          /\ d.fIsClipped = w.d.fIsClipped /\ d.PathLevel = w.d.PathLevel
      BY <1>1 DEF Live, Worlds, Drivers
    <2> HIDE DEF d
    <2>3. Live(w0) /\ w0.d = d /\ w0.p = w.p
      BY <2>2 DEF Live, Worlds
    <2> HIDE DEF w0
    <2>4. /\ SlotsOK(w0.d, w0.p.vm, U) /\ Len(w0.d.slots) <= MAXSOFTFONTS
          /\ ~font.soft \/ Known(w0.d, font) \/ Len(w0.d.slots) < MAXSOFTFONTS
          /\ sent \/ (font.soft /\ ~Known(w0.d, font))
      BY <2>2, <2>3 DEF SlotsOK, HasSlot, Known, Loads
    <2>5. /\ Live(w1) /\ KeepsAllButFont(w1, w0) /\ FontState(w1) = FontState(w0)
          /\ V \in SUBSET SoftFonts
          /\ SlotsOK(w1.d, w1.p.vm, V) /\ Len(w1.d.slots) <= MAXSOFTFONTS
          /\ ~font.soft \/ w1.p.vm.fonts[font.iFont] > 0 \/ font.iFont \in V
      <3>1. w1 = DownLineLoadFont(w0, font, sent)
        OBVIOUS
      <3> HIDE DEF w1
      <3> QED
        BY <2>3, <2>4, <3>1, LoadIs
    <2>6. name = lid \/ LidMissing(lid, V)
      BY <2>5 DEF there, name, LidMissing, lid
    <2> HIDE DEF w1
    <2>7. v = Send(w1, p)
      BY <2>1
    <2>8. /\ p \in Printers /\ p.vm = w1.p.vm /\ p.saved = w1.p.saved /\ p.marks = w1.p.marks
          /\ p.gs.font = name /\ p.gs.dash = w1.p.gs.dash /\ p.gs.clip = w1.p.gs.clip
      BY <1>1, <2>5 DEF Live, Worlds, Printers, States
    <2> HIDE DEF p
    <2>9. Live(v) /\ SameDriver(v.d, w1.d) /\ v.d.DLState = w1.d.DLState /\ v.p = p
      <3> DEFINE u == Send(w1, p)
      <3>1. Live(u) /\ SameDriver(u.d, w1.d) /\ u.d.DLState = w1.d.DLState /\ u.p = p
        BY <2>5, <2>8, SendSame
      <3>2. v = u
        BY <2>7
      <3> HIDE DEF u
      <3> QED
        BY <3>1, <3>2
    <2>10. KeepsAllButFont(w0, w)
      BY <2>2, <2>3 DEF KeepsAllButFont, FillState, PenState, ProcState, ClipState, JobState, Live
    <2>11. KeepsAllButFont(v, w1)
      BY <2>8, <2>9 DEF KeepsAllButFont, FillState, PenState, ProcState, ClipState, JobState,
                        SameDriver, SameBeliefs
    <2>12. KeepsAllButFont(v, w)
      BY <2>5, <2>10, <2>11 DEF KeepsAllButFont
    <2>13. v.d.lidFont = lid
      BY <2>2, <2>3, <2>5, <2>9 DEF FontState, SameDriver, SameBeliefs
    <2>14. SlotsOK(v.d, v.p.vm, V) /\ Len(v.d.slots) <= MAXSOFTFONTS
      BY <2>5, <2>8, <2>9 DEF SlotsOK, HasSlot, SameDriver, SameBeliefs
    <2>15. FontOK(v.d, v.p.gs, V)
      BY <2>6, <2>8, <2>9, <2>13 DEF FontOK
    <2> QED
      BY <2>5, <2>9, <2>12, <2>13, <2>14, <2>15 DEF lid
  <1> QED
    BY <1>3, <1>4


(***************************************************************************)
(* A world in which the driver believes what is true.                      *)
(***************************************************************************)
Ready(w, a) ==
  /\ Live(w) /\ Holds(w.d, w.p, a)
  /\ a.stray \/ ~w.d.fIsClipped
  /\ Len(w.d.slots) <= MAXSOFTFONTS

LEMMA ReadyPen ==
  ASSUME NEW a, NEW w, Ready(w, a), NEW pen \in PenTypes,
         NEW round \in BOOLEAN, NEW v, v = SelectPen(w, pen, round)
  PROVE  /\ Ready(v, a) /\ JobState(v) = JobState(w)
         /\ FillState(v) = FillState(w) /\ ProcState(v) = ProcState(w)
         /\ v.d.pen.style = LSNoLine <=> ~Drawable(pen)
         /\ Loose(a) \/ ~Drawable(pen) \/ StrokePaint(v.p) = AskedStroke(pen)
  <1>1. /\ Live(w) /\ FillOK(w.d, w.p.vm) /\ SlotsOK(w.d, w.p.vm, a.unsent)
        /\ ProcsOK(w.d, w.p.vm)
        /\ a.stray \/ (ClipsOK(w.p.gs, w.p.saved, a) /\ ~w.d.fIsClipped)
        /\ Loose(a) \/ (PenOK(w.d, w.p.vm, w.p.gs) /\ FontOK(w.d, w.p.gs, a.unsent))
        /\ Len(w.d.slots) <= MAXSOFTFONTS
    BY DEF Ready, Holds
  <1> DEFINE r == Loose(a)
  <1>2. r \in BOOLEAN /\ (r \/ PenOK(w.d, w.p.vm, w.p.gs))
    BY <1>1 DEF Loose
  <1> HIDE DEF r
  <1>3. /\ Live(v) /\ FillState(v) = FillState(w)
        /\ FontState(v) = FontState(w) /\ SlotState(v) = SlotState(w)
        /\ ProcState(v) = ProcState(w) /\ ClipState(v) = ClipState(w)
        /\ JobState(v) = JobState(w)
        /\ r \/ PenOK(v.d, v.p.vm, v.p.gs)
        /\ v.d.pen.style = LSNoLine <=> ~Drawable(pen)
        /\ r \/ ~Drawable(pen) \/ StrokePaint(v.p) = AskedStroke(pen)
    BY <1>1, <1>2, SelectPenIs
  <1>4. FillOK(v.d, v.p.vm) /\ ProcsOK(v.d, v.p.vm)
    BY <1>1, <1>3 DEF FillState, ProcState, FillOK, ProcsOK
  <1>5. SlotsOK(v.d, v.p.vm, a.unsent) /\ Len(v.d.slots) <= MAXSOFTFONTS
    BY <1>1, <1>3 DEF SlotState, SlotsOK, HasSlot
  <1>6. a.stray \/ (ClipsOK(v.p.gs, v.p.saved, a) /\ ~v.d.fIsClipped)
    BY <1>1, <1>3 DEF ClipState, ClipsOK
  <1>7. r \/ FontOK(v.d, v.p.gs, a.unsent)
    BY <1>1, <1>3 DEF FontState, FontOK, r
  <1>8. Ready(v, a)
    BY <1>3, <1>4, <1>5, <1>6, <1>7 DEF Ready, Holds, r
  <1> QED
    BY <1>3, <1>8 DEF r

\* What is neither pen nor font decides nothing about them.
LEMMA ReadyKept ==
  ASSUME NEW a, NEW w, Ready(w, a), NEW v, Live(v), FillOK(v.d, v.p.vm),
         PenState(v) = PenState(w), FontState(v) = FontState(w), SlotState(v) = SlotState(w),
         ProcState(v) = ProcState(w), ClipState(v) = ClipState(w)
  PROVE  Ready(v, a)
  <1>1. /\ SlotsOK(w.d, w.p.vm, a.unsent) /\ ProcsOK(w.d, w.p.vm)
        /\ a.stray \/ (ClipsOK(w.p.gs, w.p.saved, a) /\ ~w.d.fIsClipped)
        /\ Loose(a) \/ (PenOK(w.d, w.p.vm, w.p.gs) /\ FontOK(w.d, w.p.gs, a.unsent))
        /\ Len(w.d.slots) <= MAXSOFTFONTS
    BY DEF Ready, Holds
  <1>2. SlotsOK(v.d, v.p.vm, a.unsent) /\ Len(v.d.slots) <= MAXSOFTFONTS
    BY <1>1 DEF SlotState, SlotsOK, HasSlot
  <1>3. ProcsOK(v.d, v.p.vm)
    BY <1>1 DEF ProcState, ProcsOK
  <1>4. a.stray \/ (ClipsOK(v.p.gs, v.p.saved, a) /\ ~v.d.fIsClipped)
    BY <1>1 DEF ClipState, ClipsOK
  <1>5. PenOK(w.d, w.p.vm, w.p.gs) => PenOK(v.d, v.p.vm, v.p.gs)
    BY DEF PenState, PenOK
  <1>6. FontOK(w.d, w.p.gs, a.unsent) => FontOK(v.d, v.p.gs, a.unsent)
    BY DEF FontState, FontOK
  <1> QED
    BY <1>1, <1>2, <1>3, <1>4, <1>5, <1>6 DEF Ready, Holds

LEMMA ReadyBrush ==
  ASSUME NEW a, NEW w, Ready(w, a), NEW brush \in Brushes, NEW dm \in DrawModes,
         NEW v, v = SelectBrush(w, brush, dm)
  PROVE  /\ Ready(v, a) /\ JobState(v) = JobState(w) /\ PenState(v) = PenState(w)
         /\ brush.style = "hollow" <=> v.d.FillMode = FM_NONE
         /\ brush.style # "hollow" =>
              /\ FillPaint(v.p) = AskedFill(brush, dm)
              /\ TilePaint(v.p) = brush.tile
                   \/ (v.p.vm.fm.over = "pattern" /\ "UNPACK" \in v.p.vm.procs)
  <1>1. Live(w) /\ FillOK(w.d, w.p.vm) /\ ProcsOK(w.d, w.p.vm)
    BY DEF Ready, Holds
  <1>2. /\ Live(v) /\ KeepsAllButFill(v, w) /\ FillOK(v.d, v.p.vm)
        /\ brush.style = "hollow" <=> v.d.FillMode = FM_NONE
        /\ brush.style # "hollow" =>
             /\ FillPaint(v.p) = AskedFill(brush, dm)
             /\ TilePaint(v.p) = brush.tile
                  \/ (v.p.vm.fm.over = "pattern" /\ "UNPACK" \in v.p.vm.procs)
    BY <1>1, SelectBrushIs
  <1>3. /\ PenState(v) = PenState(w) /\ FontState(v) = FontState(w) /\ SlotState(v) = SlotState(w)
        /\ ProcState(v) = ProcState(w) /\ ClipState(v) = ClipState(w) /\ JobState(v) = JobState(w)
    BY <1>2 DEF KeepsAllButFill
  <1> QED
    BY <1>2, <1>3, ReadyKept

\* GDI passes no brush to a polyline, which fills nothing.
LEMMA ReadyHollow ==
  ASSUME NEW a, NEW w, Ready(w, a), NEW v, v = SelectBrush(w, Hollow, AnyMode)
  PROVE  /\ Ready(v, a) /\ JobState(v) = JobState(w) /\ PenState(v) = PenState(w)
         /\ v.d.FillMode = FM_NONE
  <1>1. v = [w EXCEPT !.d.FillMode = FM_NONE]
    BY DEF SelectBrush, Hollow
  <1>2. FM_NONE \in Modes /\ FM_NONE.over = None
    BY DEF FM_NONE, Modes, Overs
  <1>3. Live(w) /\ FillOK(w.d, w.p.vm)
    BY DEF Ready, Holds
  <1> DEFINE d == [w.d EXCEPT !.FillMode = FM_NONE]
  <1>4. /\ d \in Drivers /\ d.fh = w.d.fh /\ d.FillMode = FM_NONE
        /\ d.FillColor = w.d.FillColor
        /\ d.pen = w.d.pen /\ d.fPenSelected = w.d.fPenSelected
        /\ d.lidFont = w.d.lidFont /\ d.slots = w.d.slots /\ d.DLState = w.d.DLState
        /\ d.fIsClipped = w.d.fIsClipped /\ d.PathLevel = w.d.PathLevel
    BY <1>2, <1>3 DEF Live, Worlds, Drivers
  <1>5. v = [w EXCEPT !.d = d]
    BY <1>1, <1>3 DEF Live, Worlds
  <1> HIDE DEF d
  <1>6. Live(v) /\ v.d = d /\ v.p = w.p
    BY <1>3, <1>4, <1>5 DEF Live, Worlds
  <1>7. FillOK(v.d, v.p.vm)
    BY <1>2, <1>3, <1>4, <1>6, GDIAssumption DEF FillOK
  <1>8. /\ PenState(v) = PenState(w) /\ FontState(v) = FontState(w) /\ SlotState(v) = SlotState(w)
        /\ ProcState(v) = ProcState(w) /\ ClipState(v) = ClipState(w) /\ JobState(v) = JobState(w)
    BY <1>4, <1>6 DEF PenState, FontState, SlotState, ProcState, ClipState, JobState
  <1> QED
    BY <1>4, <1>6, <1>7, <1>8, ReadyKept


LEMMA ReadyFillColor ==
  ASSUME NEW a, NEW w, Ready(w, a), NEW color \in Tones,
         NEW v, v = IF w.d.FillColor # color THEN SendFillColor(w, color) ELSE w
  PROVE  /\ Ready(v, a) /\ JobState(v) = JobState(w) /\ v.p.vm.fC = color
         /\ v.d.slots = w.d.slots /\ v.d.lidFont = w.d.lidFont
  <1>1. Live(w) /\ FillOK(w.d, w.p.vm)
    BY DEF Ready, Holds
  <1>2. CASE w.d.FillColor = color
    BY <1>1, <1>2 DEF FillOK
  <1>3. CASE w.d.FillColor # color
    <2>1. v = SendFillColor(w, color)
      BY <1>3
    <2>2. /\ Live(v) /\ KeepsAllButFill(v, w)
          /\ v.p.vm.fC = color /\ v.d.FillColor = color
          /\ v.p.vm.hC = w.p.vm.hC /\ v.p.vm.fm = w.p.vm.fm /\ v.p.vm.pat = w.p.vm.pat
          /\ v.d.FillMode = w.d.FillMode /\ v.d.HatchColor = w.d.HatchColor
          /\ v.d.rgbPat = w.d.rgbPat
      BY <1>1, <2>1, SendFillColorIs
    <2>3. /\ PenState(v) = PenState(w) /\ FontState(v) = FontState(w)
          /\ SlotState(v) = SlotState(w) /\ ProcState(v) = ProcState(w)
          /\ ClipState(v) = ClipState(w) /\ JobState(v) = JobState(w)
      BY <2>2 DEF KeepsAllButFill
    <2>4. FillOK(v.d, v.p.vm)
      BY <1>1, <2>2, <2>3 DEF FillOK, ProcState
    <2>5. v.d.slots = w.d.slots /\ v.d.lidFont = w.d.lidFont
      BY <2>3 DEF SlotState, FontState
    <2> QED
      BY <2>2, <2>3, <2>4, <2>5, ReadyKept
  <1> QED
    BY <1>2, <1>3

\* b is a, when the font has been selected.
LEMMA ReadyFont ==
  ASSUME NEW a, NEW w, Ready(w, a), NEW font \in Fonts, NEW sent \in BOOLEAN,
         a.unsent \in SUBSET SoftFonts,
         ~font.soft \/ Known(w.d, font) \/ Len(w.d.slots) < MAXSOFTFONTS,
         sent \/ Loads(w.d, font),
         NEW b, b.unsent = Unread(a.unsent, font, sent),
         b.clips = a.clips, b.path = a.path, b.restored = a.restored, b.stray = a.stray,
         NEW v, v = SelectFont(w, font, sent)
  PROVE  /\ Ready(v, b) /\ JobState(v) = JobState(w) /\ v.p.vm.fC = w.p.vm.fC
         /\ v.d.lidFont = font.lid /\ b.unsent \in SUBSET SoftFonts
  <1>1. /\ Live(w) /\ FillOK(w.d, w.p.vm) /\ SlotsOK(w.d, w.p.vm, a.unsent)
        /\ ProcsOK(w.d, w.p.vm)
        /\ a.stray \/ (ClipsOK(w.p.gs, w.p.saved, a) /\ ~w.d.fIsClipped)
        /\ Loose(a) \/ (PenOK(w.d, w.p.vm, w.p.gs) /\ FontOK(w.d, w.p.gs, a.unsent))
        /\ Len(w.d.slots) <= MAXSOFTFONTS
    BY DEF Ready, Holds
  <1> DEFINE U == a.unsent
             V == b.unsent
  <1>7. U \in SUBSET SoftFonts /\ V = Unread(U, font, sent)
    OBVIOUS
  <1>9. SlotsOK(w.d, w.p.vm, U)
    BY <1>1
  <1> HIDE DEF U, V
  <1>2. /\ Live(v) /\ KeepsAllButFont(v, w) /\ V \in SUBSET SoftFonts
        /\ SlotsOK(v.d, v.p.vm, V) /\ Len(v.d.slots) <= MAXSOFTFONTS
        /\ v.d.lidFont = font.lid
        /\ FontOK(w.d, w.p.gs, U) => FontOK(v.d, v.p.gs, V)
    BY <1>1, <1>7, <1>9, SelectFontIs
  <1>3. /\ FillState(v) = FillState(w) /\ PenState(v) = PenState(w) /\ ProcState(v) = ProcState(w)
        /\ ClipState(v) = ClipState(w) /\ JobState(v) = JobState(w)
    BY <1>2 DEF KeepsAllButFont
  <1>4. FillOK(v.d, v.p.vm) /\ ProcsOK(v.d, v.p.vm) /\ v.p.vm.fC = w.p.vm.fC
    BY <1>1, <1>3 DEF FillState, ProcState, FillOK, ProcsOK
  <1>5. b.stray \/ (ClipsOK(v.p.gs, v.p.saved, b) /\ ~v.d.fIsClipped)
    BY <1>1, <1>3 DEF ClipState, ClipsOK
  <1>6. PenOK(w.d, w.p.vm, w.p.gs) => PenOK(v.d, v.p.vm, v.p.gs)
    BY <1>3 DEF PenState, PenOK
  <1>8. Loose(b) \/ (PenOK(v.d, v.p.vm, v.p.gs) /\ FontOK(v.d, v.p.gs, b.unsent))
    BY <1>1, <1>2, <1>6 DEF Loose, U, V
  <1> QED
    BY <1>1, <1>2, <1>3, <1>4, <1>5, <1>8 DEF Ready, Holds, V

LEMMA ReadyProcs ==
  ASSUME NEW a, NEW w, Ready(w, a), NEW procs \in SUBSET Procedures,
         NEW v, v = Procs(w, procs)
  PROVE  Ready(v, a) /\ JobState(v) = JobState(w)
  <1>1. /\ Live(w) /\ FillOK(w.d, w.p.vm) /\ SlotsOK(w.d, w.p.vm, a.unsent)
        /\ ProcsOK(w.d, w.p.vm)
        /\ a.stray \/ (ClipsOK(w.p.gs, w.p.saved, a) /\ ~w.d.fIsClipped)
        /\ Loose(a) \/ (PenOK(w.d, w.p.vm, w.p.gs) /\ FontOK(w.d, w.p.gs, a.unsent))
        /\ Len(w.d.slots) <= MAXSOFTFONTS
    BY DEF Ready, Holds
  <1>2. /\ Live(v) /\ SameDriver(v.d, w.d) /\ SameMemory(v.p.vm, w.p.vm)
        /\ v.p.gs = w.p.gs /\ v.p.saved = w.p.saved /\ v.p.marks = w.p.marks
        /\ w.p.vm.procs \subseteq v.p.vm.procs /\ procs \subseteq v.p.vm.procs
        /\ ProcsOK(v.d, v.p.vm)
    BY <1>1, ProcsIs
  <1>3. FillOK(v.d, v.p.vm)
    BY <1>1, <1>2 DEF FillOK, SameDriver, SameBeliefs, SameMemory
  <1>4. SlotsOK(v.d, v.p.vm, a.unsent) /\ Len(v.d.slots) <= MAXSOFTFONTS
    BY <1>1, <1>2 DEF SlotsOK, HasSlot, SameDriver, SameBeliefs, SameMemory
  <1>5. PenOK(w.d, w.p.vm, w.p.gs) => PenOK(v.d, v.p.vm, v.p.gs)
    BY <1>2 DEF PenOK, SameDriver, SameBeliefs, SameMemory
  <1>6. /\ a.stray \/ (ClipsOK(v.p.gs, v.p.saved, a) /\ ~v.d.fIsClipped)
        /\ JobState(v) = JobState(w)
    BY <1>1, <1>2 DEF SameDriver, SameBeliefs, JobState
  <1>7. FontOK(w.d, w.p.gs, a.unsent) => FontOK(v.d, v.p.gs, a.unsent)
    BY <1>2 DEF FontOK, SameDriver, SameBeliefs
  <1> QED
    BY <1>1, <1>2, <1>3, <1>4, <1>5, <1>6, <1>7 DEF Ready, Holds

(***************************************************************************)
(* What is painted is painted by s, which is w in the box of the call.     *)
(***************************************************************************)
Painter(s, w, box, stray) ==
  /\ Live(s) /\ SameBeliefs(s.d, w.d) /\ s.p.vm = w.p.vm
  /\ stray \/ /\ s.p.gs.font = w.p.gs.font /\ s.p.gs.dash = w.p.gs.dash
              /\ s.p.gs.clip = [box |-> box, path |-> w.p.gs.clip.path]

\* Left behind is what there was before the box.
LEMMA LeftReady ==
  ASSUME NEW a, NEW w, Ready(w, a), NEW v, Left(v, w, a.stray)
  PROVE  Ready(v, a) /\ v.d.fDirty /\ JobState(v) = JobState(w) /\ v.p.vm = w.p.vm
  <1>1. /\ FillOK(w.d, w.p.vm) /\ SlotsOK(w.d, w.p.vm, a.unsent) /\ ProcsOK(w.d, w.p.vm)
        /\ a.stray \/ (ClipsOK(w.p.gs, w.p.saved, a) /\ ~w.d.fIsClipped)
        /\ Loose(a) \/ (PenOK(w.d, w.p.vm, w.p.gs) /\ FontOK(w.d, w.p.gs, a.unsent))
        /\ Len(w.d.slots) <= MAXSOFTFONTS
    BY DEF Ready, Holds
  <1>2. /\ Live(v) /\ SameBeliefs(v.d, w.d) /\ v.d.DLState = w.d.DLState /\ v.p.vm = w.p.vm
        /\ v.d.fDirty /\ v.p.marks = w.p.marks
        /\ a.stray \/ (v.d.fIsClipped = w.d.fIsClipped /\ v.p = w.p)
    BY DEF Left, Touched
  <1>3. /\ FillOK(v.d, v.p.vm) /\ SlotsOK(v.d, v.p.vm, a.unsent) /\ ProcsOK(v.d, v.p.vm)
        /\ JobState(v) = JobState(w) /\ Len(v.d.slots) <= MAXSOFTFONTS
    BY <1>1, <1>2 DEF SameBeliefs, FillOK, SlotsOK, HasSlot, ProcsOK, JobState
  <1>4. CASE a.stray
    BY <1>2, <1>3, <1>4 DEF Ready, Holds, Loose
  <1>5. CASE ~a.stray
    BY <1>1, <1>2, <1>3, <1>5 DEF Ready, Holds, SameBeliefs, PenOK, FontOK
  <1> QED
    BY <1>2, <1>3, <1>4, <1>5

\* b is w in the box of the call, if there is one, and in no other, unless one was left behind.
Boxed(b, w, box, stray) ==
  Touched(b, w) /\ (stray \/ ((box => InBox(b, w)) /\ (~box => b = w)))

LEMMA PainterIs ==
  ASSUME NEW a, NEW w, Ready(w, a), NEW box \in BOOLEAN, NEW b, Boxed(b, w, box, a.stray),
         NEW s, s = Send(b, b.p), NEW v, v = Unbox(s) \/ (~box /\ v = s)
  PROVE  Painter(s, w, box, a.stray) /\ Left(v, w, a.stray)
  <1>1. /\ Live(w) /\ w.p \in Printers /\ w.p.gs \in States
        /\ Touched(b, w) /\ Live(b) /\ b.p \in Printers
    BY DEF Ready, Boxed, Touched, Live, Worlds, Printers
  <1>2. Touched(s, b) /\ s.d.fDirty
    BY <1>1, TouchedSend
  <1>3. Touched(s, w) /\ Live(s)
    BY <1>1, <1>2, TouchedOn DEF Touched
  <1>4. Touched(v, w) /\ v.d.fDirty
    <2>1. CASE v = Unbox(s)
      <3>1. Touched(v, s)
        BY <1>3, <2>1, ClipBoxTouches DEF Unbox
      <3> QED
        BY <1>2, <1>3, <3>1, TouchedOn DEF Touched
    <2>2. CASE v = s
      BY <1>2, <1>3, <2>2
    <2> QED
      BY <2>1, <2>2
  <1>5. CASE a.stray
    BY <1>3, <1>4, <1>5 DEF Painter, Left, Touched
  <1>6. CASE ~a.stray
    <2>1. ~w.d.fIsClipped /\ w.p.gs.clip = [box |-> FALSE, path |-> a.path]
      BY <1>6 DEF Ready, Holds, ClipsOK
    <2>2. CASE box
      <3>1. InBox(b, w) /\ v = Unbox(s)
        BY <1>6, <2>2 DEF Boxed
      <3>2. InBox(s, w)
        BY <3>1, SendBoxed
      <3>3. Painter(s, w, TRUE, a.stray)
        BY <1>1, <2>1, <3>2 DEF Painter, InBox, States
      <3>4. Left(v, w, a.stray)
        BY <2>1, <3>1, <3>2, UnboxIs
      <3> QED
        BY <2>2, <3>3, <3>4
    <2>3. CASE ~box
      <3> DEFINE u == Send(w, w.p)
      <3>1. /\ Live(u) /\ SameDriver(u.d, w.d) /\ u.d.DLState = w.d.DLState /\ u.d.fDirty
            /\ u.p = w.p
        BY <1>1, SendSame
      <3>2. s = u
        BY <1>6, <2>3 DEF Boxed
      <3> HIDE DEF u
      <3>3. ~s.d.fIsClipped /\ SameBeliefs(s.d, w.d)
        BY <2>1, <3>1, <3>2 DEF SameDriver
      <3>4. v = s
        BY <3>3 DEF Unbox, ClipBox
      <3>5. Painter(s, w, FALSE, a.stray)
        BY <2>1, <3>1, <3>2, <3>3 DEF Painter
      <3>6. v.d.fIsClipped = w.d.fIsClipped /\ v.p = w.p
        BY <1>1, <2>1, <3>1, <3>2, <3>3, <3>4 DEF Live, Worlds, Drivers
      <3>7. Left(v, w, a.stray)
        BY <1>4, <3>6 DEF Left
      <3> QED
        BY <2>3, <3>5, <3>7
    <2> QED
      BY <2>2, <2>3
  <1> QED
    BY <1>5, <1>6


\* After a bitmap, the patterns of the page are at the mercy of rle.ps.
Spoilt(p) == p.vm.fm.over = "pattern" /\ "UNPACK" \in p.vm.procs

\* The pen draws as it was asked to, the brush fills as it was asked to.
PenSet(s, pen, r) ==
  /\ s.d.pen.style = LSNoLine <=> ~Drawable(pen)
  /\ r \/ ~Drawable(pen) \/ StrokePaint(s.p) = AskedStroke(pen)
BrushSet(s, brush, dm) ==
  /\ brush.style = "hollow" <=> s.d.FillMode = FM_NONE
  /\ brush.style # "hollow" => /\ FillPaint(s.p) = AskedFill(brush, dm)
                               /\ TilePaint(s.p) = brush.tile \/ Spoilt(s.p)

\* s paints in the box, and v is what is left after it.
InPlace(s, box, a) ==
  /\ Live(s) /\ s.d.PathLevel = 0
  /\ a.stray \/ s.p.gs.clip = [box |-> box, path |-> a.path]
After(v, s, w, a) ==
  Ready(v, a) /\ v.d.fDirty /\ JobState(v) = JobState(w) /\ v.p.vm = s.p.vm

LEMMA PensAre ==
  /\ Pens \subseteq PenTypes /\ NoPen \notin Pens
  /\ \A pen \in Pens : [pen EXCEPT !.width = 1] \in PenTypes \ {NoPen}
  <1>1. SUFFICES ASSUME NEW pen \in Pens
                 PROVE  pen \in PenTypes /\ pen # NoPen /\ [pen EXCEPT !.width = 1] \in PenTypes \ {NoPen}
    OBVIOUS
  <1>2. /\ pen \in [style : STRING, width : Nat, color : STRING] /\ None \notin STRING
    BY GDIAssumption
  <1>3. pen.style \in Styles
    BY DEF Styles
  <1>4. pen \in PenTypes /\ pen # NoPen
    BY <1>2, <1>3 DEF PenTypes, Tones, NoPen
  <1>5. [pen EXCEPT !.width = 1] \in PenTypes /\ [pen EXCEPT !.width = 1] # NoPen
    BY <1>2, <1>3 DEF PenTypes, Tones, NoPen
  <1> QED
    BY <1>4, <1>5

\* What is selected paints as it was asked to.
LEMMA SelectedIs ==
  ASSUME NEW a, NEW w, Ready(w, a), w.d.PathLevel = 0,
         NEW pen, pen = NoPen \/ pen \in PenTypes, NEW round \in BOOLEAN,
         NEW brushes \in BOOLEAN, NEW brush, NEW dm,
         \/ ~brushes \/ (brush \in Brushes /\ dm \in DrawModes)
         \/ (brush = Hollow /\ dm = AnyMode),
         NEW box \in BOOLEAN,
         NEW s, s = Selected(w, pen, round, brushes, brush, dm, box),
         NEW v, v = Unbox(s) \/ (~box /\ v = s)
  PROVE  /\ InPlace(s, box, a) /\ After(v, s, w, a)
         /\ pen # NoPen => PenSet(s, pen, Loose(a))
         /\ brushes /\ brush \in Brushes => BrushSet(s, brush, dm)
  <1> DEFINE w1 == IF pen = NoPen THEN w ELSE SelectPen(w, pen, round)
             w2 == IF brushes THEN SelectBrush(w1, brush, dm) ELSE w1
             b == IF box THEN Box(w2) ELSE w2
  <1>1. s = Send(b, b.p)
    BY DEF Selected, Box
  <1>2. /\ Ready(w1, a) /\ JobState(w1) = JobState(w)
        /\ pen # NoPen => PenSet(w1, pen, Loose(a))
    <2>1. CASE pen = NoPen
      BY <2>1
    <2>2. CASE pen # NoPen
      <3> DEFINE u == SelectPen(w, pen, round)
      <3>1. /\ Ready(u, a) /\ JobState(u) = JobState(w)
            /\ u.d.pen.style = LSNoLine <=> ~Drawable(pen)
            /\ Loose(a) \/ ~Drawable(pen) \/ StrokePaint(u.p) = AskedStroke(pen)
        BY <2>2, ReadyPen
      <3> HIDE DEF u
      <3>2. w1 = u
        BY <2>2 DEF u
      <3> QED
        BY <3>1, <3>2 DEF PenSet
    <2> QED
      BY <2>1, <2>2
  <1> HIDE DEF w1
  <1>3. /\ Ready(w2, a) /\ JobState(w2) = JobState(w1) /\ PenState(w2) = PenState(w1)
        /\ brushes /\ brush \in Brushes => BrushSet(w2, brush, dm)
    <2>1. CASE ~brushes
      BY <1>2, <2>1
    <2> DEFINE u == SelectBrush(w1, brush, dm)
    <2>2. CASE brushes /\ brush \in Brushes /\ dm \in DrawModes
      <3>1. /\ Ready(u, a) /\ JobState(u) = JobState(w1) /\ PenState(u) = PenState(w1)
            /\ brush.style = "hollow" <=> u.d.FillMode = FM_NONE
            /\ brush.style # "hollow" =>
                 /\ FillPaint(u.p) = AskedFill(brush, dm)
                 /\ TilePaint(u.p) = brush.tile
                      \/ (u.p.vm.fm.over = "pattern" /\ "UNPACK" \in u.p.vm.procs)
        BY <1>2, <2>2, ReadyBrush
      <3>2. w2 = u
        BY <2>2
      <3> HIDE DEF u, w2
      <3> QED
        BY <3>1, <3>2 DEF BrushSet, Spoilt
    <2>3. CASE brushes /\ brush = Hollow /\ dm = AnyMode
      <3>2. w2 = SelectBrush(w1, Hollow, AnyMode)
        BY <2>3
      <3>3. /\ Ready(w2, a) /\ JobState(w2) = JobState(w1) /\ PenState(w2) = PenState(w1)
            /\ w2.d.FillMode = FM_NONE
        BY <1>2, <3>2, ReadyHollow
      <3> QED
        BY <2>3, <3>3 DEF Hollow, BrushSet
    <2> QED
      BY <2>1, <2>2, <2>3
  <1> HIDE DEF w2
  <1>4. Boxed(b, w2, box, a.stray)
    <2>1. Live(w2)
      BY <1>3 DEF Ready
    <2>2. (box => InBox(b, w2)) /\ (~box => b = w2)
      BY <2>1, BoxIs
    <2>3. Touched(b, w2)
      <3>1. CASE box
        BY <2>1, <3>1, ClipBoxTouches DEF Box
      <3>2. CASE ~box
        BY <2>1, <2>2, <3>2 DEF Touched, SameBeliefs
      <3> QED
        BY <3>1, <3>2
    <2> QED
      BY <2>2, <2>3 DEF Boxed
  <1> HIDE DEF b
  <1>5. Painter(s, w2, box, a.stray) /\ Left(v, w2, a.stray)
    BY <1>1, <1>3, <1>4, PainterIs
  <1>6. Ready(v, a) /\ v.d.fDirty /\ JobState(v) = JobState(w2) /\ v.p.vm = w2.p.vm
    BY <1>3, <1>5, LeftReady
  <1>7. JobState(v) = JobState(w)
    BY <1>2, <1>3, <1>6
  <1>8. /\ s.p.vm = w2.p.vm /\ s.d.FillMode = w2.d.FillMode /\ s.d.pen = w2.d.pen
        /\ Live(s) /\ s.d.PathLevel = w2.d.PathLevel
        /\ a.stray \/ /\ s.p.gs.dash = w2.p.gs.dash
                      /\ s.p.gs.clip = [box |-> box, path |-> w2.p.gs.clip.path]
    BY <1>5 DEF Painter, SameBeliefs
  <1>9. a.stray \/ w2.p.gs.clip.path = a.path
    BY <1>3 DEF Ready, Holds, ClipsOK
  <1>10. w2.d.PathLevel = 0
    BY <1>2, <1>3 DEF JobState
  <1>11. pen # NoPen => PenSet(s, pen, Loose(a))
    BY <1>2, <1>3, <1>8 DEF PenState, StrokePaint, PenSet, Loose
  <1>12. brushes /\ brush \in Brushes => BrushSet(s, brush, dm)
    BY <1>3, <1>8 DEF FillPaint, TilePaint, BrushSet, Spoilt
  <1> QED
    BY <1>6, <1>7, <1>8, <1>9, <1>10, <1>11, <1>12 DEF InPlace, After

(***************************************************************************)
(* One call.                                                               *)
(***************************************************************************)
Right == /\ PaintedAsAsked /\ ("text" \in wrong => Loose(app) \/ FontMissing)
         /\ ClipAsAsked /\ BitmapAsSent

\* A program draws only in a job that did not fail.
Working == dv.fh /\ ~app.aborted

LEMMA ReadyNow ==
  ASSUME Inv, Working
  PROVE  Ready(W, app) /\ W.d = dv /\ W.p = pr /\ Live(W) /\ app.unsent \in SUBSET SoftFonts
  <1>1. /\ dv \in Drivers /\ pr \in Printers /\ dv.fh /\ app.unsent \in SUBSET SoftFonts
    BY DEF Inv, Drivers, Apps, Working
  <1>2. W.d = dv /\ W.p = pr /\ Live(W)
    BY <1>1 DEF W, Live, Worlds
  <1>3. Holds(dv, pr, app) /\ (app.stray \/ ~dv.fIsClipped) /\ Len(dv.slots) <= MAXSOFTFONTS
    BY DEF Inv, DeviceOK, Working
  <1> QED
    BY <1>1, <1>2, <1>3 DEF Ready

\* What the device depends on.
SameClips(a, b) ==
  /\ a.path = b.path /\ a.clips = b.clips /\ a.restored = b.restored
  /\ a.stray = b.stray /\ a.unsent = b.unsent /\ a.aborted = b.aborted

LEMMA HoldsKept ==
  ASSUME NEW d, NEW p, NEW a, NEW b, Holds(d, p, a), SameClips(b, a)
  PROVE  Holds(d, p, b)
  BY DEF Holds, ClipsOK, SameClips, Loose

\* A call that leaves a driver that believes what is true, and paints what was asked for,
\* unless it cut a path.
LEMMA DoesIs ==
  ASSUME Inv, Working, NEW a, a.aborted = app.aborted, NEW v, Ready(v, a), v.d.fDirty,
         NEW asked, NEW got, Does(v, asked, got),
         gl' \in Globals, app' \in Apps, SameClips(app', a), PathOK(v.d, gl', app'),
         NEW cut \in BOOLEAN, cut => app'.broken /\ v.d.PathLevel > 0,
         asked.stroke = got.stroke \/ Loose(a) \/ cut, asked.fill = got.fill \/ cut,
         asked.tile = got.tile \/ cut \/ Spoilt(v.p),
         asked.move = got.move \/ app'.broken,
         asked.text = got.text \/ Loose(a) \/ LidMissing(v.d.lidFont, a.unsent),
         asked.clip = got.clip \/ a.stray \/ cut,
         asked.row = got.row
  PROVE  Inv' /\ Right'
  <1>1. /\ v.d \in Drivers /\ v.p \in Printers /\ v.d.fh /\ pr \in Printers
        /\ a.stray \/ ~v.d.fIsClipped
        /\ Len(v.d.slots) <= MAXSOFTFONTS /\ Holds(v.d, v.p, a)
    BY DEF Ready, Live, Worlds, Inv
  <1> DEFINE marks == dv.fh /\ (v.p.marks \/ got # Nothing)
             bad == {what \in DOMAIN asked : asked[what] # got[what]}
  <1>0. dv.fh
    BY DEF Working
  <1>2. dv' = v.d /\ pr' = [v.p EXCEPT !.marks = marks] /\ wrong' = bad
    <2> HIDE DEF bad, marks
    <2>1. dv' = v.d /\ wrong' = bad
      BY <1>0 DEF Does, bad
    <2>2. pr' = [v.p EXCEPT !.marks = marks]
      BY <1>1 DEF Does, Printers, marks
    <2> QED
      BY <2>1, <2>2
  <1>3. marks \in BOOLEAN
    OBVIOUS
  <1> HIDE DEF marks
  <1>4. pr' \in Printers /\ pr'.vm = v.p.vm /\ pr'.gs = v.p.gs /\ pr'.saved = v.p.saved
    BY <1>1, <1>2, <1>3 DEF Printers
  <1>5. Holds(dv', pr', app')
    <2>1. Holds(v.d, v.p, app')
      <3> HIDE DEF bad
      <3> QED
        BY <1>1, HoldsKept
    <2> QED
      BY <1>2, <1>4, <2>1 DEF Holds
  <1>6. DeviceOK(dv', pr', app')
    BY <1>1, <1>2, <1>5 DEF DeviceOK, SameClips, Working
  <1>7. Inv'
    BY <1>1, <1>2, <1>4, <1>6 DEF Inv
  <1>8. /\ Loose(app') <=> Loose(a)
        /\ app'.stray = a.stray /\ app'.unsent = a.unsent
    BY DEF SameClips, Loose
  <1>11. cut => InCutPath'
    BY <1>2 DEF InCutPath
  <1>12. Spoilt(v.p) <=> Spoilt(pr')
    BY <1>4 DEF Spoilt
  <1>13. LidMissing(v.d.lidFont, a.unsent) <=> FontMissing'
    BY <1>2, <1>8 DEF LidMissing, FontMissing
  <1>14. gl'.MoveCmd = "L" /\ dv'.PathLevel = 0 => app'.broken
    BY <1>2 DEF PathOK
  <1>9. /\ "stroke" \in wrong' => asked.stroke # got.stroke
        /\ "fill" \in wrong' => asked.fill # got.fill
        /\ "tile" \in wrong' => asked.tile # got.tile
        /\ "move" \in wrong' => asked.move # got.move
        /\ "text" \in wrong' => asked.text # got.text
        /\ "clip" \in wrong' => asked.clip # got.clip
        /\ "row" \in wrong' => asked.row # got.row
    BY <1>2, <1>1 DEF Working, Does
  <1>10. Right'
    <2>1. StrokeAsAsked'
      BY <1>8, <1>9, <1>11 DEF StrokeAsAsked, Loose
    <2>2. FillAsAsked'
      BY <1>9, <1>11, <1>12 DEF FillAsAsked, Spoilt
    <2>3. MovesOnce'
      BY <1>9, <1>14 DEF MovesOnce
    <2>4. ClipAsAsked'
      BY <1>8, <1>9, <1>11 DEF ClipAsAsked
    <2>5. "text" \in wrong' => Loose(app') \/ FontMissing'
      BY <1>8, <1>9, <1>13
    <2> QED
      BY <1>9, <2>1, <2>2, <2>3, <2>4, <2>5 DEF Right, PaintedAsAsked, BitmapAsSent
  <1> QED
    BY <1>7, <1>10

LEMMA QuietIs ==
  ASSUME NEW v, Quiet(v), v.d \in Drivers, v.p \in Printers,
         gl' \in Globals, app' \in Apps, DeviceOK(v.d, v.p, app'), PathOK(v.d, gl', app')
  PROVE  Inv' /\ Right'
  <1>1. Inv' /\ wrong' = {}
    BY DEF Quiet, Inv
  <1>2. gl'.MoveCmd = "L" /\ dv'.PathLevel = 0 => app'.broken
    BY DEF Quiet, PathOK
  <1> QED
    BY <1>1, <1>2 DEF Right, PaintedAsAsked, StrokeAsAsked, FillAsAsked, MovesOnce, ClipAsAsked,
                      BitmapAsSent

\* The next figure.
LEMMA MoveAfterIs ==
  ASSUME Inv, MoveAfter, NEW d, d.PathLevel = dv.PathLevel
  PROVE  /\ gl' \in Globals /\ app' \in Apps /\ SameClips(app', app) /\ PathOK(d, gl', app')
         /\ app'.broken = app.broken
  <1>1. /\ gl \in Globals /\ app \in Apps /\ dv.PathLevel \in Nat /\ dv.PathLevel <= MaxDepth
        /\ dv.PathLevel = 0 => gl.MoveCmd = "M" \/ app.broken
    BY DEF Inv, Drivers, PathOK
  <1>2. CASE dv.PathLevel = 0
    <2>1. gl' = gl /\ app' = [app EXCEPT !.begun = app.begun]
      BY <1>1, <1>2 DEF MoveAfter, Globals, Apps
    <2> QED
      BY <1>1, <1>2, <2>1 DEF Apps, SameClips, PathOK
  <1>3. CASE dv.PathLevel > 0
    <2>1. gl' = [gl EXCEPT !.MoveCmd = "L"] /\ app' = [app EXCEPT !.begun = TRUE]
      BY <1>1, <1>3 DEF MoveAfter, Globals, Apps
    <2>2. gl' \in Globals /\ gl'.MoveCmd = "L"
      BY <1>1, <2>1 DEF Globals
    <2> DEFINE yes == TRUE
    <2>3. yes \in BOOLEAN /\ app' = [app EXCEPT !.begun = yes]
      BY <2>1
    <2>4. app' \in Apps /\ SameClips(app', app) /\ app'.begun /\ app'.broken = app.broken
      <3> HIDE DEF yes
      <3>1. app' \in Apps /\ SameClips(app', app) /\ app'.begun = yes /\ app'.broken = app.broken
        BY <1>1, <2>3 DEF Apps, SameClips
      <3> QED
        BY <3>1 DEF yes
    <2> QED
      BY <1>1, <1>3, <2>2, <2>4 DEF PathOK
  <1> QED
    BY <1>1, <1>2, <1>3


(***************************************************************************)
(* Figures.                                                                *)
(***************************************************************************)
LEMMA InPathIs ==
  ASSUME NEW a, NEW w, Ready(w, a), w.d.PathLevel > 0, NEW pen, NEW round, NEW brushes,
         NEW brush, NEW dm, NEW box,
         NEW s, s = Selected(w, pen, round, brushes, brush, dm, box),
         NEW v, v = PolyRefused(s, box)
  PROVE  /\ Ready(s, a) /\ s.d.fDirty /\ s.d.PathLevel = w.d.PathLevel
         /\ Ready(v, a) /\ v.d.fDirty /\ v.d.PathLevel = w.d.PathLevel
  <1> DEFINE u == Send(w, w.p)
  <1>1. s = u
    BY DEF Selected
  <1>2. Live(w) /\ w.p \in Printers
    BY DEF Ready, Live, Worlds
  <1>3. Left(u, w, a.stray)
    BY <1>2, TouchedSend DEF Left
  <1> HIDE DEF u
  <1>4. Ready(s, a) /\ s.d.fDirty /\ JobState(s) = JobState(w)
    BY <1>1, <1>3, LeftReady
  <1>5. s.d.PathLevel = w.d.PathLevel
    BY <1>4 DEF JobState
  <1>6. Left(v, s, a.stray)
    <2>1. Live(s) /\ (a.stray \/ ~s.d.fIsClipped)
      BY <1>4 DEF Ready
    <2>2. v = s \/ v = ClipBox(s, FALSE)
      BY DEF PolyRefused
    <2>3. Touched(s, s)
      BY <2>1 DEF Touched, SameBeliefs
    <2>4. ~s.d.fIsClipped => v = s
      BY <2>2 DEF ClipBox
    <2>5. Touched(v, s)
      BY <2>1, <2>2, <2>3, ClipBoxTouches
    <2>6. v.d.fDirty
      BY <1>4, <2>5 DEF Touched
    <2> QED
      BY <2>1, <2>4, <2>5, <2>6 DEF Left
  <1>7. Ready(v, a) /\ v.d.fDirty /\ JobState(v) = JobState(s)
    BY <1>4, <1>6, LeftReady
  <1>8. v.d.PathLevel = w.d.PathLevel
    BY <1>4, <1>7 DEF JobState
  <1> QED
    BY <1>4, <1>5, <1>7, <1>8

LEMMA ReleasedIs ==
  ASSUME NEW s, NEW box \in BOOLEAN, NEW v, v = PolyRefused(s, box)
  PROVE  /\ v = Unbox(s) \/ (~box /\ v = s)
         /\ s.d.PathLevel = 0 => Released(s, box) = v
  BY DEF Released, PolyRefused, Unbox, ClipBox

\* What FillDraw paints, after what was selected.
Paints(got, s, r, stroke, fill, tile) ==
  /\ got.stroke = stroke \/ r
  /\ got.fill = fill /\ (got.tile = tile \/ Spoilt(s.p))
  /\ got.clip = s.p.gs.clip /\ got.move = None /\ got.text = None /\ got.row = None

LEMMA FillDrawIs ==
  ASSUME NEW s, NEW fill \in BOOLEAN, NEW draw \in BOOLEAN, NEW r \in BOOLEAN,
         NEW pen, NEW brush, NEW dm,
         draw => PenSet(s, pen, r), ~draw => ~Drawable(pen),
         fill => brush \in Brushes /\ BrushSet(s, brush, dm)
  PROVE  Paints(FillDraw(s, fill, draw), s, r, AskedStroke(pen),
                IF fill THEN AskedFill(brush, dm) ELSE NoPaint,
                IF fill THEN brush.tile ELSE None)
  <1> DEFINE got == FillDraw(s, fill, draw)
  <1>1. /\ got.fill = IF fill /\ s.d.FillMode # FM_NONE THEN FillPaint(s.p) ELSE NoPaint
        /\ got.tile = IF fill /\ s.d.FillMode # FM_NONE THEN TilePaint(s.p) ELSE None
        /\ got.stroke = IF draw /\ s.d.pen.style # LSNoLine THEN StrokePaint(s.p) ELSE NoStroke
        /\ got.clip = s.p.gs.clip /\ got.move = None /\ got.text = None /\ got.row = None
    BY DEF FillDraw, Nothing
  <1> HIDE DEF got
  <1>2. got.stroke = AskedStroke(pen) \/ r
    BY <1>1 DEF AskedStroke, PenSet
  <1>3. fill /\ brush.style = "hollow" => AskedFill(brush, dm) = NoPaint /\ brush.tile = None
    BY GDIAssumption DEF AskedFill
  <1>4. got.fill = IF fill THEN AskedFill(brush, dm) ELSE NoPaint
    BY <1>1, <1>3 DEF BrushSet
  <1>5. (got.tile = IF fill THEN brush.tile ELSE None) \/ Spoilt(s.p)
    BY <1>1, <1>3 DEF BrushSet
  <1> QED
    BY <1>1, <1>2, <1>4, <1>5 DEF Paints, got

LEMMA ShapeIs ==
  ASSUME Inv, NEW shape, NEW pen,
         \/ shape = "PATBLT" /\ pen = NoPen
         \/ shape # "PATBLT" /\ pen \in Pens,
         NEW brush \in Brushes, NEW dm \in DrawModes, NEW box \in BOOLEAN,
         Shape(shape, pen, brush, dm, box)
  PROVE  Inv' /\ Right'
  <1>8. PICK fill \in BOOLEAN : fill = (shape # "ARC")
    OBVIOUS
  <1>9. PICK draw \in BOOLEAN : draw = (shape # "PATBLT")
    OBVIOUS
  <1>10. PICK round \in BOOLEAN : round = Round(shape)
    BY DEF Round
  <1>7. PICK brushes \in BOOLEAN : brushes = TRUE
    OBVIOUS
  <1>4. round \in BOOLEAN /\ brushes \in BOOLEAN
    BY <1>7, <1>10
  <1> DEFINE w     == Selected(W, pen, round, brushes, brush, dm, box)
             drawn == FillDraw(w, fill, draw)
             got   == [drawn EXCEPT !.arc = IF fill THEN None ELSE w.p.vm.arc]
             asked == [Nothing EXCEPT !.stroke = AskedStroke(pen),
                                      !.ends   = AskedEnds(pen, round),
                                      !.fill   = IF fill THEN AskedFill(brush, dm) ELSE NoPaint,
                                      !.tile   = IF fill THEN brush.tile ELSE None,
                                      !.clip   = AskedClip(box),
                                      !.arc    = IF fill THEN None ELSE gl.ArcDir]
  <1>1. Working /\ MoveAfter
    BY DEF Shape, Uses, Working
  <1>2. IF dv.PathLevel > 0 THEN Does(w, Nothing, Nothing) ELSE Does(Released(w, box), asked, got)
    BY <1>7, <1>8, <1>9, <1>10 DEF Shape, Nothing
  <1>3. Ready(W, app) /\ W.d = dv /\ dv.PathLevel \in Nat
    BY <1>1, ReadyNow DEF Inv, Drivers
  <1>5. CASE dv.PathLevel > 0
    <2>1. Ready(w, app) /\ w.d.fDirty /\ w.d.PathLevel = dv.PathLevel
      <3>1. W.d.PathLevel > 0
        BY <1>3, <1>5
      <3> QED
        BY <1>3, <3>1, InPathIs
    <2> HIDE DEF w
    <2>2. gl' \in Globals /\ app' \in Apps /\ SameClips(app', app) /\ PathOK(w.d, gl', app')
      BY <1>1, <2>1, MoveAfterIs
    <2>3. Does(w, Nothing, Nothing)
      BY <1>2, <1>5
    <2>4. FALSE \in BOOLEAN
      OBVIOUS
    <2> QED
      BY <1>1, <2>1, <2>2, <2>3, <2>4, DoesIs
  <1>6. CASE dv.PathLevel = 0
    <2> DEFINE v == PolyRefused(w, box)
    <2>1. /\ InPlace(w, box, app) /\ After(v, w, W, app)
          /\ pen # NoPen => PenSet(w, pen, Loose(app))
          /\ brushes /\ brush \in Brushes => BrushSet(w, brush, dm)
      <3>1. pen = NoPen \/ pen \in PenTypes
        BY PensAre
      <3>2. W.d.PathLevel = 0
        BY <1>3, <1>6
      <3> HIDE DEF w
      <3>3. v = Unbox(w) \/ (~box /\ v = w)
        BY ReleasedIs
      <3> HIDE DEF v
      <3> QED
        BY <1>3, <1>4, <3>1, <3>2, <3>3, SelectedIs DEF w
    <2> HIDE DEF w, v
    <2>2. Does(v, asked, got)
      <3>1. v = PolyRefused(w, box) /\ w.d.PathLevel = 0
        BY <2>1 DEF v, InPlace
      <3>2. Released(w, box) = v
        BY <3>1, ReleasedIs
      <3>3. Does(Released(w, box), asked, got)
        BY <1>2, <1>6
      <3> HIDE DEF asked, got
      <3> QED
        BY <3>2, <3>3
    <2>3. draw <=> pen # NoPen
      BY <1>9, PensAre
    <2>4. pen = NoPen => ~Drawable(pen)
      BY DEF Drawable, NoPen
    <2> DEFINE stroke == AskedStroke(pen)
               paint  == IF fill THEN AskedFill(brush, dm) ELSE NoPaint
               tile   == IF fill THEN brush.tile ELSE None
    <2>13. Loose(app) \in BOOLEAN
      BY DEF Loose
    <2>5. Paints(drawn, w, Loose(app), stroke, paint, tile)
      BY <2>13, <1>7, <2>1, <2>3, <2>4, FillDrawIs
    <2> HIDE DEF stroke, paint, tile
    <2>6. /\ got.stroke = drawn.stroke /\ got.fill = drawn.fill /\ got.tile = drawn.tile
          /\ got.clip = drawn.clip /\ got.move = drawn.move /\ got.text = drawn.text /\ got.row = drawn.row
      BY DEF FillDraw, Nothing
    <2>7. /\ asked.stroke = stroke /\ asked.fill = paint /\ asked.tile = tile
          /\ asked.clip = AskedClip(box) /\ asked.move = None /\ asked.text = None /\ asked.row = None
      BY DEF Nothing, stroke, paint, tile
    <2> HIDE DEF asked, got, drawn
    <2>8. app.stray \/ AskedClip(box) = w.p.gs.clip
      BY <2>1 DEF AskedClip, InPlace
    <2>9. v.d.PathLevel = dv.PathLevel
      BY <1>3, <2>1 DEF JobState, After
    <2>10. gl' \in Globals /\ app' \in Apps /\ SameClips(app', app) /\ PathOK(v.d, gl', app')
      BY <1>1, <2>9, MoveAfterIs
    <2>11. /\ asked.stroke = got.stroke \/ Loose(app)
           /\ asked.fill = got.fill /\ asked.move = got.move /\ asked.text = got.text
           /\ asked.clip = got.clip \/ app.stray
           /\ asked.row = got.row
           /\ asked.tile = got.tile \/ Spoilt(v.p)
      BY <2>1, <2>5, <2>6, <2>7, <2>8 DEF Paints, Spoilt, After
    <2>12. Ready(v, app) /\ v.d.fDirty
      BY <2>1 DEF After
    <2>14. FALSE \in BOOLEAN
      OBVIOUS
    <2> QED
      BY <1>1, <2>2, <2>10, <2>11, <2>12, <2>14, DoesIs
  <1> QED
    BY <1>3, <1>5, <1>6

LEMMA ReadyQuiet ==
  ASSUME NEW v, Ready(v, app), v.d.fDirty, Quiet(v), UNCHANGED <<gl, app>>,
         Inv, Working, v.d.PathLevel = dv.PathLevel
  PROVE  Inv' /\ Right'
  <1>1. v.d \in Drivers /\ v.p \in Printers /\ v.d.fh
    BY DEF Ready, Live, Worlds
  <1>2. gl' \in Globals /\ app' \in Apps /\ PathOK(v.d, gl', app')
    BY DEF Inv, PathOK
  <1>3. DeviceOK(v.d, v.p, app')
    BY <1>1 DEF Ready, DeviceOK, Working
  <1> QED
    BY <1>1, <1>2, <1>3, QuietIs

LEMMA PolyIs ==
  ASSUME Inv, NEW polygon \in BOOLEAN, NEW points, NEW pen \in Pens, NEW brush, NEW dm,
         \/ brush \in Brushes /\ dm \in DrawModes
         \/ ~polygon /\ brush = Hollow /\ dm = AnyMode,
         NEW box \in BOOLEAN,
         Poly(polygon, points, pen, brush, dm, box)
  PROVE  Inv' /\ Right'
  <1>7. PICK round \in BOOLEAN : round = TRUE
    OBVIOUS
  <1>8. PICK draw \in BOOLEAN : draw = TRUE
    OBVIOUS
  <1>4. round \in BOOLEAN /\ draw \in BOOLEAN /\ draw
    BY <1>7, <1>8
  <1> DEFINE w     == Selected(W, pen, round, polygon, brush, dm, box)
             drawn == FillDraw(w, polygon, draw)
             got   == [drawn EXCEPT !.move = gl.MoveCmd]
             asked == [Nothing EXCEPT !.stroke = AskedStroke(pen),
                                      !.ends   = AskedEnds(pen, round),
                                      !.fill   = IF polygon THEN AskedFill(brush, dm) ELSE NoPaint,
                                      !.tile   = IF polygon THEN brush.tile ELSE None,
                                      !.clip   = AskedClip(box),
                                      !.move   = "M"]
             inPath(move) == [Nothing EXCEPT !.move = move]
             begun == IF app.begun THEN "L" ELSE "M"
  <1>1. Working
    BY DEF Poly, Uses, Working
  <1>2. \/ Quiet(PolyRefused(w, box)) /\ UNCHANGED <<gl, app>>
        \/ /\ MoveAfter
           /\ IF dv.PathLevel > 0 THEN Does(w, inPath(begun), inPath(gl.MoveCmd))
              ELSE Does(Released(w, box), asked, got)
    BY <1>7, <1>8 DEF Poly, Nothing
  <1>3. Ready(W, app) /\ W.d = dv /\ dv.PathLevel \in Nat
    BY <1>1, ReadyNow DEF Inv, Drivers
  <1>9. FALSE \in BOOLEAN
    OBVIOUS
  <1>5. CASE dv.PathLevel > 0
    <2> DEFINE v == PolyRefused(w, box)
    <2>1. /\ Ready(w, app) /\ w.d.fDirty /\ w.d.PathLevel = dv.PathLevel
          /\ Ready(v, app) /\ v.d.fDirty /\ v.d.PathLevel = dv.PathLevel
      <3>1. W.d.PathLevel > 0
        BY <1>3, <1>5
      <3> QED
        BY <1>3, <3>1, InPathIs
    <2>5. begun = gl.MoveCmd \/ app.broken
      BY <1>5 DEF Inv, PathOK, Globals, Apps
    <2> HIDE DEF w, begun
    <2>2. CASE Quiet(PolyRefused(w, box)) /\ UNCHANGED <<gl, app>>
      <3>1. Quiet(v) /\ UNCHANGED <<gl, app>>
        BY <2>2
      <3> HIDE DEF v
      <3> QED
        BY <1>1, <2>1, <3>1, ReadyQuiet
    <2>3. CASE MoveAfter /\ Does(w, inPath(begun), inPath(gl.MoveCmd))
      <3>1. gl' \in Globals /\ app' \in Apps /\ SameClips(app', app) /\ PathOK(w.d, gl', app')
            /\ app'.broken = app.broken
        BY <2>1, <2>3, MoveAfterIs
      <3> DEFINE asks == inPath(begun)
                 gets == inPath(gl.MoveCmd)
      <3>2. Does(w, asks, gets)
        BY <2>3
      <3>3. /\ asks.stroke = gets.stroke /\ asks.fill = gets.fill /\ asks.tile = gets.tile
            /\ asks.move = begun /\ gets.move = gl.MoveCmd /\ asks.text = gets.text
            /\ asks.clip = gets.clip /\ asks.row = gets.row
        BY DEF Nothing
      <3> HIDE DEF asks, gets
      <3>4. asks.move = gets.move \/ app'.broken
        BY <2>5, <3>1, <3>3
      <3> QED
        BY <1>1, <1>9, <2>1, <3>1, <3>2, <3>3, <3>4, DoesIs
    <2> QED
      BY <1>2, <1>5, <2>2, <2>3
  <1>6. CASE dv.PathLevel = 0
    <2> DEFINE v == PolyRefused(w, box)
    <2>1. /\ InPlace(w, box, app) /\ After(v, w, W, app)
          /\ pen # NoPen => PenSet(w, pen, Loose(app))
          /\ polygon /\ brush \in Brushes => BrushSet(w, brush, dm)
      <3>1. pen \in PenTypes
        BY PensAre
      <3>2. W.d.PathLevel = 0
        BY <1>3, <1>6
      <3>3. \/ ~polygon \/ (brush \in Brushes /\ dm \in DrawModes)
            \/ (brush = Hollow /\ dm = AnyMode)
        OBVIOUS
      <3>4. pen = NoPen \/ pen \in PenTypes
        BY <3>1
      <3>5. Ready(W, app)
        BY <1>3
      <3> HIDE DEF w
      <3>6. v = Unbox(w) \/ (~box /\ v = w)
        BY ReleasedIs
      <3>7. w = Selected(W, pen, round, polygon, brush, dm, box)
        BY DEF w
      <3> HIDE DEF v
      <3>8. \A x, u :
              x = Selected(W, pen, round, polygon, brush, dm, box) /\ (u = Unbox(x) \/ (~box /\ u = x))
                => /\ InPlace(x, box, app) /\ After(u, x, W, app)
                   /\ pen # NoPen => PenSet(x, pen, Loose(app))
                   /\ polygon /\ brush \in Brushes => BrushSet(x, brush, dm)
        <4>1. polygon \in BOOLEAN /\ box \in BOOLEAN
          OBVIOUS
        <4> HIDE DEF drawn, got, asked, inPath, begun
        <4>2. SUFFICES ASSUME NEW x, NEW u, x = Selected(W, pen, round, polygon, brush, dm, box),
                              u = Unbox(x) \/ (~box /\ u = x)
                       PROVE  /\ InPlace(x, box, app) /\ After(u, x, W, app)
                              /\ pen # NoPen => PenSet(x, pen, Loose(app))
                              /\ polygon /\ brush \in Brushes => BrushSet(x, brush, dm)
          OBVIOUS
        <4>3. CASE polygon = TRUE
          BY <1>4, <3>2, <3>3, <3>4, <3>5, <4>1, <4>2, <4>3, Zenon, SelectedIs
        <4>4. CASE polygon = FALSE
          BY <1>4, <3>2, <3>3, <3>4, <3>5, <4>1, <4>2, <4>4, SelectedIs
        <4> QED
          BY <4>1, <4>3, <4>4
      <3> QED
        BY <3>6, <3>7, <3>8
    <2>2. PenSet(w, pen, Loose(app)) /\ (polygon => brush \in Brushes)
      BY <2>1, PensAre
    <2> HIDE DEF w, v
    <2>3. PolyRefused(w, box) = v /\ Released(w, box) = v
      <3>1. PolyRefused(w, box) = v /\ w.d.PathLevel = 0
        BY <2>1 DEF v, InPlace
      <3> QED
        BY <3>1, ReleasedIs
    <2>4. Ready(v, app) /\ v.d.fDirty /\ v.d.PathLevel = dv.PathLevel
      BY <1>3, <2>1 DEF JobState, After
    <2>5. CASE Quiet(PolyRefused(w, box)) /\ UNCHANGED <<gl, app>>
      BY <1>1, <2>3, <2>4, <2>5, ReadyQuiet
    <2>6. CASE MoveAfter /\ Does(Released(w, box), asked, got)
      <3> DEFINE stroke == AskedStroke(pen)
                 paint  == IF polygon THEN AskedFill(brush, dm) ELSE NoPaint
                 tile   == IF polygon THEN brush.tile ELSE None
      <3>8. Loose(app) \in BOOLEAN
        BY DEF Loose
      <3>1. Paints(drawn, w, Loose(app), stroke, paint, tile)
        BY <3>8, <1>4, <2>1, <2>2, FillDrawIs
      <3> HIDE DEF stroke, paint, tile
      <3>2. /\ got.stroke = drawn.stroke /\ got.fill = drawn.fill /\ got.tile = drawn.tile
            /\ got.clip = drawn.clip /\ got.move = gl.MoveCmd /\ got.text = drawn.text /\ got.row = drawn.row
        BY DEF FillDraw, Nothing
      <3>3. /\ asked.stroke = stroke /\ asked.fill = paint /\ asked.tile = tile
            /\ asked.clip = AskedClip(box) /\ asked.move = "M" /\ asked.text = None /\ asked.row = None
        BY DEF Nothing, stroke, paint, tile
      <3>4. Does(v, asked, got)
        BY <2>3, <2>6
      <3> HIDE DEF asked, got, drawn
      <3>5. /\ app.stray \/ AskedClip(box) = w.p.gs.clip
            /\ gl.MoveCmd = "M" \/ app.broken
        BY <1>6, <2>1 DEF AskedClip, InPlace, Inv, PathOK
      <3>6. gl' \in Globals /\ app' \in Apps /\ SameClips(app', app) /\ PathOK(v.d, gl', app')
            /\ app'.broken = app.broken
        BY <2>4, <2>6, MoveAfterIs
      <3>7. /\ asked.stroke = got.stroke \/ Loose(app)
            /\ asked.fill = got.fill /\ (asked.move = got.move \/ app'.broken)
            /\ asked.text = got.text
            /\ asked.clip = got.clip \/ app.stray
            /\ asked.row = got.row
            /\ asked.tile = got.tile \/ Spoilt(v.p)
        BY <2>1, <3>1, <3>2, <3>3, <3>5, <3>6 DEF Paints, Spoilt, After
      <3> QED
        BY <1>1, <1>9, <2>4, <3>4, <3>6, <3>7, DoesIs
    <2> QED
      BY <1>2, <1>6, <2>5, <2>6
  <1> QED
    BY <1>3, <1>5, <1>6

\* Every hollow brush is the one.
LEMMA HollowIs ==
  ASSUME NEW brush \in Brushes, brush.style = "hollow"
  PROVE  brush = Hollow
  <1>1. /\ brush \in [style : {"solid", "hatched", "pattern", "hollow"},
                      color : Tones, bk : Tones, tile : Tones]
        /\ brush.tile = None /\ brush.color = None /\ brush.bk = None
    BY GDIAssumption
  <1> QED
    BY <1>1 DEF Hollow

\* In a path, the lines cut it.
Cuts ==
  /\ gl' = [gl EXCEPT !.MoveCmd = IF dv.PathLevel > 0 THEN "L" ELSE @]
  /\ app' = [app EXCEPT !.begun = @ /\ dv.PathLevel <= 0, !.broken = @ \/ dv.PathLevel > 0]

LEMMA CutIs ==
  ASSUME Inv, Cuts, NEW d, d.PathLevel = dv.PathLevel
  PROVE  /\ gl' \in Globals /\ app' \in Apps /\ SameClips(app', app) /\ PathOK(d, gl', app')
         /\ dv.PathLevel > 0 => app'.broken
  <1> DEFINE begun == app.begun /\ dv.PathLevel <= 0
             broken == app.broken \/ dv.PathLevel > 0
             move == IF dv.PathLevel > 0 THEN "L" ELSE gl.MoveCmd
  <1>1. /\ gl \in Globals /\ app \in Apps /\ dv.PathLevel \in Nat /\ dv.PathLevel <= MaxDepth
        /\ dv.PathLevel = 0 => gl.MoveCmd = "M" \/ app.broken
    BY DEF Inv, Drivers, PathOK
  <1>2. begun \in BOOLEAN /\ broken \in BOOLEAN /\ move \in {"M", "L"}
    BY <1>1 DEF Globals
  <1>3. gl' = [gl EXCEPT !.MoveCmd = move] /\ app' = [app EXCEPT !.begun = begun, !.broken = broken]
    BY <1>1 DEF Cuts, Globals, Apps
  <1>4. /\ dv.PathLevel > 0 => broken
        /\ dv.PathLevel = 0 => move = "M" \/ broken
    BY <1>1
  <1> HIDE DEF begun, broken, move
  <1>5. gl' \in Globals /\ gl'.MoveCmd = move
    BY <1>1, <1>2, <1>3 DEF Globals
  <1>6. app' \in Apps /\ SameClips(app', app) /\ app'.broken = broken
    BY <1>1, <1>2, <1>3 DEF Apps, SameClips
  <1> QED
    BY <1>1, <1>4, <1>5, <1>6 DEF PathOK

LEMMA ScanLinesIs ==
  ASSUME Inv, NEW byBrush \in BOOLEAN, NEW pen, NEW brush, NEW dm,
         \/ byBrush /\ pen = NoPen /\ brush \in Brushes /\ dm \in DrawModes
         \/ ~byBrush /\ pen \in Pens /\ brush = Hollow /\ dm = AnyMode,
         NEW box \in BOOLEAN,
         ScanLines(byBrush, pen, brush, dm, box)
  PROVE  Inv' /\ Right'
  <1>7. PICK round \in BOOLEAN : round = TRUE
    OBVIOUS
  <1>8. PICK brushes \in BOOLEAN : brushes = TRUE
    OBVIOUS
  <1>4. round \in BOOLEAN /\ brushes \in BOOLEAN /\ brushes
    BY <1>7, <1>8
  <1> DEFINE thin  == [pen EXCEPT !.width = 1]
             sent  == IF byBrush THEN NoPen ELSE thin
             w     == Selected(W, sent, round, brushes, brush, dm, box)
             got   == [Nothing EXCEPT !.fill   = IF byBrush THEN FillPaint(w.p) ELSE NoPaint,
                                      !.tile   = IF byBrush THEN TilePaint(w.p) ELSE None,
                                      !.stroke = IF byBrush THEN NoStroke ELSE StrokePaint(w.p),
                                      !.clip   = w.p.gs.clip]
             asked == [Nothing EXCEPT !.fill   = IF byBrush THEN AskedFill(brush, dm) ELSE NoPaint,
                                      !.tile   = IF byBrush THEN brush.tile ELSE None,
                                      !.stroke = IF byBrush THEN NoStroke ELSE AskedStroke(thin),
                                      !.clip   = AskedClip(box)]
  <1>1. Working /\ Cuts
        /\ (IF byBrush THEN brush # Hollow ELSE Drawable(pen))
    BY DEF ScanLines, Uses, Working, Cuts
  <1>2. Does(Released(w, box), IF dv.PathLevel > 0 THEN Nothing ELSE asked, got)
    BY <1>7, <1>8 DEF ScanLines, Nothing
  <1>3. Ready(W, app) /\ W.d = dv /\ dv.PathLevel \in Nat
    BY <1>1, ReadyNow DEF Inv, Drivers
  <1>5. /\ sent = NoPen \/ sent \in PenTypes
        /\ byBrush \/ (sent # NoPen /\ Drawable(sent))
        /\ byBrush \/ sent = thin
    <2>1. CASE byBrush
      BY <2>1
    <2>2. CASE ~byBrush
      <3>1. thin \in PenTypes /\ thin # NoPen
        BY <2>2, PensAre
      <3>2. pen \in [style : STRING, width : Nat, color : STRING] /\ Drawable(pen)
        BY <1>1, <2>2, GDIAssumption
      <3>3. Drawable(thin)
        BY <3>2 DEF Drawable
      <3> QED
        BY <2>2, <3>1, <3>3
    <2> QED
      BY <2>1, <2>2
  <1> HIDE DEF sent, thin
  <1>20. CASE dv.PathLevel > 0
    <2>1. /\ Ready(w, app) /\ w.d.fDirty /\ w.d.PathLevel = dv.PathLevel
      <3>1. W.d.PathLevel > 0
        BY <1>3, <1>20
      <3> QED
        BY <1>3, <3>1, InPathIs
    <2> HIDE DEF w
    <2>2. Released(w, box) = w
      <3>1. ~(w.d.PathLevel <= 0)
        BY <1>3, <1>20, <2>1
      <3> QED
        BY <3>1 DEF Released
    <2>3. got.move = None /\ got.text = None /\ got.row = None
      BY DEF Nothing
    <2>4. Nothing.move = None /\ Nothing.text = None /\ Nothing.row = None
      BY DEF Nothing
    <2> HIDE DEF asked, got
    <2>5. Does(w, Nothing, got)
      BY <1>2, <1>20, <2>2
    <2>6. /\ gl' \in Globals /\ app' \in Apps /\ SameClips(app', app) /\ PathOK(w.d, gl', app')
          /\ dv.PathLevel > 0 => app'.broken
      BY <1>1, <2>1, CutIs
    <2>7. PICK cut \in BOOLEAN : cut = TRUE
      OBVIOUS
    <2>8. cut => app'.broken /\ w.d.PathLevel > 0
      BY <1>20, <2>1, <2>6
    <2>9. cut
      BY <2>7
    <2> QED
      BY <1>1, <2>1, <2>3, <2>4, <2>5, <2>6, <2>8, <2>9, DoesIs
  <1>21. CASE dv.PathLevel = 0
    <2> DEFINE v == PolyRefused(w, box)
    <2>6. /\ InPlace(w, box, app) /\ After(v, w, W, app)
          /\ sent # NoPen => PenSet(w, sent, Loose(app))
          /\ brushes /\ brush \in Brushes => BrushSet(w, brush, dm)
      <3>1. W.d.PathLevel = 0
        BY <1>3, <1>21
      <3>2. \/ ~brushes \/ (brush \in Brushes /\ dm \in DrawModes)
            \/ (brush = Hollow /\ dm = AnyMode)
        OBVIOUS
      <3>3. sent = NoPen \/ sent \in PenTypes
        BY <1>5
      <3>4. Ready(W, app)
        BY <1>3
      <3>5. round \in BOOLEAN /\ brushes \in BOOLEAN
        BY <1>4
      <3>7. w = Selected(W, sent, round, brushes, brush, dm, box)
        BY DEF w
      <3> HIDE DEF w
      <3>6. v = Unbox(w) \/ (~box /\ v = w)
        BY ReleasedIs
      <3> HIDE DEF v, asked, got
      <3> QED
        BY <3>1, <3>2, <3>3, <3>4, <3>5, <3>6, <3>7, SelectedIs, ZenonT(60)
    <2> HIDE DEF w, v
    <2>9. Released(w, box) = v
      <3>1. v = PolyRefused(w, box) /\ w.d.PathLevel = 0
        BY <2>6 DEF v, InPlace
      <3> QED
        BY <3>1, ReleasedIs
    <2>10. Ready(v, app) /\ v.d.fDirty /\ v.d.PathLevel = dv.PathLevel
      BY <1>3, <2>6 DEF JobState, After
    <2>11. byBrush => /\ FillPaint(w.p) = AskedFill(brush, dm)
                      /\ TilePaint(w.p) = brush.tile \/ Spoilt(w.p)
      <3>1. byBrush => brush \in Brushes /\ brush.style # "hollow"
        BY <1>1, HollowIs
      <3> QED
        BY <1>4, <2>6, <3>1 DEF BrushSet
    <2>12. byBrush \/ Loose(app) \/ StrokePaint(w.p) = AskedStroke(thin)
      BY <1>5, <2>6 DEF PenSet
    <2>13. app.stray \/ AskedClip(box) = w.p.gs.clip
      BY <2>6 DEF AskedClip, InPlace
    <2>14. /\ got.fill = IF byBrush THEN FillPaint(w.p) ELSE NoPaint
           /\ got.tile = IF byBrush THEN TilePaint(w.p) ELSE None
           /\ got.stroke = IF byBrush THEN NoStroke ELSE StrokePaint(w.p)
           /\ got.clip = w.p.gs.clip /\ got.move = None /\ got.text = None /\ got.row = None
      BY DEF Nothing
    <2>15. /\ asked.fill = IF byBrush THEN AskedFill(brush, dm) ELSE NoPaint
           /\ asked.tile = IF byBrush THEN brush.tile ELSE None
           /\ asked.stroke = IF byBrush THEN NoStroke ELSE AskedStroke(thin)
           /\ asked.clip = AskedClip(box) /\ asked.move = None /\ asked.text = None /\ asked.row = None
      BY DEF Nothing
    <2>16. Does(v, asked, got)
      <3>1. Does(v, IF dv.PathLevel > 0 THEN Nothing ELSE asked, got)
        BY <1>2, <2>9
      <3> HIDE DEF asked, got
      <3> QED
        BY <1>21, <3>1
    <2> HIDE DEF asked, got
    <2>17. gl' \in Globals /\ app' \in Apps /\ SameClips(app', app) /\ PathOK(v.d, gl', app')
      BY <1>1, <2>10, CutIs
    <2>18. /\ asked.stroke = got.stroke \/ Loose(app)
           /\ asked.fill = got.fill /\ asked.move = got.move /\ asked.text = got.text
           /\ asked.clip = got.clip \/ app.stray
           /\ asked.row = got.row
           /\ asked.tile = got.tile \/ Spoilt(v.p)
      BY <2>6, <2>11, <2>12, <2>13, <2>14, <2>15 DEF Spoilt, After
    <2>19. FALSE \in BOOLEAN
      OBVIOUS
    <2> QED
      BY <1>1, <2>10, <2>16, <2>17, <2>18, <2>19, DoesIs
  <1> QED
    BY <1>3, <1>20, <1>21

(***************************************************************************)
(* Text and bitmaps: in a box that is there, or is not.                    *)
(***************************************************************************)
LEMMA BoxedIs ==
  ASSUME NEW a, NEW w, Ready(w, a), NEW box \in BOOLEAN, NEW b, b = ClipBox(w, box)
  PROVE  Boxed(b, w, box, a.stray)
  <1>1. Live(w) /\ (a.stray \/ ~w.d.fIsClipped)
    BY DEF Ready
  <1>2. Touched(b, w)
    BY <1>1, ClipBoxTouches
  <1>3. box => InBox(b, w)
    BY <1>1, BoxIs DEF Box
  <1>4. ~box /\ ~w.d.fIsClipped => b = w
    BY DEF ClipBox
  <1> QED
    BY <1>1, <1>2, <1>3, <1>4 DEF Boxed

LEMMA ProcsDirty ==
  ASSUME NEW w, Live(w), NEW procs
  PROVE  Procs(w, procs).d.fDirty <=> w.d.fDirty \/ ~(procs \subseteq w.d.DLState)
  <1> DEFINE p == [w.p EXCEPT !.vm.procs = @ \cup procs,
                             !.vm.p = IF "UNPACK" \in procs \ w.d.DLState THEN "byte" ELSE @]
             u == Send(w, p)
             v == [u EXCEPT !.d.DLState = @ \cup procs]
  <1>1. Procs(w, procs) = IF procs \subseteq w.d.DLState THEN w ELSE v
    BY DEF Procs
  <1>2. u.d = [w.d EXCEPT !.fDirty = TRUE] /\ u = [d |-> u.d, p |-> u.p]
    <2> HIDE DEF p
    <2> QED
      BY DEF Send
  <1> HIDE DEF u
  <1>3. v.d = [u.d EXCEPT !.DLState = @ \cup procs]
    BY <1>2
  <1> HIDE DEF v
  <1>4. v.d.fDirty
    BY <1>2, <1>3 DEF Live, Worlds, Drivers
  <1> QED
    BY <1>1, <1>4

\* The procedures do not mind a box that was left behind either.
LEMMA ProcsTouched ==
  ASSUME NEW b, NEW w, Touched(b, w), NEW procs \in SUBSET Procedures, ProcsOK(w.d, w.p.vm),
         NEW v, v = Procs(b, procs), NEW u, u = Procs(w, procs)
  PROVE  Touched(v, u)
  <1>1. /\ Live(b) /\ Live(w) /\ SameBeliefs(b.d, w.d) /\ b.d.DLState = w.d.DLState
        /\ b.p.vm = w.p.vm /\ b.p.marks = w.p.marks /\ (w.d.fDirty => b.d.fDirty)
    BY DEF Touched
  <1>2. ProcsOK(b.d, b.p.vm)
    BY <1>1 DEF ProcsOK
  <1>3. /\ Live(v) /\ SameDriver(v.d, b.d) /\ v.d.DLState = b.d.DLState \cup procs
        /\ v.p.marks = b.p.marks /\ v.p.vm = ProcsVM(b.p.vm, b.d.DLState, procs)
    BY <1>1, <1>2, ProcsIs
  <1>4. /\ Live(u) /\ SameDriver(u.d, w.d) /\ u.d.DLState = w.d.DLState \cup procs
        /\ u.p.marks = w.p.marks /\ u.p.vm = ProcsVM(w.p.vm, w.d.DLState, procs)
    BY <1>1, ProcsIs
  <1>5. u.d.fDirty => v.d.fDirty
    BY <1>1, ProcsDirty
  <1>6. SameBeliefs(v.d, u.d)
    BY <1>1, <1>3, <1>4 DEF SameDriver, SameBeliefs
  <1> QED
    BY <1>1, <1>3, <1>4, <1>5, <1>6 DEF Touched

LEMMA ExtTextOutIs ==
  ASSUME Inv, NEW font \in Fonts, NEW sent \in BOOLEAN,
         NEW color \in {dm.TextColor : dm \in DrawModes},
         NEW box \in BOOLEAN, ExtTextOut(font, sent, color, box)
  PROVE  Inv' /\ Right'
  <1> DEFINE w1 == IF W.d.FillColor # color THEN SendFillColor(W, color) ELSE W
             w2 == SelectFont(w1, font, sent)
             b  == ClipBox(w2, box)
             s  == Send(b, b.p)
             v  == Unbox(s)
             unread == Unread(app.unsent, font, sent)
             asked == [Nothing EXCEPT !.text = <<font.lid, color>>, !.clip = AskedClip(box)]
             got   == [Nothing EXCEPT !.text = <<b.p.gs.font, b.p.vm.fC>>, !.clip = b.p.gs.clip]
  <1>1. /\ Working /\ UNCHANGED gl
        /\ ~font.soft \/ Known(dv, font) \/ Len(dv.slots) < MAXSOFTFONTS
        /\ sent \/ Loads(dv, font)
    BY DEF ExtTextOut, Uses, Working
  <1>2. Does(v, asked, got)
    BY DEF ExtTextOut, TextReady, Unbox
  <1>3. Ready(W, app) /\ W.d = dv /\ app.unsent \in SUBSET SoftFonts /\ app \in Apps
    BY <1>1, ReadyNow DEF Inv
  <1>20. app' = [app EXCEPT !.unsent = unread]
    BY <1>3 DEF ExtTextOut, Unread, Apps
  <1> HIDE DEF unread
  <1>21. /\ app'.unsent = unread /\ app'.clips = app.clips /\ app'.path = app.path
         /\ app'.restored = app.restored /\ app'.stray = app.stray
         /\ app'.broken = app.broken /\ app'.begun = app.begun /\ app'.aborted = app.aborted
    BY <1>3, <1>20 DEF Apps
  <1>4. color \in Tones
    BY GDIAssumption DEF Tones
  <1>5. Ready(w1, app) /\ JobState(w1) = JobState(W) /\ w1.p.vm.fC = color
        /\ w1.d.slots = W.d.slots /\ w1.d.lidFont = W.d.lidFont
    BY <1>3, <1>4, ReadyFillColor
  <1> HIDE DEF w1
  <1>6. /\ ~font.soft \/ Known(w1.d, font) \/ Len(w1.d.slots) < MAXSOFTFONTS
        /\ sent \/ Loads(w1.d, font)
    BY <1>1, <1>3, <1>5 DEF Known, Loads
  <1>7. Ready(w2, app') /\ JobState(w2) = JobState(w1) /\ w2.p.vm.fC = w1.p.vm.fC
        /\ w2.d.lidFont = font.lid /\ app'.unsent \in SUBSET SoftFonts
    <2>1. app'.unsent = Unread(app.unsent, font, sent)
      BY <1>21 DEF unread
    <2>2. w2 = SelectFont(w1, font, sent)
      OBVIOUS
    <2> HIDE DEF w2
    <2> QED
      BY <1>3, <1>5, <1>6, <1>21, <2>1, <2>2, ReadyFont
  <1> HIDE DEF w2
  <1>8. Boxed(b, w2, box, app'.stray)
    BY <1>7, BoxedIs
  <1>9. s.p = b.p
    BY DEF Send
  <1> HIDE DEF b
  <1>10. Painter(s, w2, box, app'.stray) /\ Left(v, w2, app'.stray)
    BY <1>7, <1>8, PainterIs
  <1> HIDE DEF s, v
  <1>11. Ready(v, app') /\ v.d.fDirty /\ JobState(v) = JobState(w2)
    BY <1>7, <1>10, LeftReady
  <1>12. v.d.PathLevel = dv.PathLevel /\ v.d.lidFont = font.lid
    BY <1>3, <1>5, <1>7, <1>10, <1>11 DEF JobState, Left, Touched, SameBeliefs
  <1>13. /\ b.p.vm.fC = color
         /\ app'.stray \/ /\ b.p.gs.font = w2.p.gs.font
                          /\ b.p.gs.clip = [box |-> box, path |-> w2.p.gs.clip.path]
    BY <1>5, <1>7, <1>9, <1>10 DEF Painter
  <1>14. app'.stray \/ w2.p.gs.clip.path = app.path
    BY <1>7, <1>21 DEF Ready, Holds, ClipsOK
  <1>22. Loose(app') \/ w2.p.gs.font = font.lid \/ LidMissing(font.lid, app'.unsent)
    BY <1>7 DEF Ready, Holds, FontOK
  <1>15. /\ asked.stroke = NoStroke /\ asked.fill = NoPaint /\ asked.tile = None
         /\ asked.move = None /\ asked.text = <<font.lid, color>> /\ asked.clip = AskedClip(box)
         /\ asked.row = None
    BY DEF Nothing
  <1>16. /\ got.stroke = NoStroke /\ got.fill = NoPaint /\ got.tile = None
         /\ got.move = None /\ got.text = <<b.p.gs.font, b.p.vm.fC>> /\ got.clip = b.p.gs.clip
         /\ got.row = None
    BY DEF Nothing
  <1> HIDE DEF asked, got
  <1>17. /\ asked.stroke = got.stroke /\ asked.fill = got.fill /\ asked.move = got.move
         /\ asked.tile = got.tile /\ asked.row = got.row
    BY <1>15, <1>16
  <1>18. /\ asked.text = got.text \/ Loose(app') \/ LidMissing(v.d.lidFont, app'.unsent)
         /\ asked.clip = got.clip \/ app'.stray
    BY <1>12, <1>13, <1>14, <1>15, <1>16, <1>22 DEF AskedClip, Loose
  <1>19. gl' \in Globals /\ app' \in Apps /\ SameClips(app', app') /\ PathOK(v.d, gl', app')
    <2>1. app' \in Apps
      BY <1>3, <1>7, <1>20, <1>21 DEF Apps
    <2>2. gl' \in Globals /\ SameClips(app', app')
      BY <1>1 DEF Inv, SameClips
    <2>3. PathOK(v.d, gl', app')
      BY <1>1, <1>12, <1>21 DEF Inv, PathOK
    <2> QED
      BY <2>1, <2>2, <2>3
  <1>23. FALSE \in BOOLEAN /\ app'.aborted = app.aborted
    BY <1>21
  <1> QED
    BY <1>1, <1>2, <1>11, <1>17, <1>18, <1>19, <1>23, DoesIs

LEMMA ImageIs ==
  ASSUME Inv, NEW mono \in BOOLEAN, NEW row \in Rows, NEW box \in BOOLEAN, Image(mono, row, box)
  PROVE  Inv' /\ Right'
  <1> DEFINE needs == Needs(mono)
             u == Procs(W, needs)
             b == IF mono THEN Procs(ClipBox(W, box), needs) ELSE ClipBox(u, box)
             s == Send(b, b.p)
             v == Unbox(s)
             read  == IF needs \subseteq b.p.vm.procs THEN Unpack(RunEncode(row), Len(row))
                      ELSE [row |-> <<>>, rest |-> <<>>]
             asked == [Nothing EXCEPT !.row = [row |-> row, rest |-> <<>>], !.clip = AskedClip(box)]
             got   == [Nothing EXCEPT !.row = read, !.clip = b.p.gs.clip]
  <1>1. Working /\ UNCHANGED <<gl, app>>
    BY DEF Image, Uses, Working
  <1>2. Does(v, asked, got)
    BY DEF Image, ImageReady, Unbox
  <1>3. Ready(W, app) /\ W.d = dv
    BY <1>1, ReadyNow
  <1>4. needs \in SUBSET Procedures
    BY DEF Procedures, Needs
  <1> HIDE DEF needs
  <1>5. Ready(u, app) /\ JobState(u) = JobState(W)
    BY <1>3, <1>4, ReadyProcs
  <1>6. Boxed(b, u, box, app.stray)
    <2>1. CASE mono
      <3> DEFINE c == ClipBox(W, box)
      <3>1. Boxed(c, W, box, app.stray)
        BY <1>3, BoxedIs
      <3>2. b = Procs(c, needs)
        BY <2>1
      <3>3. ProcsOK(W.d, W.p.vm)
        BY <1>3 DEF Ready, Holds
      <3> HIDE DEF c, b
      <3>4. Touched(b, u)
        BY <1>4, <3>1, <3>2, <3>3, ProcsTouched DEF Boxed
      <3>5. CASE app.stray
        BY <3>4, <3>5 DEF Boxed
      <3>6. CASE ~app.stray
        <4>1. (box => InBox(c, W)) /\ (~box => c = W)
          BY <3>1, <3>6 DEF Boxed
        <4>2. box => InBox(b, u)
          BY <1>4, <3>2, <3>3, <4>1, ProcsBoxed
        <4>3. ~box => b = u
          BY <3>2, <4>1
        <4> QED
          BY <3>4, <4>2, <4>3 DEF Boxed
      <3> QED
        BY <3>5, <3>6
    <2>2. CASE ~mono
      <3>1. b = ClipBox(u, box)
        BY <2>2
      <3> HIDE DEF b, u
      <3> QED
        BY <1>5, <3>1, BoxedIs
    <2> QED
      BY <2>1, <2>2
  <1>7. s.p = b.p
    BY DEF Send
  <1> HIDE DEF b, u
  <1>8. Painter(s, u, box, app.stray) /\ Left(v, u, app.stray)
    BY <1>5, <1>6, PainterIs
  <1> HIDE DEF s, v
  <1>9. Ready(v, app) /\ v.d.fDirty /\ JobState(v) = JobState(u)
    BY <1>5, <1>8, LeftReady
  <1>10. v.d.PathLevel = dv.PathLevel
    BY <1>3, <1>5, <1>9 DEF JobState
  <1>11. app.stray \/ b.p.gs.clip = AskedClip(box)
    <2>1. app.stray \/ u.p.gs.clip.path = app.path
      BY <1>5 DEF Ready, Holds, ClipsOK
    <2> QED
      BY <1>7, <1>8, <2>1 DEF Painter, AskedClip
  <1>14. read = [row |-> row, rest |-> <<>>]
    <2>1. needs \subseteq u.p.vm.procs
      <3>1. Live(W) /\ ProcsOK(W.d, W.p.vm)
        BY <1>3 DEF Ready, Holds
      <3> QED
        BY <1>4, <3>1, ProcsIs DEF u
    <2>2. b.p.vm = u.p.vm
      BY <1>7, <1>8 DEF Painter
    <2>3. row \in Seq(Bytes)
      BY GDIAssumption
    <2>4. Unpack(RunEncode(row), Len(row)) = [row |-> row, rest |-> <<>>]
      BY <2>3, RoundTrip
    <2> QED
      BY <2>1, <2>2, <2>4
  <1> HIDE DEF read
  <1>12. /\ asked.stroke = got.stroke /\ asked.fill = got.fill /\ asked.tile = got.tile
         /\ asked.move = got.move /\ asked.text = got.text
         /\ asked.clip = got.clip \/ app.stray
         /\ asked.row = got.row
    BY <1>11, <1>14 DEF Nothing
  <1> HIDE DEF asked, got
  <1>13. gl' \in Globals /\ app' \in Apps /\ SameClips(app', app) /\ PathOK(v.d, gl', app')
    BY <1>1, <1>10 DEF Inv, SameClips, PathOK
  <1>15. FALSE \in BOOLEAN
    OBVIOUS
  <1> QED
    BY <1>1, <1>2, <1>9, <1>12, <1>13, <1>15, DoesIs

(***************************************************************************)
(* Escapes.                                                                *)
(***************************************************************************)
\* Line ends and the depth of paths decide nothing.
LEMMA DeviceKept ==
  ASSUME NEW d, NEW p, NEW a, DeviceOK(d, p, a), NEW e,
         e.fh = d.fh, e.pen = d.pen, e.fPenSelected = d.fPenSelected,
         e.FillMode = d.FillMode, e.FillColor = d.FillColor, e.HatchColor = d.HatchColor,
         e.rgbPat = d.rgbPat, e.lidFont = d.lidFont, e.slots = d.slots, e.DLState = d.DLState,
         e.fIsClipped = d.fIsClipped, d.fDirty => e.fDirty, e.fDirty => d.fDirty \/ e.fh
  PROVE  DeviceOK(e, p, a)
  <1>1. /\ FillOK(d, p.vm) => FillOK(e, p.vm)
        /\ ProcsOK(d, p.vm) => ProcsOK(e, p.vm)
        /\ PenOK(d, p.vm, p.gs) => PenOK(e, p.vm, p.gs)
        /\ FontOK(d, p.gs, a.unsent) => FontOK(e, p.gs, a.unsent)
    BY DEF FillOK, ProcsOK, PenOK, FontOK
  <1>2. SlotsOK(d, p.vm, a.unsent) => SlotsOK(e, p.vm, a.unsent)
    BY DEF SlotsOK, HasSlot
  <1>3. Holds(d, p, a) => Holds(e, p, a)
    BY <1>1, <1>2 DEF Holds
  <1>4. Clean(d) => Clean(e)
    BY DEF Clean
  <1> QED
    BY <1>3, <1>4 DEF DeviceOK

\* What is sent neither paints nor touches what the driver believes.
LEMMA SentIs ==
  ASSUME Inv, Working, NEW p \in Printers, Quiet(Send(W, p)),
         SameMemory(p.vm, pr.vm), p.vm.procs = pr.vm.procs, p.vm.p = pr.vm.p,
         p.marks = pr.marks, gl' \in Globals, app' \in Apps, PathOK(dv, gl', app'),
         app'.stray = app.stray, app'.unsent = app.unsent, app'.aborted = app.aborted,
         app.stray \/ ClipsOK(p.gs, p.saved, app'),
         app.restored => app'.restored,
         Loose(app') \/ (p.gs.dash = pr.gs.dash /\ p.gs.font = pr.gs.font)
  PROVE  Inv' /\ Right'
  <1> DEFINE v == Send(W, p)
  <1>1. Ready(W, app) /\ W.d = dv /\ W.p = pr /\ Live(W)
    BY ReadyNow
  <1>2. /\ Live(v) /\ SameDriver(v.d, dv) /\ v.d.DLState = dv.DLState /\ v.d.fDirty /\ v.p = p
    BY <1>1, SendSame
  <1>3. Quiet(v)
    OBVIOUS
  <1> HIDE DEF v
  <1>4. /\ v.d \in Drivers /\ v.p \in Printers /\ v.d.fh
    BY <1>2 DEF Live, Worlds
  <1>5. /\ FillOK(dv, pr.vm) /\ SlotsOK(dv, pr.vm, app.unsent) /\ ProcsOK(dv, pr.vm)
        /\ Loose(app) \/ (PenOK(dv, pr.vm, pr.gs) /\ FontOK(dv, pr.gs, app.unsent))
        /\ app.stray \/ ~dv.fIsClipped
        /\ Len(dv.slots) <= MAXSOFTFONTS
    BY <1>1 DEF Ready, Holds
  <1>6. FillOK(v.d, p.vm) /\ SlotsOK(v.d, p.vm, app.unsent) /\ ProcsOK(v.d, p.vm)
    BY <1>2, <1>5 DEF FillOK, SlotsOK, HasSlot, ProcsOK, SameDriver, SameBeliefs, SameMemory
  <1>11. Loose(app) => Loose(app')
    BY DEF Loose
  <1>7. Loose(app') \/ (PenOK(v.d, p.vm, p.gs) /\ FontOK(v.d, p.gs, app.unsent))
    BY <1>2, <1>5, <1>11 DEF FontOK, PenOK, SameDriver, SameBeliefs, SameMemory
  <1>8. /\ app.stray \/ ~v.d.fIsClipped
        /\ Len(v.d.slots) <= MAXSOFTFONTS /\ v.d.PathLevel = dv.PathLevel
    BY <1>2, <1>5 DEF SameDriver, SameBeliefs
  <1>12. Holds(v.d, v.p, app')
    BY <1>2, <1>6, <1>7 DEF Holds
  <1>9. DeviceOK(v.d, v.p, app')
    BY <1>2, <1>4, <1>8, <1>12 DEF DeviceOK, Working
  <1>10. PathOK(v.d, gl', app')
    BY <1>8 DEF PathOK
  <1> QED
    BY <1>3, <1>4, <1>9, <1>10, QuietIs

LEMMA SetLineCapIs ==
  ASSUME Inv, NEW cap \in LineCaps, SetLineCap(cap)
  PROVE  Inv' /\ Right'
  <1> DEFINE ends == [dv.iNew EXCEPT !.cap = cap]
             d == [dv EXCEPT !.iNew = ends]
             v == [d |-> d, p |-> pr]
  <1>1. dv \in Drivers /\ pr \in Printers /\ DeviceOK(dv, pr, app) /\ cap \in Int
    BY GDIAssumption DEF Inv
  <1>2. ends \in [Flags -> Int]
    BY <1>1 DEF Drivers, Flags
  <1>3. Quiet(v) /\ UNCHANGED <<gl, app>>
    BY DEF SetLineCap, W
  <1> HIDE DEF ends
  <1>4. /\ d \in Drivers /\ d.fh = dv.fh /\ d.fDirty = dv.fDirty
        /\ d.FillMode = dv.FillMode /\ d.FillColor = dv.FillColor
        /\ d.HatchColor = dv.HatchColor /\ d.rgbPat = dv.rgbPat
        /\ d.pen = dv.pen /\ d.fPenSelected = dv.fPenSelected
        /\ d.lidFont = dv.lidFont /\ d.slots = dv.slots /\ d.DLState = dv.DLState
        /\ d.fIsClipped = dv.fIsClipped /\ d.PathLevel = dv.PathLevel
    BY <1>1, <1>2 DEF Drivers
  <1>5. v.d = d /\ v.p = pr
    OBVIOUS
  <1> HIDE DEF d
  <1>6. DeviceOK(d, pr, app)
    BY <1>1, <1>4, DeviceKept
  <1> HIDE DEF v
  <1>7. gl' \in Globals /\ app' \in Apps /\ PathOK(v.d, gl', app') /\ DeviceOK(v.d, v.p, app')
    BY <1>3, <1>4, <1>5, <1>6 DEF Inv, PathOK
  <1> QED
    BY <1>1, <1>3, <1>4, <1>5, <1>7, QuietIs

LEMMA SetArcDirectionIs ==
  ASSUME Inv, NEW dir \in Arcs, SetArcDirection(dir)
  PROVE  Inv' /\ Right'
  <1>1. /\ Working /\ gl' = [gl EXCEPT !.ArcDir = dir] /\ app' = app
        /\ Quiet(IF dir # gl.ArcDir THEN Send(W, [pr EXCEPT !.vm.arc = dir]) ELSE W)
    BY DEF SetArcDirection, Uses, Working
  <1>2. dv \in Drivers /\ pr \in Printers /\ gl \in Globals /\ DeviceOK(dv, pr, app)
        /\ PathOK(dv, gl, app) /\ app \in Apps
    BY DEF Inv
  <1>3. gl' \in Globals /\ gl'.MoveCmd = gl.MoveCmd
    BY <1>1, <1>2 DEF Globals
  <1>4. app' \in Apps /\ PathOK(dv, gl', app') /\ DeviceOK(dv, pr, app')
    BY <1>1, <1>2, <1>3 DEF PathOK
  <1>5. CASE dir = gl.ArcDir
    <2>1. Quiet(W) /\ W.d = dv /\ W.p = pr
      BY <1>1, <1>5, ReadyNow
    <2> QED
      BY <1>2, <1>3, <1>4, <2>1, QuietIs
  <1>6. CASE dir # gl.ArcDir
    <2> DEFINE p == [pr EXCEPT !.vm.arc = dir]
    <2>1. /\ p \in Printers /\ p.gs = pr.gs /\ p.saved = pr.saved /\ p.marks = pr.marks
          /\ SameMemory(p.vm, pr.vm) /\ p.vm.procs = pr.vm.procs /\ p.vm.p = pr.vm.p
      BY <1>2 DEF Printers, Memories, SameMemory
    <2>2. Quiet(Send(W, p))
      BY <1>1, <1>6
    <2> HIDE DEF p
    <2>3. app.stray \/ ClipsOK(p.gs, p.saved, app')
      BY <1>1, <1>2, <2>1 DEF DeviceOK, Holds, Working
    <2> QED
      BY <1>1, <1>3, <1>4, <2>1, <2>2, <2>3, SentIs
  <1> QED
    BY <1>5, <1>6

LEMMA AppendIs ==
  ASSUME NEW S, NEW q \in Seq(S), NEW x \in S
  PROVE  /\ Append(q, x) \in Seq(S) /\ Len(Append(q, x)) = Len(q) + 1
         /\ \A i \in 1 .. Len(q) : Append(q, x)[i] = q[i]
         /\ Append(q, x)[Len(q) + 1] = x
  OBVIOUS

LEMMA ClipSaveIs ==
  ASSUME Inv, ClipSave
  PROVE  Inv' /\ Right'
  <1> DEFINE p == GSave(pr)
             clips == Append(app.clips, app.path)
  <1>1. Working /\ gl' = gl /\ app' = [app EXCEPT !.clips = clips] /\ Quiet(Send(W, p))
    BY DEF ClipSave, Uses, Working
  <1>2. pr \in Printers /\ gl \in Globals /\ app \in Apps /\ PathOK(dv, gl, app)
        /\ (app.stray \/ ClipsOK(pr.gs, pr.saved, app))
    BY <1>1 DEF Inv, DeviceOK, Holds, Working
  <1> DEFINE g == pr.gs
             old == pr.saved
  <1>3. g \in States /\ old \in Seq(States) /\ app.clips \in Seq(BOOLEAN) /\ app.path \in BOOLEAN
    BY <1>2 DEF Printers, Apps
  <1> DEFINE new == Append(old, g)
  <1>4. new \in Seq(States) /\ clips \in Seq(BOOLEAN)
    BY <1>3
  <1>5. p = [pr EXCEPT !.saved = new]
    BY DEF GSave
  <1> HIDE DEF p
  <1>6. /\ p \in Printers /\ p.gs = pr.gs /\ p.saved = new /\ p.marks = pr.marks /\ p.vm = pr.vm
    BY <1>2, <1>4, <1>5 DEF Printers
  <1>7. /\ app' \in Apps /\ app'.clips = clips /\ app'.path = app.path
        /\ app'.restored = app.restored /\ app'.begun = app.begun /\ app'.broken = app.broken
        /\ app'.stray = app.stray /\ app'.unsent = app.unsent /\ app'.aborted = app.aborted
    BY <1>1, <1>2, <1>4 DEF Apps
  <1>8. ASSUME ~app.stray PROVE ClipsOK(g, new, app')
    <2>1. g.clip = [box |-> FALSE, path |-> app.path] /\ Len(old) = Len(app.clips)
          /\ \A i \in 1 .. Len(old) : old[i].clip = [box |-> FALSE, path |-> app.clips[i]]
      BY <1>2, <1>8 DEF ClipsOK
    <2> HIDE DEF g, old
    <2>2. /\ Len(new) = Len(old) + 1 /\ Len(clips) = Len(old) + 1 /\ Len(old) \in Nat
          /\ \A i \in 1 .. Len(old) : new[i] = old[i] /\ clips[i] = app.clips[i]
          /\ new[Len(old) + 1] = g /\ clips[Len(old) + 1] = app.path
      BY <1>3, <2>1, AppendIs
    <2> HIDE DEF new, clips
    <2>4. \A i \in 1 .. Len(new) : i \in 1 .. Len(old) \/ i = Len(old) + 1
      BY <2>2
    <2>3. \A i \in 1 .. Len(new) : new[i].clip = [box |-> FALSE, path |-> clips[i]]
      BY <2>1, <2>2, <2>4
    <2> QED
      BY <1>7, <2>1, <2>2, <2>3 DEF ClipsOK
  <1> HIDE DEF new, clips
  <1>9. PathOK(dv, gl', app') /\ SameMemory(p.vm, pr.vm)
    BY <1>1, <1>2, <1>6, <1>7 DEF PathOK, SameMemory
  <1>10. app.stray \/ ClipsOK(p.gs, p.saved, app')
    BY <1>6, <1>8
  <1> QED
    BY <1>1, <1>2, <1>6, <1>7, <1>9, <1>10, SentIs

LEMMA ClipRestoreIs ==
  ASSUME Inv, ClipRestore
  PROVE  Inv' /\ Right'
  <1> DEFINE p == GRestore(pr)
             n == Len(app.clips) - 1
             clips == SubSeq(app.clips, 1, n)
             path == app.clips[n + 1]
  <1>7. PICK yes \in BOOLEAN : yes = TRUE
    OBVIOUS
  <1>1. /\ Working /\ gl' = gl /\ Quiet(Send(W, p)) /\ app.clips # <<>>
        /\ app' = [app EXCEPT !.path = app.clips[Len(app.clips)],
                              !.clips = SubSeq(app.clips, 1, Len(app.clips) - 1), !.restored = yes]
    BY <1>7 DEF ClipRestore, Uses, Working
  <1>2. pr \in Printers /\ gl \in Globals /\ app \in Apps /\ PathOK(dv, gl, app)
        /\ (app.stray \/ ClipsOK(pr.gs, pr.saved, app))
    BY <1>1 DEF Inv, DeviceOK, Holds, Working
  <1>3. app.clips \in Seq(BOOLEAN) /\ pr.saved \in Seq(States)
    BY <1>2 DEF Apps, Printers
  <1>4. /\ n \in Nat /\ clips \in Seq(BOOLEAN) /\ Len(clips) = n /\ path \in BOOLEAN
        /\ \A i \in 1 .. n : clips[i] = app.clips[i]
        /\ n + 1 = Len(app.clips)
    BY <1>1, <1>3, FrontIs
  <1>8. app' = [app EXCEPT !.path = path, !.clips = clips, !.restored = yes]
    BY <1>1, <1>4
  <1>9. p \in Printers /\ p.vm = pr.vm /\ p.marks = pr.marks
    BY <1>2, GRestoreIs
  <1> HIDE DEF p, n, clips, path
  <1>10. /\ app' \in Apps /\ app'.clips = clips /\ app'.path = path
         /\ app'.restored = yes /\ app'.begun = app.begun /\ app'.broken = app.broken
         /\ app'.stray = app.stray /\ app'.unsent = app.unsent /\ app'.aborted = app.aborted
    BY <1>2, <1>4, <1>8 DEF Apps
  <1>11. ASSUME ~app.stray PROVE ClipsOK(p.gs, p.saved, app')
    <2> DEFINE old == pr.saved
               new == SubSeq(old, 1, n)
               g == old[n + 1]
    <2>1. /\ Len(old) = Len(app.clips)
          /\ \A i \in 1 .. Len(old) : old[i].clip = [box |-> FALSE, path |-> app.clips[i]]
      BY <1>2, <1>11 DEF ClipsOK
    <2>2. old # <<>> /\ n = Len(old) - 1 /\ Len(old) = n + 1
      BY <1>1, <1>3, <1>4, <2>1
    <2>3. /\ new \in Seq(States) /\ Len(new) = n /\ g \in States
          /\ \A i \in 1 .. n : new[i] = old[i]
      BY <1>3, <2>2, FrontIs
    <2>4. p = [pr EXCEPT !.gs = g, !.saved = new]
      BY <2>2 DEF GRestore, p
    <2> HIDE DEF new, g
    <2>5. p.gs = g /\ p.saved = new
      BY <1>2, <2>3, <2>4 DEF Printers
    <2>6. g.clip = [box |-> FALSE, path |-> path]
      BY <1>4, <2>1, <2>2 DEF g, path
    <2>7. \A i \in 1 .. n : new[i].clip = [box |-> FALSE, path |-> clips[i]]
      BY <1>4, <2>1, <2>2, <2>3
    <2> QED
      BY <1>4, <1>10, <2>3, <2>5, <2>6, <2>7 DEF ClipsOK
  <1>12. PathOK(dv, gl', app') /\ SameMemory(p.vm, pr.vm)
    BY <1>1, <1>2, <1>9, <1>10 DEF PathOK, SameMemory
  <1>13. app'.restored /\ Loose(app')
    BY <1>7, <1>10 DEF Loose
  <1>14. app.stray \/ ClipsOK(p.gs, p.saved, app')
    BY <1>11
  <1>15. Quiet(Send(W, p)) /\ gl' \in Globals
    BY <1>1, <1>2
  <1> QED
    BY <1>1, <1>9, <1>10, <1>12, <1>13, <1>14, <1>15, SentIs

LEMMA ClipInclusiveIs ==
  ASSUME Inv, ClipInclusive
  PROVE  Inv' /\ Right'
  <1>7. PICK yes \in BOOLEAN : yes = TRUE
    OBVIOUS
  <1> DEFINE p == [pr EXCEPT !.gs.clip.path = yes]
  <1>1. Working /\ gl' = gl /\ Quiet(Send(W, p)) /\ app' = [app EXCEPT !.path = yes]
    BY <1>7 DEF ClipInclusive, Uses, Working
  <1>2. pr \in Printers /\ gl \in Globals /\ app \in Apps /\ PathOK(dv, gl, app)
        /\ (app.stray \/ ClipsOK(pr.gs, pr.saved, app))
    BY <1>1 DEF Inv, DeviceOK, Holds, Working
  <1>8. yes \in BOOLEAN
    BY <1>7
  <1> DEFINE c == [pr.gs.clip EXCEPT !.path = yes]
             g == [pr.gs EXCEPT !.clip = c]
  <1>3. pr.gs \in States /\ pr.gs.clip \in ClipTypes /\ p = [pr EXCEPT !.gs = g]
    BY <1>2 DEF Printers, States
  <1>4. c \in ClipTypes /\ c.box = pr.gs.clip.box /\ c.path = yes
    BY <1>3, <1>8 DEF ClipTypes
  <1> HIDE DEF c, p
  <1>5. g \in States /\ g.clip = c /\ g.dash = pr.gs.dash /\ g.font = pr.gs.font
    BY <1>3, <1>4 DEF States
  <1> HIDE DEF g
  <1>6. p \in Printers /\ p.gs = g /\ p.saved = pr.saved /\ p.marks = pr.marks /\ p.vm = pr.vm
    BY <1>2, <1>3, <1>5 DEF Printers
  <1>9. /\ app' \in Apps /\ app'.clips = app.clips /\ app'.path = yes
        /\ app'.restored = app.restored /\ app'.begun = app.begun /\ app'.broken = app.broken
        /\ app'.stray = app.stray /\ app'.unsent = app.unsent /\ app'.aborted = app.aborted
    BY <1>1, <1>2, <1>8 DEF Apps
  <1>10. app.stray \/ c = [box |-> FALSE, path |-> yes]
    <2>1. app.stray \/ pr.gs.clip.box = FALSE
      BY <1>2 DEF ClipsOK
    <2>2. c = [box |-> pr.gs.clip.box, path |-> yes]
      BY <1>3, <1>8, ClipIs DEF c
    <2> QED
      BY <2>1, <2>2
  <1>11. app.stray \/ ClipsOK(p.gs, p.saved, app')
    BY <1>2, <1>5, <1>6, <1>9, <1>10 DEF ClipsOK
  <1>12. PathOK(dv, gl', app') /\ SameMemory(p.vm, pr.vm)
    BY <1>1, <1>2, <1>6, <1>9 DEF PathOK, SameMemory
  <1> QED
    BY <1>1, <1>2, <1>5, <1>6, <1>9, <1>11, <1>12, SentIs

LEMMA BeginPathIs ==
  ASSUME Inv, BeginPath
  PROVE  Inv' /\ Right'
  <1> DEFINE n == dv.PathLevel + 1
             d == [dv EXCEPT !.PathLevel = n]
             v == [d |-> d, p |-> pr]
             move == IF dv.PathLevel = 0 THEN "M" ELSE gl.MoveCmd
             begun == app.begun /\ dv.PathLevel > 0
             broken == app.broken /\ dv.PathLevel > 0
  <1>1. dv \in Drivers /\ pr \in Printers /\ gl \in Globals /\ app \in Apps
        /\ DeviceOK(dv, pr, app) /\ PathOK(dv, gl, app)
    BY DEF Inv
  <1>2. /\ dv.PathLevel < MaxDepth /\ Quiet(v) /\ gl' = [gl EXCEPT !.MoveCmd = move]
        /\ app' = [app EXCEPT !.begun = begun, !.broken = broken]
    BY DEF BeginPath, W
  <1>3. n \in Nat /\ n > 0 /\ n <= MaxDepth /\ dv.PathLevel \in Nat
    BY <1>1, <1>2, BoundsAssumption DEF Drivers
  <1> HIDE DEF n
  <1>4. /\ d \in Drivers /\ d.fh = dv.fh /\ d.fDirty = dv.fDirty
        /\ d.FillMode = dv.FillMode /\ d.FillColor = dv.FillColor
        /\ d.HatchColor = dv.HatchColor /\ d.rgbPat = dv.rgbPat
        /\ d.pen = dv.pen /\ d.fPenSelected = dv.fPenSelected
        /\ d.lidFont = dv.lidFont /\ d.slots = dv.slots /\ d.DLState = dv.DLState
        /\ d.fIsClipped = dv.fIsClipped /\ d.PathLevel = n
    BY <1>1, <1>3 DEF Drivers
  <1>5. v.d = d /\ v.p = pr
    OBVIOUS
  <1> HIDE DEF d, v
  <1>6. /\ move \in {"M", "L"} /\ begun \in BOOLEAN /\ broken \in BOOLEAN
        /\ (move = "L" <=> begun) \/ broken
    BY <1>1, <1>3 DEF PathOK, Globals, Apps
  <1> HIDE DEF move, begun, broken
  <1>7. gl' \in Globals /\ gl'.MoveCmd = move
    BY <1>1, <1>2, <1>6 DEF Globals
  <1>8. app' \in Apps /\ app'.begun = begun /\ app'.broken = broken /\ SameClips(app', app)
    BY <1>1, <1>2, <1>6 DEF Apps, SameClips
  <1>9. DeviceOK(d, pr, app)
    BY <1>1, <1>4, DeviceKept
  <1>10. DeviceOK(d, pr, app')
    BY <1>8, <1>9, HoldsKept DEF DeviceOK, SameClips
  <1>11. PathOK(d, gl', app')
    BY <1>3, <1>4, <1>6, <1>7, <1>8 DEF PathOK
  <1> QED
    BY <1>1, <1>2, <1>4, <1>5, <1>7, <1>8, <1>10, <1>11, QuietIs

LEMMA DoesNothing ==
  ASSUME Inv, NEW v, v.p = pr, Does(v, Nothing, Nothing)
  PROVE  Quiet(v)
  <1> DEFINE marks == dv.fh /\ (pr.marks \/ Nothing # Nothing)
  <1>1. dv' = v.d /\ pr' = [pr EXCEPT !.marks = marks] /\ wrong' = {}
    BY DEF Does
  <1>2. pr \in Printers /\ (dv.fh \/ ~pr.marks) /\ dv \in Drivers
    BY DEF Inv, DeviceOK
  <1>3. marks <=> pr.marks
    BY <1>2
  <1>4. marks \in BOOLEAN /\ pr.marks \in BOOLEAN
    BY <1>2 DEF Printers
  <1>5. marks = pr.marks
    BY <1>3, <1>4
  <1> HIDE DEF marks
  <1>6. pr' = pr
    BY <1>1, <1>2, <1>5 DEF Printers
  <1> QED
    BY <1>1, <1>6 DEF Quiet

LEMMA EndPathIs ==
  ASSUME Inv, NEW mode \in {"no_display", "open", "closed"}, NEW pen,
         NEW round \in BOOLEAN, NEW brush, NEW dm,
         mode = "no_display" \/ pen \in Pens,
         mode # "closed" \/ (brush \in Brushes /\ dm \in DrawModes),
         EndPath(mode, pen, round, brush, dm)
  PROVE  Inv' /\ Right'
  <1> DEFINE broken == app.broken /\ dv.PathLevel > 1
  <1>1. /\ dv.PathLevel > 0 /\ (Working \/ mode = "no_display")
        /\ gl' = [gl EXCEPT !.MoveCmd = IF dv.PathLevel = 1 THEN "M" ELSE gl.MoveCmd]
        /\ app' = [app EXCEPT !.broken = broken]
    BY DEF EndPath, Working
  <1>2. dv \in Drivers /\ pr \in Printers /\ gl \in Globals /\ app \in Apps
        /\ DeviceOK(dv, pr, app) /\ PathOK(dv, gl, app)
    BY DEF Inv
  <1>12. broken \in BOOLEAN /\ (dv.PathLevel > 1 => broken = app.broken)
    BY <1>2 DEF Apps
  <1> HIDE DEF broken
  <1> DEFINE n == dv.PathLevel - 1
  <1>3. n \in Nat /\ n <= MaxDepth /\ dv.PathLevel = n + 1
    BY <1>1, <1>2, BoundsAssumption DEF Drivers, PathOK
  <1>4. gl' \in Globals /\ gl'.MoveCmd = IF dv.PathLevel = 1 THEN "M" ELSE gl.MoveCmd
    <2> DEFINE move == IF dv.PathLevel = 1 THEN "M" ELSE gl.MoveCmd
    <2>1. move \in {"M", "L"}
      BY <1>2 DEF Globals
    <2> HIDE DEF move
    <2>2. gl' \in Globals /\ gl'.MoveCmd = move
      BY <1>1, <1>2, <2>1 DEF Globals, move
    <2> QED
      BY <2>2 DEF move
  <1>5. app' \in Apps /\ SameClips(app', app) /\ app'.begun = app.begun /\ app'.broken = broken
    BY <1>1, <1>2, <1>12 DEF SameClips, Apps
  <1>6. ASSUME NEW d, d.PathLevel = n
        PROVE  PathOK(d, gl', app')
    <2>1. CASE dv.PathLevel = 1
      <3>1. n = 0 /\ gl'.MoveCmd = "M"
        BY <1>3, <1>4, <2>1
      <3> HIDE DEF n
      <3> QED
        BY <1>3, <1>6, <3>1 DEF PathOK
    <2>2. CASE dv.PathLevel > 1
      <3>1. /\ gl'.MoveCmd = gl.MoveCmd /\ app'.begun = app.begun /\ app'.broken = app.broken
            /\ n > 0
        BY <1>3, <1>4, <1>5, <1>12, <2>2
      <3> HIDE DEF n
      <3> QED
        BY <1>1, <1>2, <1>3, <1>6, <3>1 DEF PathOK
    <2> QED
      BY <1>1, <1>2, <2>1, <2>2 DEF Drivers
  <1>10. PICK closed \in BOOLEAN : closed = (mode = "closed")
    OBVIOUS
  <1>11. /\ closed \in BOOLEAN
         /\ closed => Working /\ dv.fh /\ brush \in Brushes /\ dm \in DrawModes
    BY <1>1, <1>10 DEF Working
  <1>7. CASE mode = "no_display" \/ dv.PathLevel # 1
    <2> DEFINE x == IF closed THEN Send(W, pr).d ELSE dv
               d == [x EXCEPT !.PathLevel = n]
               v == [d |-> d, p |-> pr]
    <2>1. Does([d |-> [(IF closed THEN Send(W, pr) ELSE W).d EXCEPT !.PathLevel = @ - 1],
                p |-> pr], Nothing, Nothing)
      BY <1>7, <1>10 DEF EndPath
    <2>2. /\ x \in Drivers /\ SameDriver(x, dv) /\ x.DLState = dv.DLState
          /\ dv.fDirty => x.fDirty
          /\ x.fDirty => dv.fDirty \/ dv.fh
      <3>1. CASE closed
        <4> DEFINE u == Send(W, pr)
        <4>1. Live(W) /\ W.d = dv
          BY <1>11, <3>1, ReadyNow
        <4>2. Live(u) /\ SameDriver(u.d, dv) /\ u.d.DLState = dv.DLState /\ u.d.fDirty
          BY <1>2, <4>1, SendSame
        <4>3. x = u.d
          BY <3>1
        <4> HIDE DEF u, x
        <4> QED
          BY <1>11, <3>1, <4>2, <4>3 DEF Live, Worlds
      <3>2. CASE ~closed
        <4>1. x = dv
          BY <3>2
        <4> HIDE DEF x
        <4> QED
          BY <1>2, <4>1 DEF SameDriver, SameBeliefs
      <3> QED
        BY <3>1, <3>2
    <2>3. Does(v, Nothing, Nothing)
      <3>1. (IF closed THEN Send(W, pr) ELSE W).d = x
        BY DEF W
      <3> HIDE DEF x
      <3>2. x.PathLevel - 1 = n
        BY <2>2 DEF SameDriver, SameBeliefs
      <3> QED
        BY <2>1, <3>1, <3>2
    <2> HIDE DEF x, n
    <2>4. /\ d \in Drivers /\ d.fh = x.fh /\ d.fDirty = x.fDirty
          /\ d.FillMode = x.FillMode /\ d.FillColor = x.FillColor
          /\ d.HatchColor = x.HatchColor /\ d.rgbPat = x.rgbPat
          /\ d.pen = x.pen /\ d.fPenSelected = x.fPenSelected
          /\ d.lidFont = x.lidFont /\ d.slots = x.slots /\ d.DLState = x.DLState
          /\ d.fIsClipped = x.fIsClipped /\ d.PathLevel = n
      BY <1>3, <2>2 DEF Drivers
    <2>5. v.d = d /\ v.p = pr
      OBVIOUS
    <2> HIDE DEF d, v
    <2>6. DeviceOK(d, pr, app)
      BY <1>2, <2>2, <2>4, DeviceKept DEF SameDriver, SameBeliefs
    <2>7. DeviceOK(d, pr, app') /\ PathOK(d, gl', app')
      BY <1>5, <1>6, <2>4, <2>6, HoldsKept DEF DeviceOK, SameClips
    <2>8. Quiet(v)
      BY <2>3, <2>5, DoesNothing
    <2> QED
      BY <1>2, <1>4, <1>5, <2>4, <2>5, <2>7, <2>8, QuietIs
  <1>8. CASE ~(mode = "no_display" \/ dv.PathLevel # 1)
    <2>20. PICK draw \in BOOLEAN : draw = TRUE
      OBVIOUS
    <2>21. draw \in BOOLEAN /\ draw
      BY <2>20
    <2>22. PICK box \in BOOLEAN : box = FALSE
      OBVIOUS
    <2> DEFINE w0 == Send(W, pr)
               w1 == IF closed THEN SelectBrush(w0, brush, dm) ELSE W
               w  == SelectPen(w1, pen, round)
               u  == Send(w, w.p)
               v  == [u EXCEPT !.d.PathLevel = u.d.PathLevel - 1]
               got == FillDraw(w, closed, draw)
               asked == [Nothing EXCEPT !.stroke = AskedStroke(pen), !.ends = got.ends,
                                        !.fill = IF closed THEN AskedFill(brush, dm) ELSE NoPaint,
                                        !.tile = IF closed THEN brush.tile ELSE None,
                                        !.clip = AskedClip(box)]
    <2>1. Does(v, asked, got)
      BY <1>8, <1>10, <2>20, <2>22 DEF EndPath, Nothing
    <2>2. Working /\ Ready(W, app) /\ W.d = dv /\ W.p = pr /\ Live(W) /\ pen \in Pens
      BY <1>1, <1>8, ReadyNow
    <2>3. Ready(w0, app) /\ JobState(w0) = JobState(W)
      <3>1. Left(w0, W, app.stray)
        BY <1>2, <2>2, TouchedSend DEF Left
      <3> HIDE DEF w0
      <3> QED
        BY <2>2, <3>1, LeftReady
    <2> HIDE DEF w0
    <2>4. /\ Ready(w1, app) /\ JobState(w1) = JobState(W)
          /\ closed => BrushSet(w1, brush, dm)
      <3>1. CASE closed
        <4> DEFINE b == SelectBrush(w0, brush, dm)
        <4>1. /\ Ready(b, app) /\ JobState(b) = JobState(w0)
              /\ brush.style = "hollow" <=> b.d.FillMode = FM_NONE
              /\ brush.style # "hollow" =>
                   /\ FillPaint(b.p) = AskedFill(brush, dm)
                   /\ TilePaint(b.p) = brush.tile
                        \/ (b.p.vm.fm.over = "pattern" /\ "UNPACK" \in b.p.vm.procs)
          BY <1>11, <2>3, <3>1, ReadyBrush
        <4>2. w1 = b
          BY <3>1
        <4> HIDE DEF b, w1
        <4> QED
          BY <2>3, <4>1, <4>2 DEF BrushSet, Spoilt
      <3>2. CASE ~closed
        BY <2>2, <3>2
      <3> QED
        BY <3>1, <3>2
    <2> HIDE DEF w1
    <2>5. /\ Ready(w, app) /\ JobState(w) = JobState(w1)
          /\ FillState(w) = FillState(w1) /\ ProcState(w) = ProcState(w1)
          /\ w.d.pen.style = LSNoLine <=> ~Drawable(pen)
          /\ Loose(app) \/ ~Drawable(pen) \/ StrokePaint(w.p) = AskedStroke(pen)
      <3>1. pen \in PenTypes
        BY <2>2, PensAre
      <3> QED
        BY <2>2, <2>4, <3>1, ReadyPen
    <2> HIDE DEF w
    <2>6. PenSet(w, pen, Loose(app))
      BY <2>5 DEF PenSet
    <2>7. closed => BrushSet(w, brush, dm)
      BY <2>4, <2>5 DEF BrushSet, FillState, ProcState, FillPaint, TilePaint, Spoilt
    <2>8. Left(u, w, app.stray) /\ u.p = w.p
      <3>1. Live(w) /\ w.p \in Printers
        BY <2>5 DEF Ready, Live, Worlds
      <3> QED
        BY <3>1, TouchedSend DEF Left
    <2> HIDE DEF u
    <2>9. Ready(u, app) /\ u.d.fDirty /\ JobState(u) = JobState(w) /\ u.p = w.p
      BY <2>5, <2>8, LeftReady
    <2>10. u.d.PathLevel = dv.PathLevel
      BY <2>2, <2>4, <2>5, <2>9 DEF JobState
    <2> DEFINE d == [u.d EXCEPT !.PathLevel = n]
    <2>11. Live(u) /\ u \in Worlds /\ u.d \in Drivers /\ u.p \in Printers
      BY <2>9 DEF Ready, Live, Worlds
    <2>12. v = [u EXCEPT !.d = d]
      BY <2>10, <2>11 DEF Worlds
    <2> HIDE DEF n
    <2>13. /\ d \in Drivers /\ d.fh = u.d.fh /\ d.fDirty = u.d.fDirty
           /\ d.FillMode = u.d.FillMode /\ d.FillColor = u.d.FillColor
           /\ d.HatchColor = u.d.HatchColor /\ d.rgbPat = u.d.rgbPat
           /\ d.pen = u.d.pen /\ d.fPenSelected = u.d.fPenSelected
           /\ d.lidFont = u.d.lidFont /\ d.slots = u.d.slots /\ d.DLState = u.d.DLState
           /\ d.fIsClipped = u.d.fIsClipped /\ d.PathLevel = n
      BY <1>3, <2>11 DEF Drivers
    <2> HIDE DEF d, v
    <2>14. v \in Worlds /\ v.d = d /\ v.p = u.p
      BY <2>11, <2>12, <2>13 DEF Worlds
    <2>15. Holds(d, u.p, app)
      <3>1. /\ FillOK(u.d, u.p.vm) => FillOK(d, u.p.vm)
            /\ ProcsOK(u.d, u.p.vm) => ProcsOK(d, u.p.vm)
            /\ PenOK(u.d, u.p.vm, u.p.gs) => PenOK(d, u.p.vm, u.p.gs)
            /\ FontOK(u.d, u.p.gs, app.unsent) => FontOK(d, u.p.gs, app.unsent)
        BY <2>13 DEF FillOK, ProcsOK, PenOK, FontOK
      <3>2. SlotsOK(u.d, u.p.vm, app.unsent) => SlotsOK(d, u.p.vm, app.unsent)
        BY <2>13 DEF SlotsOK, HasSlot
      <3> QED
        BY <2>9, <3>1, <3>2 DEF Ready, Holds
    <2>16. Ready(v, app) /\ v.d.fDirty /\ PathOK(v.d, gl', app')
      BY <1>6, <2>9, <2>11, <2>13, <2>14, <2>15 DEF Ready, Live
    <2> DEFINE stroke == AskedStroke(pen)
               paint  == IF closed THEN AskedFill(brush, dm) ELSE NoPaint
               tile   == IF closed THEN brush.tile ELSE None
    <2>24. Loose(app) \in BOOLEAN
      BY DEF Loose
    <2>17. Paints(got, w, Loose(app), stroke, paint, tile)
      BY <1>11, <2>2, <2>6, <2>7, <2>21, <2>24, FillDrawIs
    <2> HIDE DEF stroke, paint, tile
    <2>18. /\ asked.stroke = stroke /\ asked.fill = paint /\ asked.tile = tile
           /\ asked.clip = AskedClip(box) /\ asked.move = None /\ asked.text = None /\ asked.row = None
      BY DEF Nothing, stroke, paint, tile
    <2> HIDE DEF asked, got
    <2>19. app.stray \/ AskedClip(box) = w.p.gs.clip
      BY <2>5, <2>22 DEF AskedClip, Ready, Holds, ClipsOK
    <2>23. /\ asked.stroke = got.stroke \/ Loose(app)
           /\ asked.fill = got.fill /\ asked.move = got.move /\ asked.text = got.text
           /\ asked.clip = got.clip \/ app.stray
           /\ asked.row = got.row
           /\ asked.tile = got.tile \/ Spoilt(v.p)
      BY <2>9, <2>14, <2>17, <2>18, <2>19 DEF Paints, Spoilt
    <2>25. FALSE \in BOOLEAN
      OBVIOUS
    <2> QED
      BY <1>4, <1>5, <2>1, <2>2, <2>16, <2>23, <2>25, DoesIs
  <1> QED
    BY <1>7, <1>8

(***************************************************************************)
(* Pages and documents.                                                    *)
(***************************************************************************)
LEMMA FreshHolds ==
  ASSUME NEW d, Clean(d), d.slots = <<>>, NEW a \in Apps, a.clips = <<>>, ~a.path, a.unsent = {}
  PROVE  Holds(d, Fresh, a)
  <1>1. /\ Fresh.vm.fC = None /\ Fresh.vm.procs = {} /\ Fresh.vm.p = "proc"
        /\ Fresh.vm.fonts = [f \in SoftFonts |-> 0] /\ Fresh.gs.font = None
        /\ Fresh.gs.clip = [box |-> FALSE, path |-> FALSE] /\ Fresh.saved = <<>>
    BY DEF Fresh
  <1>2. a.path = FALSE
    BY DEF Apps
  <1>3. FillOK(d, Fresh.vm)
    BY <1>1, GDIAssumption DEF Clean, FillOK, FM_NONE
  <1>4. SlotsOK(d, Fresh.vm, a.unsent)
    <2>1. \A f \in SoftFonts : ~HasSlot(d, f)
      BY DEF HasSlot
    <2>2. \A f \in SoftFonts : Fresh.vm.fonts[f] = 0
      BY <1>1
    <2> QED
      BY <2>1, <2>2 DEF SlotsOK
  <1>5. ProcsOK(d, Fresh.vm)
    BY <1>1 DEF Clean, ProcsOK
  <1>6. ClipsOK(Fresh.gs, Fresh.saved, a)
    <2>1. Fresh.gs.clip = [box |-> FALSE, path |-> a.path]
      BY <1>1, <1>2
    <2>2. Len(Fresh.saved) = 0 /\ Len(a.clips) = 0
      BY <1>1
    <2> QED
      BY <2>1, <2>2 DEF ClipsOK
  <1>7. PenOK(d, Fresh.vm, Fresh.gs) /\ FontOK(d, Fresh.gs, a.unsent)
    BY <1>1 DEF Clean, PenOK, FontOK
  <1> QED
    BY <1>3, <1>4, <1>5, <1>6, <1>7 DEF Holds

\* What is left with the page, and what stays.
LEMMA PageLeftIs ==
  ASSUME Inv, NEW aborted \in BOOLEAN, NEW a, a = PageLeft(aborted)
  PROVE  /\ a \in Apps /\ a.clips = <<>> /\ ~a.path /\ a.unsent = {} /\ a.aborted = aborted
         /\ a.stray <=> app.stray /\ dv.fIsClipped
         /\ a.broken <=> app.broken \/ dv.PathLevel > 0
         /\ a.begun <=> app.begun /\ dv.PathLevel <= 0
  <1>1. PICK no \in BOOLEAN : no = FALSE
    OBVIOUS
  <1>2. app \in Apps /\ dv \in Drivers
    BY DEF Inv
  <1> DEFINE none == <<>>
             empty == {}
             begun == app.begun /\ dv.PathLevel <= 0
             broken == app.broken \/ dv.PathLevel > 0
             stray == app.stray /\ dv.fIsClipped
  <1>3. a = [app EXCEPT !.clips = none, !.path = no, !.restored = no, !.unsent = empty,
                        !.begun = begun, !.broken = broken, !.stray = stray,
                        !.aborted = aborted]
    BY <1>1 DEF PageLeft
  <1>4. /\ no \in BOOLEAN /\ none \in Seq(BOOLEAN) /\ empty \in SUBSET SoftFonts
        /\ begun \in BOOLEAN /\ broken \in BOOLEAN /\ stray \in BOOLEAN
    BY <1>1
  <1> HIDE DEF none, empty, begun, broken, stray
  <1>5. /\ a \in Apps /\ a.clips = none /\ a.path = no /\ a.unsent = empty /\ a.aborted = aborted
        /\ a.stray = stray /\ a.broken = broken /\ a.begun = begun
    BY <1>2, <1>3, <1>4 DEF Apps
  <1>6. ~a.path
    BY <1>1, <1>5
  <1> QED
    BY <1>5, <1>6 DEF none, empty, begun, broken, stray

\* Nothing is believed of the page that was ejected.
LEMMA NewFrameIs ==
  ASSUME NEW w, Live(w), NEW v, v = NewFrame(w)
  PROVE  /\ v \in Worlds /\ v.d.fh /\ Clean(v.d) /\ v.d.slots = <<>> /\ ~v.d.fDirty
         /\ v.d.fIsClipped = w.d.fIsClipped /\ v.d.PathLevel = w.d.PathLevel
         /\ v.p = Fresh
  <1>1. PICK no \in BOOLEAN : no = FALSE
    OBVIOUS
  <1> DEFINE u == Send(w, Fresh)
             none == <<>>
             d == [u.d EXCEPT !.fPenSelected = no, !.DLState = {}, !.lidFont = None,
                              !.slots = none, !.FillMode = FM_NONE, !.FillColor = None,
                              !.fDirty = no]
  <1>2. Live(u) /\ SameDriver(u.d, w.d) /\ u.p = Fresh
    BY FreshIs, SendSame
  <1>3. v = [u EXCEPT !.d.fPenSelected = no, !.d.DLState = {}, !.d.lidFont = None,
                      !.d.slots = none, !.d.FillMode = FM_NONE, !.d.FillColor = None,
                      !.d.fDirty = no]
    BY <1>1 DEF NewFrame
  <1> HIDE DEF u
  <1>4. u \in Worlds /\ u.d \in Drivers /\ u.p \in Printers /\ u.d.fh
    BY <1>2 DEF Live, Worlds
  <1>5. v = [u EXCEPT !.d = d]
    BY <1>3, <1>4 DEF Worlds
  <1>6. FM_NONE \in Modes /\ None \in Tones /\ no \in BOOLEAN /\ none \in Seq(SoftFonts)
    BY <1>1 DEF FM_NONE, Modes, Overs, Tones
  <1> HIDE DEF none
  <1>7. /\ d \in Drivers /\ d.fh = u.d.fh /\ d.fDirty = no /\ d.fPenSelected = no
        /\ d.DLState = {} /\ d.lidFont = None /\ d.slots = none /\ d.FillMode = FM_NONE
        /\ d.FillColor = None /\ d.fIsClipped = u.d.fIsClipped /\ d.PathLevel = u.d.PathLevel
    BY <1>4, <1>6 DEF Drivers
  <1> HIDE DEF d
  <1>8. v \in Worlds /\ v.d = d /\ v.p = u.p
    BY <1>4, <1>5, <1>7 DEF Worlds
  <1>9. Clean(d) /\ ~d.fDirty
    BY <1>1, <1>7 DEF Clean
  <1> QED
    BY <1>2, <1>4, <1>7, <1>8, <1>9 DEF SameDriver, SameBeliefs, none

\* A document ends with its last page ejected, and nothing believed.
LEMMA EndDocIs ==
  ASSUME NEW w, Live(w), w.d.fDirty \/ Clean(w.d), w.d.fDirty \/ ~w.p.marks,
         Len(w.d.slots) <= MAXSOFTFONTS, NEW v, v = EndDoc(w)
  PROVE  /\ v \in Worlds /\ ~v.d.fh /\ v.d.fDirty /\ Clean(v.d)
         /\ v.d.fIsClipped = w.d.fIsClipped
         /\ Len(v.d.slots) <= MAXSOFTFONTS /\ v.d.PathLevel = w.d.PathLevel
         /\ v.p = Fresh
  <1>1. PICK yes \in BOOLEAN : yes = TRUE
    OBVIOUS
  <1>2. PICK no \in BOOLEAN : no = FALSE
    OBVIOUS
  <1> DEFINE f == NewFrame(w)
             u == IF w.d.fDirty THEN f ELSE w
             d == [u.d EXCEPT !.fh = no, !.fDirty = yes]
             p == [Fresh EXCEPT !.marks = u.p.marks]
  <1>3. /\ f \in Worlds /\ f.d.fh /\ Clean(f.d) /\ f.d.slots = <<>>
        /\ f.d.fIsClipped = w.d.fIsClipped /\ f.d.PathLevel = w.d.PathLevel /\ f.p = Fresh
    BY NewFrameIs
  <1>4. v = [d |-> d, p |-> p]
    BY <1>1, <1>2 DEF EndDoc, Ended
  <1> HIDE DEF f
  <1>5. /\ u \in Worlds /\ Clean(u.d) /\ u.d.fIsClipped = w.d.fIsClipped
        /\ Len(u.d.slots) <= MAXSOFTFONTS
        /\ u.d.PathLevel = w.d.PathLevel /\ ~u.p.marks
    <2>1. CASE w.d.fDirty
      <3>1. u = f
        BY <2>1
      <3>2. Len(<<>>) <= MAXSOFTFONTS
        BY BoundsAssumption
      <3> HIDE DEF u
      <3> QED
        BY <1>3, <3>1, <3>2, FreshIs
    <2>2. CASE ~w.d.fDirty
      BY <2>2 DEF Live
    <2> QED
      BY <2>1, <2>2
  <1> HIDE DEF u
  <1>6. u.d \in Drivers /\ u.p \in Printers /\ yes \in BOOLEAN /\ no \in BOOLEAN
    BY <1>1, <1>2, <1>5 DEF Worlds
  <1>7. u.p.marks = FALSE
    BY <1>5, <1>6 DEF Printers
  <1>8. p = Fresh
    BY <1>7, FreshIs
  <1>9. /\ d \in Drivers /\ d.fh = no /\ d.fDirty = yes /\ d.fPenSelected = u.d.fPenSelected
        /\ d.DLState = u.d.DLState /\ d.lidFont = u.d.lidFont /\ d.slots = u.d.slots
        /\ d.FillMode = u.d.FillMode /\ d.FillColor = u.d.FillColor
        /\ d.fIsClipped = u.d.fIsClipped /\ d.PathLevel = u.d.PathLevel
    BY <1>6 DEF Drivers
  <1> HIDE DEF d, p
  <1>10. v \in Worlds /\ v.d = d /\ v.p = Fresh
    BY <1>4, <1>8, <1>9, FreshIs DEF Worlds
  <1>11. Clean(d) /\ ~d.fh /\ d.fDirty
    BY <1>1, <1>2, <1>5, <1>9 DEF Clean
  <1> QED
    BY <1>5, <1>9, <1>10, <1>11

\* A printer that holds nothing, for a driver that believes nothing, or whose job failed.
LEMMA EmptyIs ==
  ASSUME Inv, NEW d \in Drivers, NEW p \in Printers, ~p.marks, NEW v, v.d = d, v.p = p, Quiet(v),
         NEW aborted \in BOOLEAN, NoPage(aborted), gl' = gl,
         d.fIsClipped => dv.fIsClipped, Len(d.slots) <= MAXSOFTFONTS,
         d.PathLevel = dv.PathLevel,
         aborted \/ Clean(d), aborted => d.fDirty,
         d.fh => p = Fresh, d.fh => aborted \/ d.slots = <<>>
  PROVE  Inv' /\ Right'
  <1>1. /\ gl \in Globals /\ PathOK(dv, gl, app) /\ (app.stray \/ ~dv.fIsClipped)
        /\ dv.PathLevel \in Nat
    BY DEF Inv, DeviceOK, Drivers
  <1>2. /\ app' \in Apps /\ app'.clips = <<>> /\ ~app'.path /\ app'.unsent = {}
        /\ app'.aborted = aborted
        /\ app'.stray <=> app.stray /\ dv.fIsClipped
        /\ app'.broken <=> app.broken \/ dv.PathLevel > 0
    BY PageLeftIs DEF NoPage
  <1>3. d.fh /\ ~aborted => Holds(d, p, app')
    BY <1>2, FreshHolds
  <1>4. DeviceOK(d, p, app')
    BY <1>1, <1>2, <1>3 DEF DeviceOK
  <1>5. PathOK(d, gl', app')
    BY <1>1, <1>2 DEF PathOK
  <1> QED
    BY <1>1, <1>2, <1>4, <1>5, QuietIs

LEMMA NewPageIs ==
  ASSUME Inv, NewPage
  PROVE  Inv' /\ Right'
  <1>1. Working /\ Quiet(NewFrame(W)) /\ NoPage(app.aborted) /\ gl' = gl
    BY DEF NewPage, Uses, Working
  <1>2. Ready(W, app) /\ W.d = dv /\ Live(W)
    BY <1>1, ReadyNow
  <1> DEFINE v == NewFrame(W)
  <1>3. /\ v \in Worlds /\ v.d.fh /\ Clean(v.d) /\ v.d.slots = <<>> /\ ~v.d.fDirty
        /\ v.d.fIsClipped = dv.fIsClipped /\ v.d.PathLevel = dv.PathLevel /\ v.p = Fresh
    BY <1>2, NewFrameIs
  <1>4. Quiet(v)
    BY <1>1
  <1> HIDE DEF v
  <1> DEFINE d == v.d
             p == v.p
             aborted == app.aborted
  <1>5. d \in Drivers /\ p \in Printers /\ ~p.marks /\ v.d = d /\ v.p = p
    BY <1>3, FreshIs DEF Worlds
  <1>6. aborted \in BOOLEAN /\ ~aborted
    BY <1>1 DEF Inv, Apps, Working
  <1>7. /\ d.fIsClipped => dv.fIsClipped
        /\ Len(d.slots) <= MAXSOFTFONTS /\ d.PathLevel = dv.PathLevel
        /\ aborted \/ Clean(d)
        /\ aborted => d.fDirty
        /\ d.fh => p = Fresh
        /\ d.fh => aborted \/ d.slots = <<>>
    BY <1>3, <1>6, BoundsAssumption
  <1>8. NoPage(aborted) /\ gl' = gl
    BY <1>1
  <1> HIDE DEF d, p, aborted
  <1> QED
    BY <1>4, <1>5, <1>6, <1>7, <1>8, EmptyIs

\* Whatever became of the last job, the next one begins with nothing believed.
LEMMA EndedIs ==
  ASSUME Inv, dv.fh, NEW v, v = EndDoc(W)
  PROVE  /\ v \in Worlds /\ ~v.d.fh /\ v.d.fDirty /\ Clean(v.d)
         /\ v.d.fIsClipped = dv.fIsClipped
         /\ Len(v.d.slots) <= MAXSOFTFONTS /\ v.d.PathLevel = dv.PathLevel
         /\ v.p = Fresh
  <1>1. W.d = dv /\ W.p = pr /\ Live(W)
    BY DEF W, Live, Worlds, Inv
  <1>2. /\ W.d.fDirty \/ Clean(W.d)
        /\ W.d.fDirty \/ ~W.p.marks
        /\ Len(W.d.slots) <= MAXSOFTFONTS
    BY <1>1 DEF Inv, DeviceOK
  <1>3. /\ v \in Worlds /\ ~v.d.fh /\ v.d.fDirty /\ Clean(v.d)
        /\ v.d.fIsClipped = W.d.fIsClipped
        /\ Len(v.d.slots) <= MAXSOFTFONTS /\ v.d.PathLevel = W.d.PathLevel
        /\ v.p = Fresh
    BY <1>1, <1>2, EndDocIs
  <1> QED
    BY <1>1, <1>3

LEMMA EndDocumentIs ==
  ASSUME Inv, EndDocument
  PROVE  Inv' /\ Right'
  <1>1. PICK no \in BOOLEAN : no = FALSE
    OBVIOUS
  <1>2. dv.fh /\ Quiet(EndDoc(W)) /\ NoPage(no) /\ gl' = gl
    BY <1>1 DEF EndDocument
  <1>3. no \in BOOLEAN /\ ~no
    BY <1>1
  <1> DEFINE v == EndDoc(W)
  <1>4. /\ v \in Worlds /\ ~v.d.fh /\ v.d.fDirty /\ Clean(v.d)
        /\ v.d.fIsClipped = dv.fIsClipped
        /\ Len(v.d.slots) <= MAXSOFTFONTS /\ v.d.PathLevel = dv.PathLevel
        /\ v.p = Fresh
    BY <1>2, EndedIs
  <1>5. Quiet(v)
    BY <1>2
  <1> HIDE DEF v
  <1> DEFINE d == v.d
             p == v.p
  <1>6. d \in Drivers /\ p \in Printers /\ ~p.marks /\ v.d = d /\ v.p = p
    BY <1>4, FreshIs DEF Worlds
  <1>7. /\ d.fIsClipped => dv.fIsClipped
        /\ Len(d.slots) <= MAXSOFTFONTS /\ d.PathLevel = dv.PathLevel
        /\ no \/ Clean(d)
        /\ no => d.fDirty
        /\ d.fh => p = Fresh
        /\ d.fh => no \/ d.slots = <<>>
    BY <1>3, <1>4
  <1> HIDE DEF d, p
  <1>8. NoPage(no) /\ gl' = gl /\ no \in BOOLEAN
    BY <1>2, <1>3
  <1> QED
    BY <1>5, <1>6, <1>7, <1>8, EmptyIs

LEMMA StartDocIs ==
  ASSUME Inv, StartDoc
  PROVE  Inv' /\ Right'
  <1>1. PICK no \in BOOLEAN : no = FALSE
    OBVIOUS
  <1> DEFINE w == IF dv.fh THEN EndDoc(W) ELSE W
  <1>2. PICK opened \in BOOLEAN :
          /\ Quiet([d |-> [w.d EXCEPT !.fh = opened, !.fDirty = opened,
                                      !.slots = IF opened THEN <<>> ELSE @],
                    p |-> IF opened THEN [Fresh EXCEPT !.marks = w.p.marks] ELSE w.p])
    BY DEF StartDoc
  <1>3. (dv.fh \/ ~app.aborted) /\ NoPage(no) /\ gl' = gl
    BY <1>1 DEF StartDoc
  <1>4. no \in BOOLEAN /\ ~no
    BY <1>1
  <1>5. /\ w \in Worlds /\ Clean(w.d) /\ w.d.fIsClipped = dv.fIsClipped
        /\ Len(w.d.slots) <= MAXSOFTFONTS /\ w.d.PathLevel = dv.PathLevel /\ ~w.p.marks
    <2>1. CASE dv.fh
      <3>1. w = EndDoc(W)
        BY <2>1
      <3> HIDE DEF w
      <3> QED
        BY <2>1, <3>1, EndedIs, FreshIs
    <2>2. CASE ~dv.fh
      <3>1. w = W
        BY <2>2
      <3>2. W \in Worlds /\ W.d = dv /\ W.p = pr
        BY DEF W, Worlds, Inv
      <3> HIDE DEF w
      <3> QED
        BY <1>3, <2>2, <3>1, <3>2 DEF Inv, DeviceOK
    <2> QED
      BY <2>1, <2>2
  <1> HIDE DEF w
  <1> DEFINE none == <<>>
             slots == IF opened THEN none ELSE w.d.slots
             d == [w.d EXCEPT !.fh = opened, !.fDirty = opened, !.slots = slots]
             p == IF opened THEN Fresh ELSE w.p
             v == [d |-> d, p |-> p]
  <1>6. w.d \in Drivers /\ w.p \in Printers /\ w.p.marks = FALSE
    BY <1>5 DEF Worlds, Printers
  <1>7. Quiet(v)
    BY <1>2, <1>6, FreshIs
  <1>8. slots \in Seq(SoftFonts) /\ Len(slots) <= MAXSOFTFONTS
    <2>1. none \in Seq(SoftFonts) /\ Len(none) <= MAXSOFTFONTS
      BY BoundsAssumption
    <2> HIDE DEF none
    <2>2. w.d.slots \in Seq(SoftFonts)
      BY <1>6 DEF Drivers
    <2> QED
      BY <1>5, <2>1, <2>2
  <1>9. opened \in BOOLEAN /\ (opened => slots = <<>>)
    BY <1>2
  <1>10. v.d = d /\ v.p = p
    OBVIOUS
  <1> HIDE DEF slots, none, v
  <1>11. p \in Printers /\ ~p.marks /\ (opened => p = Fresh)
    BY <1>5, <1>6, FreshIs
  <1> HIDE DEF p
  <1>12. /\ d \in Drivers /\ d.fh = opened /\ d.fDirty = opened /\ d.slots = slots
         /\ d.fPenSelected = w.d.fPenSelected
         /\ d.DLState = w.d.DLState /\ d.lidFont = w.d.lidFont
         /\ d.FillMode = w.d.FillMode /\ d.FillColor = w.d.FillColor
         /\ d.fIsClipped = w.d.fIsClipped /\ d.PathLevel = w.d.PathLevel
    BY <1>6, <1>8, <1>9 DEF Drivers
  <1> HIDE DEF d
  <1>13. Clean(d)
    BY <1>5, <1>12 DEF Clean
  <1>14. /\ d.fIsClipped => dv.fIsClipped
         /\ Len(d.slots) <= MAXSOFTFONTS /\ d.PathLevel = dv.PathLevel
         /\ no \/ Clean(d)
         /\ no => d.fDirty
         /\ d.fh => p = Fresh
         /\ d.fh => no \/ d.slots = <<>>
    BY <1>4, <1>5, <1>8, <1>9, <1>11, <1>12, <1>13
  <1>15. NoPage(no) /\ gl' = gl /\ no \in BOOLEAN
    BY <1>3, <1>4
  <1> QED
    BY <1>7, <1>10, <1>11, <1>12, <1>14, <1>15, EmptyIs

\* A job that fails leaves an empty page, whether the driver thinks that it is open or not.
LEMMA FailedIs ==
  ASSUME Inv, NEW open \in BOOLEAN, NEW yes \in BOOLEAN, yes,
         Quiet([d |-> [dv EXCEPT !.fh = open, !.fDirty = yes], p |-> Fresh]),
         NoPage(yes), gl' = gl
  PROVE  Inv' /\ Right'
  <1> DEFINE d == [dv EXCEPT !.fh = open, !.fDirty = yes]
             v == [d |-> d, p |-> Fresh]
  <1>1. Quiet(v) /\ v.d = d /\ v.p = Fresh
    OBVIOUS
  <1>2. dv \in Drivers /\ Len(dv.slots) <= MAXSOFTFONTS
    BY DEF Inv, DeviceOK
  <1>3. /\ d \in Drivers /\ d.fh = open /\ d.fDirty = yes /\ d.slots = dv.slots
        /\ d.fIsClipped = dv.fIsClipped /\ d.PathLevel = dv.PathLevel
    BY <1>2 DEF Drivers
  <1> HIDE DEF d, v
  <1>4. /\ d.fIsClipped => dv.fIsClipped
        /\ Len(d.slots) <= MAXSOFTFONTS /\ d.PathLevel = dv.PathLevel
        /\ yes \/ Clean(d)
        /\ yes => d.fDirty
        /\ d.fh => Fresh = Fresh
        /\ d.fh => yes \/ d.slots = <<>>
    BY <1>2, <1>3
  <1> QED
    BY <1>1, <1>3, <1>4, FreshIs, EmptyIs

LEMMA AbortDocIs ==
  ASSUME Inv, AbortDoc
  PROVE  Inv' /\ Right'
  <1>1. PICK yes \in BOOLEAN : yes = TRUE
    OBVIOUS
  <1>2. PICK no \in BOOLEAN : no = FALSE
    OBVIOUS
  <1>3. Quiet([d |-> [dv EXCEPT !.fh = no, !.fDirty = yes], p |-> Fresh])
        /\ NoPage(yes) /\ gl' = gl
    BY <1>1, <1>2 DEF AbortDoc
  <1>4. yes \in BOOLEAN /\ no \in BOOLEAN /\ yes
    BY <1>1, <1>2
  <1> QED
    BY <1>3, <1>4, FailedIs

LEMMA FlushFailsIs ==
  ASSUME Inv, FlushFails
  PROVE  Inv' /\ Right'
  <1>1. PICK yes \in BOOLEAN : yes = TRUE
    OBVIOUS
  <1>2. PICK open \in BOOLEAN :
          Quiet([d |-> [dv EXCEPT !.fh = open, !.fDirty = yes], p |-> Fresh])
    BY <1>1 DEF FlushFails
  <1>3. NoPage(yes) /\ gl' = gl /\ yes \in BOOLEAN /\ yes
    BY <1>1 DEF FlushFails
  <1> QED
    BY <1>2, <1>3, FailedIs

\* So does one that the printer gave up.
LEMMA StoppedIs ==
  ASSUME Inv, NEW w, Live(w), Len(w.d.slots) <= MAXSOFTFONTS, w.d.PathLevel = dv.PathLevel,
         Quiet(Stopped(w)), NEW yes \in BOOLEAN, yes, NoPage(yes), gl' = gl
  PROVE  Inv' /\ Right'
  <1> DEFINE u == Send(w, w.p)
             c == ClipBox(u, FALSE)
             d == c.d
             v == [d |-> d, p |-> Fresh]
  <1>1. Quiet(v) /\ v.d = d /\ v.p = Fresh
    BY DEF Stopped
  <1>2. Touched(u, w) /\ u.d.fDirty
    BY TouchedSend DEF Live, Worlds
  <1> HIDE DEF u
  <1>3. Touched(c, u) /\ ~c.d.fIsClipped
    BY <1>2, ClipBoxTouches DEF Touched
  <1>4. Touched(c, w) /\ c.d.fDirty
    BY <1>2, <1>3, TouchedOn DEF Touched
  <1> HIDE DEF c, v
  <1>5. /\ d \in Drivers /\ d.slots = w.d.slots /\ d.PathLevel = w.d.PathLevel
        /\ d.fDirty /\ ~d.fIsClipped
    BY <1>3, <1>4 DEF Touched, Live, Worlds, SameBeliefs
  <1> HIDE DEF d
  <1>6. /\ d.fIsClipped => dv.fIsClipped
        /\ Len(d.slots) <= MAXSOFTFONTS /\ d.PathLevel = dv.PathLevel
        /\ yes \/ Clean(d)
        /\ yes => d.fDirty
        /\ d.fh => Fresh = Fresh
        /\ d.fh => yes \/ d.slots = <<>>
    BY <1>5
  <1> QED
    BY <1>1, <1>5, <1>6, FreshIs, EmptyIs

LEMMA DIBNoMemoryIs ==
  ASSUME Inv, DIBNoMemory
  PROVE  Inv' /\ Right'
  <1>1. PICK yes \in BOOLEAN : yes = TRUE
    OBVIOUS
  <1>2. Working /\ Quiet(Stopped(W)) /\ NoPage(yes) /\ gl' = gl /\ yes \in BOOLEAN /\ yes
    BY <1>1 DEF DIBNoMemory, Uses, Working
  <1>3. Live(W) /\ W.d = dv /\ Len(W.d.slots) <= MAXSOFTFONTS
    BY <1>2, ReadyNow DEF Ready
  <1> QED
    BY <1>2, <1>3, StoppedIs

LEMMA ProcsUnreadIs ==
  ASSUME Inv, NEW mono \in BOOLEAN, ProcsUnread(mono)
  PROVE  Inv' /\ Right'
  <1>1. PICK yes \in BOOLEAN : yes = TRUE
    OBVIOUS
  <1> DEFINE needs == Needs(mono)
             w == Procs(W, needs)
  <1>2. Working /\ Quiet(Stopped(w)) /\ NoPage(yes) /\ gl' = gl /\ yes \in BOOLEAN /\ yes
    BY <1>1 DEF ProcsUnread, Uses, Working
  <1>3. Ready(W, app) /\ W.d = dv
    BY <1>2, ReadyNow
  <1>4. needs \in SUBSET Procedures
    BY DEF Procedures, Needs
  <1> HIDE DEF needs
  <1>5. Ready(w, app) /\ JobState(w) = JobState(W)
    BY <1>3, <1>4, ReadyProcs
  <1> HIDE DEF w
  <1>6. Live(w) /\ Len(w.d.slots) <= MAXSOFTFONTS /\ w.d.PathLevel = dv.PathLevel
    BY <1>3, <1>5 DEF Ready, JobState
  <1> QED
    BY <1>2, <1>6, StoppedIs

\* Behind the exit of StretchBlt only the clip box is not what it should be.
LEMMA BltNoMemoryIs ==
  ASSUME Inv, NEW box \in BOOLEAN, BltNoMemory(box)
  PROVE  Inv' /\ Right'
  <1> DEFINE u == Send(W, pr)
             v == ClipBox(u, box)
             stray == app.stray \/ box
  <1>1. Working /\ Quiet(v) /\ app' = [app EXCEPT !.stray = stray] /\ gl' = gl
    BY DEF BltNoMemory, Uses, Working
  <1>2. Ready(W, app) /\ W.d = dv /\ W.p = pr /\ Live(W) /\ pr \in Printers
        /\ app \in Apps /\ gl \in Globals /\ PathOK(dv, gl, app)
    BY <1>1, ReadyNow DEF Inv
  <1>3. stray \in BOOLEAN
    BY <1>2 DEF Apps
  <1> HIDE DEF stray
  <1>4. /\ app' \in Apps /\ app'.stray = stray /\ app'.clips = app.clips /\ app'.path = app.path
        /\ app'.restored = app.restored /\ app'.unsent = app.unsent
        /\ app'.aborted = app.aborted /\ app'.begun = app.begun /\ app'.broken = app.broken
    BY <1>1, <1>2, <1>3 DEF Apps
  <1>5. Left(u, W, app.stray)
    BY <1>2, TouchedSend DEF Left
  <1> HIDE DEF u
  <1>6. Ready(u, app) /\ u.d.fDirty /\ JobState(u) = JobState(W)
    BY <1>2, <1>5, LeftReady
  <1>7. Boxed(v, u, box, app.stray)
    BY <1>6, BoxedIs
  <1> HIDE DEF v
  <1>8. /\ Live(v) /\ SameBeliefs(v.d, u.d) /\ v.d.DLState = u.d.DLState /\ v.d.fDirty
        /\ v.p.vm = u.p.vm /\ v.p.marks = u.p.marks
    BY <1>6, <1>7 DEF Boxed, Touched
  <1>9. /\ FillOK(v.d, v.p.vm) /\ SlotsOK(v.d, v.p.vm, app.unsent) /\ ProcsOK(v.d, v.p.vm)
        /\ Len(v.d.slots) <= MAXSOFTFONTS /\ v.d.PathLevel = dv.PathLevel
    BY <1>2, <1>6, <1>8 DEF Ready, Holds, FillOK, SlotsOK, HasSlot, ProcsOK, SameBeliefs, JobState
  <1>10. Holds(v.d, v.p, app') /\ (app'.stray \/ ~v.d.fIsClipped)
    <2>1. CASE app'.stray
      BY <1>4, <1>9, <2>1 DEF Holds, Loose
    <2>2. CASE ~app'.stray
      <3>1. ~app.stray /\ ~box
        BY <1>4, <2>2 DEF stray
      <3>2. v = u
        BY <1>7, <3>1 DEF Boxed
      <3>3. Holds(v.d, v.p, app) /\ ~v.d.fIsClipped
        BY <1>6, <3>1, <3>2 DEF Ready
      <3>4. SameClips(app', app)
        BY <1>2, <1>4, <2>2, <3>1 DEF SameClips, Apps
      <3> QED
        BY <3>3, <3>4, HoldsKept
    <2> QED
      BY <2>1, <2>2
  <1>11. v.d \in Drivers /\ v.p \in Printers /\ v.d.fh
    BY <1>8 DEF Live, Worlds
  <1>12. DeviceOK(v.d, v.p, app')
    BY <1>1, <1>4, <1>8, <1>9, <1>10, <1>11 DEF DeviceOK, Working
  <1>13. PathOK(v.d, gl', app') /\ gl' \in Globals
    BY <1>1, <1>2, <1>4, <1>9 DEF PathOK
  <1> QED
    BY <1>1, <1>4, <1>11, <1>12, <1>13, QuietIs

LEMMA EnabledIs ==
  /\ Enabled \in Drivers /\ Clean(Enabled) /\ ~Enabled.fh /\ ~Enabled.fDirty
  /\ ~Enabled.fIsClipped /\ Enabled.slots = <<>> /\ Enabled.PathLevel = 0
  <1>1. /\ FM_NONE \in Modes /\ None \in Tones /\ "solid" \in Styles /\ Default \in Int
    BY DEF FM_NONE, Modes, Overs, Tones, Styles, Default
  <1> DEFINE pen == [style |-> "solid", width |-> 0, color |-> None]
             ends == [cap |-> Default, join |-> Default]
             none == <<>>
             no == FALSE
  <1>2. pen \in PenTypes /\ ends \in [Flags -> Int] /\ none \in Seq(SoftFonts) /\ no \in BOOLEAN
    BY <1>1 DEF PenTypes, Flags
  <1>3. Enabled = [fh |-> no, fDirty |-> no, fPenSelected |-> no, pen |-> pen,
                   FillMode |-> FM_NONE, FillColor |-> None, HatchColor |-> None, rgbPat |-> None,
                   lidFont |-> None, slots |-> none, DLState |-> {}, fIsClipped |-> no,
                   iCur |-> ends, iNew |-> ends, PathLevel |-> 0]
    BY DEF Enabled
  <1> HIDE DEF pen, ends, none
  <1>4. Enabled \in Drivers
    BY <1>1, <1>2, <1>3 DEF Drivers
  <1>5. Enabled.slots = <<>>
    BY <1>3 DEF none
  <1>6. /\ Clean(Enabled) /\ ~Enabled.fh /\ ~Enabled.fDirty /\ ~Enabled.fIsClipped
        /\ Enabled.PathLevel = 0
    BY <1>3 DEF Clean
  <1> QED
    BY <1>4, <1>5, <1>6

LEMMA NewDCIs ==
  ASSUME Inv, NewDC
  PROVE  Inv' /\ Right'
  <1>1. PICK no \in BOOLEAN : no = FALSE
    OBVIOUS
  <1> DEFINE v == [d |-> Enabled, p |-> Fresh]
             a == PageLeft(no)
  <1>2. Quiet(v) /\ app' = [a EXCEPT !.stray = no] /\ gl' = gl
    BY <1>1 DEF NewDC
  <1>3. v.d = Enabled /\ v.p = Fresh /\ no \in BOOLEAN
    BY <1>1
  <1>4. /\ a \in Apps /\ a.aborted = no
        /\ a.broken <=> app.broken \/ dv.PathLevel > 0
    BY <1>3, PageLeftIs
  <1> HIDE DEF v, a
  <1>5. /\ app' \in Apps /\ app'.aborted = no /\ app'.broken = a.broken
    BY <1>2, <1>3, <1>4 DEF Apps
  <1>6. Len(Enabled.slots) <= MAXSOFTFONTS
    BY EnabledIs, BoundsAssumption
  <1>7. DeviceOK(Enabled, Fresh, app')
    BY <1>6, EnabledIs, FreshIs DEF DeviceOK
  <1>8. gl \in Globals /\ PathOK(dv, gl, app) /\ dv.PathLevel \in Nat
    BY DEF Inv, Drivers
  <1>9. PathOK(Enabled, gl', app')
    BY <1>2, <1>4, <1>5, <1>8, EnabledIs, BoundsAssumption DEF PathOK
  <1> QED
    BY <1>2, <1>3, <1>5, <1>7, <1>8, <1>9, EnabledIs, FreshIs, QuietIs

(***************************************************************************)
(* Every behaviour.                                                        *)
(***************************************************************************)
LEMMA InitIs == Init => Inv /\ Right
  <1> SUFFICES ASSUME Init PROVE Inv /\ Right
    OBVIOUS
  <1>1. dv = Enabled /\ pr = Fresh /\ wrong = {} /\ gl = [MoveCmd |-> "M", ArcDir |-> "ccw"]
    BY DEF Init
  <1> DEFINE none == <<>>
             no == FALSE
  <1>2. PICK calls \in Programs :
          app = [calls |-> calls, clips |-> none, path |-> no, begun |-> no,
                 restored |-> no, aborted |-> no, stray |-> no, broken |-> no, unsent |-> {}]
    BY DEF Init
  <1>3. none \in Seq(BOOLEAN) /\ no \in BOOLEAN
    OBVIOUS
  <1> HIDE DEF none
  <1>4. app \in Apps
    BY <1>2, <1>3 DEF Apps
  <1>5. gl \in Globals /\ gl.MoveCmd = "M"
    BY <1>1 DEF Globals, Arcs
  <1>6. Len(Enabled.slots) <= MAXSOFTFONTS
    BY EnabledIs, BoundsAssumption
  <1>7. DeviceOK(dv, pr, app)
    BY <1>1, <1>6, EnabledIs, FreshIs DEF DeviceOK
  <1>8. PathOK(dv, gl, app)
    BY <1>1, <1>5, EnabledIs, BoundsAssumption DEF PathOK
  <1>9. dv \in Drivers /\ pr \in Printers
    BY <1>1, EnabledIs, FreshIs
  <1>10. Right
    BY <1>1 DEF Right, PaintedAsAsked, StrokeAsAsked, FillAsAsked, MovesOnce, ClipAsAsked,
                      BitmapAsSent
  <1> QED
    BY <1>4, <1>5, <1>7, <1>8, <1>9, <1>10 DEF Inv

LEMMA GDICallIs ==
  ASSUME Inv, GDICall
  PROVE  Inv' /\ Right'
  <1>1. PICK yes \in BOOLEAN : yes = TRUE
    OBVIOUS
  <1>2. PICK no \in BOOLEAN : no = FALSE
    OBVIOUS
  <1>3. yes \in BOOLEAN /\ no \in BOOLEAN /\ yes /\ ~no
    BY <1>1, <1>2
  <1>4. ASSUME NEW pen \in Pens, NEW box \in BOOLEAN, NEW brush \in Brushes, NEW dm \in DrawModes,
               NEW shape \in {"RECTANGLE", "ELLIPSE", "ARC"}, Shape(shape, pen, brush, dm, box)
        PROVE  Inv' /\ Right'
    <2>1. \/ shape = "PATBLT" /\ pen = NoPen
          \/ shape # "PATBLT" /\ pen \in Pens
      OBVIOUS
    <2> QED
      BY <1>4, <2>1, ShapeIs
  <1>5. ASSUME NEW pen \in Pens, NEW box \in BOOLEAN, NEW brush \in Brushes, NEW dm \in DrawModes,
               NEW points, Poly(yes, points, pen, brush, dm, box)
        PROVE  Inv' /\ Right'
    <2>1. yes \in BOOLEAN
      BY <1>3
    <2>2. \/ brush \in Brushes /\ dm \in DrawModes
          \/ ~yes /\ brush = Hollow /\ dm = AnyMode
      OBVIOUS
    <2> QED
      BY <1>5, <2>1, <2>2, PolyIs
  <1>6. ASSUME NEW pen \in Pens, NEW box \in BOOLEAN, NEW points,
               Poly(no, points, pen, Hollow, AnyMode, box)
        PROVE  Inv' /\ Right'
    <2>1. no \in BOOLEAN
      BY <1>3
    <2>2. \/ Hollow \in Brushes /\ AnyMode \in DrawModes
          \/ ~no /\ Hollow = Hollow /\ AnyMode = AnyMode
      BY <1>3
    <2> QED
      BY <1>6, <2>1, <2>2, PolyIs
  <1>7. ASSUME NEW pen \in Pens, NEW box \in BOOLEAN, ScanLines(no, pen, Hollow, AnyMode, box)
        PROVE  Inv' /\ Right'
    <2>1. no \in BOOLEAN
      BY <1>3
    <2>2. \/ no /\ pen = NoPen /\ Hollow \in Brushes /\ AnyMode \in DrawModes
          \/ ~no /\ pen \in Pens /\ Hollow = Hollow /\ AnyMode = AnyMode
      BY <1>3
    <2> QED
      BY <1>7, <2>1, <2>2, ScanLinesIs
  <1>8. ASSUME NEW brush \in Brushes, NEW dm \in DrawModes, Shape("PATBLT", NoPen, brush, dm, no)
        PROVE  Inv' /\ Right'
    <2> DEFINE shape == "PATBLT"
    <2>1. \/ shape = "PATBLT" /\ NoPen = NoPen
          \/ shape # "PATBLT" /\ NoPen \in Pens
      OBVIOUS
    <2>2. Shape(shape, NoPen, brush, dm, no) /\ no \in BOOLEAN
      BY <1>3, <1>8
    <2> HIDE DEF shape
    <2> QED
      BY <2>1, <2>2, ShapeIs
  <1>9. ASSUME NEW brush \in Brushes, NEW dm \in DrawModes, NEW box \in BOOLEAN,
               ScanLines(yes, NoPen, brush, dm, box)
        PROVE  Inv' /\ Right'
    <2>1. yes \in BOOLEAN
      BY <1>3
    <2>2. \/ yes /\ NoPen = NoPen /\ brush \in Brushes /\ dm \in DrawModes
          \/ ~yes /\ NoPen \in Pens /\ brush = Hollow /\ dm = AnyMode
      BY <1>3
    <2> QED
      BY <1>9, <2>1, <2>2, ScanLinesIs
  <1>10. ASSUME NEW font \in Fonts, NEW sent \in BOOLEAN,
                NEW color \in {dm.TextColor : dm \in DrawModes},
                NEW box \in BOOLEAN, ExtTextOut(font, sent, color, box)
         PROVE  Inv' /\ Right'
    BY <1>10, ExtTextOutIs
  <1>11. ASSUME NEW mono \in BOOLEAN, NEW row \in Rows, NEW box \in BOOLEAN,
                Image(mono, row, box)
         PROVE  Inv' /\ Right'
    BY <1>11, ImageIs
  <1>12. CASE \E pen \in Pens, box \in BOOLEAN, brush \in Brushes, dm \in DrawModes,
                 shape \in {"RECTANGLE", "ELLIPSE", "ARC"} : Shape(shape, pen, brush, dm, box)
    BY <1>4, <1>12
  <1>13. CASE \E pen \in Pens, box \in BOOLEAN, brush \in Brushes, dm \in DrawModes,
                 points \in {"few", "half", "many"} : Poly(TRUE, points, pen, brush, dm, box)
    <2>1. \E pen \in Pens, box \in BOOLEAN, brush \in Brushes, dm \in DrawModes,
             points \in {"few", "half", "many"} : Poly(yes, points, pen, brush, dm, box)
      BY <1>1, <1>13
    <2> QED
      BY <1>5, <2>1
  <1>14. CASE \E pen \in Pens, box \in BOOLEAN, points \in {"few", "many"} :
                 Poly(FALSE, points, pen, Hollow, AnyMode, box)
    <2>1. \E pen \in Pens, box \in BOOLEAN, points \in {"few", "many"} :
             Poly(no, points, pen, Hollow, AnyMode, box)
      BY <1>2, <1>14
    <2> QED
      BY <1>6, <2>1
  <1>15. CASE \E pen \in Pens, box \in BOOLEAN : ScanLines(FALSE, pen, Hollow, AnyMode, box)
    <2>1. \E pen \in Pens, box \in BOOLEAN : ScanLines(no, pen, Hollow, AnyMode, box)
      BY <1>2, <1>15
    <2> QED
      BY <1>7, <2>1
  <1>16. CASE \E brush \in Brushes, dm \in DrawModes : Shape("PATBLT", NoPen, brush, dm, FALSE)
    <2>1. \E brush \in Brushes, dm \in DrawModes : Shape("PATBLT", NoPen, brush, dm, no)
      BY <1>2, <1>16
    <2> QED
      BY <1>8, <2>1
  <1>17. CASE \E brush \in Brushes, dm \in DrawModes, box \in BOOLEAN :
                 ScanLines(TRUE, NoPen, brush, dm, box)
    <2>1. \E brush \in Brushes, dm \in DrawModes, box \in BOOLEAN :
             ScanLines(yes, NoPen, brush, dm, box)
      BY <1>1, <1>17
    <2> QED
      BY <1>9, <2>1
  <1>18. CASE \E font \in Fonts, sent \in BOOLEAN, color \in {dm.TextColor : dm \in DrawModes},
                 box \in BOOLEAN : ExtTextOut(font, sent, color, box)
    BY <1>10, <1>18
  <1>19. CASE \E mono \in BOOLEAN, row \in Rows, box \in BOOLEAN : Image(mono, row, box)
    BY <1>11, <1>19
  <1>20. CASE \/ \E box \in BOOLEAN : BltNoMemory(box)
              \/ DIBNoMemory
              \/ \E mono \in BOOLEAN : ProcsUnread(mono)
    BY <1>20, BltNoMemoryIs, DIBNoMemoryIs, ProcsUnreadIs
  <1> QED
    BY <1>12, <1>13, <1>14, <1>15, <1>16, <1>17, <1>18, <1>19, <1>20 DEF GDICall

LEMMA EscapeIs ==
  ASSUME Inv, Escape
  PROVE  Inv' /\ Right'
  <1>1. CASE \E cap \in LineCaps : SetLineCap(cap)
    BY <1>1, SetLineCapIs
  <1>2. CASE \E dir \in {"cw", "ccw"} : SetArcDirection(dir)
    BY <1>2, SetArcDirectionIs DEF Arcs
  <1>3. CASE ClipSave \/ ClipRestore \/ ClipInclusive \/ BeginPath
    BY <1>3, ClipSaveIs, ClipRestoreIs, ClipInclusiveIs, BeginPathIs
  <1>4. CASE EndPath("no_display", NoPen, FALSE, Hollow, AnyMode)
    <2>1. PICK no \in BOOLEAN : no = FALSE
      OBVIOUS
    <2>2. EndPath("no_display", NoPen, no, Hollow, AnyMode) /\ no \in BOOLEAN
      BY <1>4, <2>1
    <2> QED
      BY <2>2, EndPathIs
  <1>6. CASE \E pen \in Pens, round \in BOOLEAN : EndPath("open", pen, round, Hollow, AnyMode)
    BY <1>6, EndPathIs
  <1>7. CASE \E pen \in Pens, round \in BOOLEAN, brush \in Brushes, dm \in DrawModes :
               EndPath("closed", pen, round, brush, dm)
    BY <1>7, EndPathIs
  <1>5. CASE NewPage \/ StartDoc \/ EndDocument \/ AbortDoc \/ FlushFails
    BY <1>5, NewPageIs, StartDocIs, EndDocumentIs, AbortDocIs, FlushFailsIs
  <1> QED
    BY <1>1, <1>2, <1>3, <1>4, <1>5, <1>6, <1>7 DEF Escape

LEMMA SpecInv == Spec => [](Inv /\ Right)
  <1>1. Init => Inv /\ Right
    BY InitIs
  <1>2. (Inv /\ Right) /\ [Next]_vars => (Inv /\ Right)'
    <2> SUFFICES ASSUME Inv, Right, [Next]_vars PROVE Inv' /\ Right'
      OBVIOUS
    <2>1. CASE Next
      BY <2>1, GDICallIs, EscapeIs, NewDCIs DEF Next
    <2>2. CASE UNCHANGED vars
      <3>1. dv' = dv /\ gl' = gl /\ pr' = pr /\ app' = app /\ wrong' = wrong
        BY <2>2 DEF vars
      <3>2. Inv'
        BY <3>1 DEF Inv
      <3>3. Right'
        BY <3>1 DEF Right, PaintedAsAsked, StrokeAsAsked, FillAsAsked, MovesOnce, InCutPath,
                      FontMissing, ClipAsAsked, BitmapAsSent
      <3> QED
        BY <3>2, <3>3
    <2> QED
      BY <2>1, <2>2
  <1> QED
    BY <1>1, <1>2, PTL DEF Spec

(***************************************************************************)
(* The properties of PsState, in every document of every program.          *)
(***************************************************************************)
\* The driver remembers no more soft fonts than it has slots, leaves no clip box between two
\* calls, and the printer has a saved graphics state for each one the application saved and
\* no other, until StretchBlt runs out of memory behind its clip box (ClipBox, CLIP_TO_PATH,
\* DownLineLoadFont).
THEOREM PsTypes == Spec => []TypeOK
  <1>1. Inv => TypeOK
    <2> SUFFICES ASSUME Inv PROVE TypeOK
      OBVIOUS
    <2>1. dv \in Drivers /\ DeviceOK(dv, pr, app) /\ PathOK(dv, gl, app)
      BY DEF Inv
    <2>2. /\ dv.fh \in BOOLEAN /\ dv.fDirty \in BOOLEAN /\ dv.fPenSelected \in BOOLEAN
          /\ dv.pen \in PenTypes /\ dv.FillMode \in Modes /\ dv.PathLevel \in Nat
      BY <2>1 DEF Drivers
    <2>3. dv.pen.style \in Styles
      BY <2>2 DEF PenTypes
    <2>4. Len(dv.slots) <= MAXSOFTFONTS /\ (dv.fIsClipped => app.stray)
      BY <2>1 DEF DeviceOK
    <2>5. ASSUME dv.fh, ~app.stray PROVE Len(pr.saved) = Len(app.clips)
      <3>1. CASE app.aborted
        <4>1. pr.saved = <<>> /\ app.clips = <<>>
          BY <2>1, <2>5, <3>1 DEF DeviceOK, Fresh
        <4> QED
          BY <4>1
      <3>2. CASE ~app.aborted
        BY <2>1, <2>5, <3>2 DEF DeviceOK, Holds, ClipsOK
      <3> QED
        BY <3>1, <3>2
    <2>6. dv.PathLevel \in 0 .. MaxDepth
      BY <2>1, <2>2, BoundsAssumption DEF PathOK
    <2> QED
      BY <2>2, <2>3, <2>4, <2>5, <2>6 DEF TypeOK, Styles, Modes, Overs
  <1> QED
    BY <1>1, SpecInv, PTL

\* Figures are painted with the pen and the brush of the call and move where a figure
\* begins, whatever SelectPen and SelectBrush left out: if nothing was restored behind the
\* driver's back, and while the path was not cut (PaintedAsAsked).
THEOREM PsPainted == Spec => []PaintedAsAsked
  <1>1. Right => PaintedAsAsked
    BY DEF Right
  <1> QED
    BY <1>1, SpecInv, PTL

\* Text is shown in the font and the color of the call, and a soft font the driver
\* remembers is in the printer once, or could not be read when it took the slot
\* (SelectFont, DownLineLoadFont).
THEOREM PsText == Spec => []TextAsAsked
  <1>1. Inv /\ Right => TextAsAsked
    <2> SUFFICES ASSUME Inv, Right PROVE TextAsAsked
      OBVIOUS
    <2>1. "text" \in wrong => app.restored \/ app.stray \/ FontMissing
      BY DEF Right, Loose
    <2>2. ASSUME dv.fh, ~app.aborted, NEW i \in 1 .. Len(dv.slots)
          PROVE  pr.vm.fonts[dv.slots[i]] = IF dv.slots[i] \in app.unsent THEN 0 ELSE 1
      <3>1. dv.slots \in Seq(SoftFonts) /\ SlotsOK(dv, pr.vm, app.unsent)
        BY <2>2 DEF Inv, Drivers, DeviceOK, Holds
      <3>2. dv.slots[i] \in SoftFonts /\ HasSlot(dv, dv.slots[i])
        BY <2>2, <3>1 DEF HasSlot
      <3> QED
        BY <3>1, <3>2 DEF SlotsOK
    <2> QED
      BY <2>1, <2>2 DEF TextAsAsked, FontsOnce
  <1> QED
    BY <1>1, SpecInv, PTL

\* What is painted is clipped to the box of the call and the path of the application, to
\* nothing less and nothing left over, but what StretchBlt left without memory (ClipBox,
\* CLIP_TO_PATH).
THEOREM PsClips == Spec => []ClipAsAsked
  <1>1. Right => ClipAsAsked
    BY DEF Right
  <1> QED
    BY <1>1, SpecInv, PTL

\* The printer has the procedures that a bitmap is sent to, and makes of the codes the rows
\* that were sent (DumpResourceString, RunEncode, unpack).
THEOREM PsBitmaps == Spec => []BitmapAsSent
  <1>1. Right => BitmapAsSent
    BY DEF Right
  <1> QED
    BY <1>1, SpecInv, PTL

\* A document does not end with something painted on a page that was not ejected.
THEOREM PsLastPage == Spec => []LastPageOut
  <1>1. Inv => LastPageOut
    BY DEF Inv, DeviceOK, LastPageOut
  <1> QED
    BY <1>1, SpecInv, PTL

=============================================================================
