------------------------------ MODULE HpFonts ------------------------------
(***************************************************************************)
(* The soft fonts of the HPPCL printer driver: memoman.c, the fonts' part  *)
(* of LoadFontString (fontutil.c) and of str_out (physical.c), and what    *)
(* STARTDOC, NEWFRAME and NEXTBAND (control.c) do to fonts.                *)
(*                                                                         *)
(* The driver downloads a font when a string first needs it, remembers     *)
(* what it believes to be in the printer in the font summary (LRUcount,    *)
(* onPage), and deletes the font used longest ago when the printer's       *)
(* memory or its number of fonts runs out.  All the device contexts that   *)
(* were enabled with the same environment share one font summary           *)
(* (fontman.c).                                                            *)
(*                                                                         *)
(* printer[d] is what a printer holds when it has read the bytes of d's    *)
(* job so far: external, as are the spooler and the applications.          *)
(***************************************************************************)
EXTENDS Integers, FiniteSets, FiniteSetsExt

CONSTANTS DCs,       \* device contexts with the same environment
          Temp,      \* soft fonts that are downloaded on demand
          Perm,      \* soft fonts that the user downloaded for good
          Mem,       \* memUsage of each font
          AvailMem,  \* epAvailMem
          MINMEM,    \* memory a page needs besides the fonts
          MaxSoft,   \* epMaxSoft: fonts in the printer
          MaxPgSoft, \* epMaxPgSoft: fonts on a page
          Courier,   \* the font that FONT_DEFAULT selects
          Missing,   \* a font number under which the printer has no font
          NoFont,    \* epECtl = -1
          NoFile,    \* fonts of Temp whose file cannot be opened
          MaxAge,    \* bound: LRUcount
          MaxScans,  \* bound: calls of ScanSofts by a device context
          LowMem     \* bound: epFreeMem, which every UnloadSofts lowers

Fonts == Temp \cup Perm

ASSUME HpFontsAssumption ==
    /\ IsFiniteSet(Temp) /\ IsFiniteSet(Perm) /\ Temp \cap Perm = {}
    /\ NoFile \subseteq Temp
    /\ {Courier, Missing, NoFont} \cap (Temp \cup Perm) = {}
    /\ Courier # Missing /\ Courier # NoFont /\ Missing # NoFont
    /\ Mem \in [Temp \cup Perm -> Nat \ {0}]
    /\ {AvailMem, MINMEM, MaxSoft, MaxPgSoft, MaxAge, MaxScans} \subseteq Nat
    /\ LowMem \in Int

VARIABLES lru,     \* LRUcount of each font of the summary: -1 is not downloaded
          onPage,  \* onPage of each font of the summary
          dev,     \* the DEVICE structure of each device context
          printer  \* external
vars == <<lru, onPage, dev, printer>>

MemOf(set) == MapThenSumSet(LAMBDA f : Mem[f], set)

NewDevice == [doc |-> "none", page |-> "none", ectl |-> NoFont, freeMem |-> AvailMem,
              totSoft |-> 0, pgSoft |-> 0, fontSub |-> FALSE, scans |-> 0]

NewPrinter == [loaded |-> {}, selected |-> Courier, used |-> {},
               want |-> NoFont, got |-> NoFont]

Init ==
    /\ lru = [f \in Fonts |-> -1]
    /\ onPage = [f \in Fonts |-> FALSE]
    /\ dev = [d \in DCs |-> NewDevice]
    /\ printer = [d \in DCs |-> NewPrinter]

-----------------------------------------------------------------------------
(* The printer.  Nothing reaches it once a write of the job has failed.    *)

Receives(d, p) == printer' = [printer EXCEPT ![d] = IF dev[d].doc = "ok" THEN p ELSE @]

SelectId(p, f) == [p EXCEPT !.selected = IF f \in p.loaded \cup Perm THEN f ELSE Missing]

\* CopySoft: when it cannot open the file nobody looks at what it returns
Load(p, f) == IF f \in NoFile THEN SelectId(p, f)
              ELSE [p EXCEPT !.loaded = @ \cup {f}, !.selected = f]

Delete(p, f) == [p EXCEPT !.loaded = @ \ {f}]

\* A string of font f printed in the font that is selected
Printed(p, f) == [p EXCEPT !.want = f, !.got = p.selected, !.used = @ \cup {p.selected}]

-----------------------------------------------------------------------------
(* The font summary                                                        *)

Downloaded == {f \in Temp : lru[f] # -1}

\* A wrong version: the fonts downloaded for the document before are kept
ForgetFonts0 == lru' = lru /\ onPage' = [f \in Fonts |-> FALSE]

\* InitStartDoc
ForgetFonts == lru' = [f \in Fonts |-> -1] /\ onPage' = [f \in Fonts |-> FALSE]

\* ScanSofts, over the fonts that the summary has as downloaded
Scanned(r, set) == [r EXCEPT !.freeMem = AvailMem - MemOf(set),
                             !.totSoft = @ + Cardinality(set), !.scans = @ + 1]

\* A wrong version: a permanent font gets a count too
TouchAny(l, f) == [g \in Fonts |-> IF g = f THEN 0 ELSE IF l[g] # -1 THEN l[g] + 1 ELSE -1]

\* UpdateSoftInfo: f is the font used last
Touch(l, f) ==
    [g \in Fonts |-> IF g \notin Temp THEN l[g]
                     ELSE IF g = f THEN 0
                     ELSE IF l[g] # -1 THEN l[g] + 1 ELSE -1]

Counted(r, f) == IF onPage[f] THEN r.pgSoft ELSE r.pgSoft + 1

-----------------------------------------------------------------------------
(* Documents and pages                                                     *)

\* STARTDOC
StartDoc(d) ==
    /\ dev[d].doc = "none" /\ dev[d].scans < MaxScans
    /\ ForgetFonts
    /\ LET r == Scanned([dev[d] EXCEPT !.pgSoft = 0, !.fontSub = FALSE], Perm)
       IN  \E opens \in BOOLEAN :
             dev' = [dev EXCEPT ![d] =
                       IF r.freeMem >= MINMEM /\ opens THEN [r EXCEPT !.doc = "ok"] ELSE r]
    /\ printer' = [printer EXCEPT ![d] = NewPrinter]

\* NEWFRAME, between two pages
NewFrame(d) ==
    /\ dev[d].doc # "none" /\ dev[d].page = "none" /\ dev[d].scans < MaxScans
    /\ dev' = [dev EXCEPT ![d] = Scanned(@, Perm \cup Downloaded)]
    /\ onPage' = [f \in Fonts |-> IF f \in Perm \cup Downloaded THEN FALSE ELSE onPage[f]]
    /\ UNCHANGED <<lru, printer>>

\* The first NEXTBAND of a page.  The printer is reset with the first page of a
\* job, which deletes every font that is not permanent.
StartPage(d) ==
    /\ dev[d].doc = "ok" /\ dev[d].page = "none"
    /\ dev' = [dev EXCEPT ![d].page = "text", ![d].ectl = NoFont]
    /\ Receives(d, [printer[d] EXCEPT !.used = {}, !.want = NoFont, !.got = NoFont])
    /\ UNCHANGED <<lru, onPage>>

\* The last NEXTBAND of a page: the printer goes back to its default font
EndPage(d) ==
    /\ dev[d].doc = "ok" /\ dev[d].page = "text"
    /\ dev' = [dev EXCEPT ![d].page = "none"]
    /\ Receives(d, [printer[d] EXCEPT !.selected = Courier, !.used = {}])
    /\ UNCHANGED <<lru, onPage>>

\* A write that the spooler refuses (myWriteSpool)
WriteFails(d) ==
    /\ dev[d].doc = "ok"
    /\ dev' = [dev EXCEPT ![d].doc = "failed"]
    /\ UNCHANGED <<lru, onPage, printer>>

\* ENDDOC, ABORTDOC, and the NEXTBAND that aborts a job that has failed
EndDoc(d) ==
    /\ dev[d].doc # "none"
    /\ dev' = [dev EXCEPT ![d].doc = "none", ![d].page = "none"]
    /\ UNCHANGED <<lru, onPage, printer>>

-----------------------------------------------------------------------------
(* str_out: a string in font f, in the text band                           *)

Young == \A f \in Temp : lru[f] < MaxAge

\* The font is the one the driver selected last
PrintAgain(d, f) ==
    /\ dev[d].page = "text" /\ dev[d].ectl = f
    /\ Receives(d, Printed(printer[d], f))
    /\ UNCHANGED <<lru, onPage, dev>>

\* LoadFontString: the font is in the printer
SelectLoaded(d, f) ==
    /\ dev[d].page = "text" /\ dev[d].ectl # f /\ Young
    /\ f \in Perm \/ lru[f] # -1
    /\ lru' = Touch(lru, f)
    /\ onPage' = [onPage EXCEPT ![f] = TRUE]
    /\ dev' = [dev EXCEPT ![d].ectl = f, ![d].pgSoft = Counted(dev[d], f)]
    /\ Receives(d, Printed(SelectId(printer[d], f), f))

NeedsDownload(d, f) ==
    dev[d].page = "text" /\ dev[d].ectl # f /\ f \in Temp /\ lru[f] = -1 /\ Young

PageFull(r) == r.pgSoft >= MaxPgSoft

\* A wrong version: the memory for the page itself is not kept free
FullToTheBrim(r, f) == r.freeMem < Mem[f] \/ r.totSoft >= MaxSoft

Full(r, f) == r.freeMem < Mem[f] + MINMEM \/ r.totSoft >= MaxSoft

\* A wrong version: a font on the page may go
VictimsAny(f) == {g \in Fonts : Mem[g] >= Mem[f] /\ lru[g] > -1}

\* UnloadSofts: the fonts that may be deleted to make room for f
Victims(f) == {g \in Fonts : ~onPage[g] /\ Mem[g] >= Mem[f] /\ lru[g] > -1}

\* The fonts that UnloadSofts may choose: those with the highest LRUcount
Oldest(set) == {g \in set : \A h \in set : lru[h] <= lru[g]}

\* DownLoadSoft when there is room
Download(d, f) ==
    /\ NeedsDownload(d, f) /\ ~PageFull(dev[d]) /\ ~Full(dev[d], f)
    /\ lru' = Touch(lru, f)
    /\ onPage' = [onPage EXCEPT ![f] = TRUE]
    /\ dev' = [dev EXCEPT ![d].ectl = f, ![d].pgSoft = Counted(dev[d], f),
                          ![d].freeMem = @ - Mem[f], ![d].totSoft = @ + 1]
    /\ Receives(d, Printed(Load(printer[d], f), f))

\* DownLoadSoft with UnloadSofts: the memory is given back as the difference
\* between the two fonts, and the count of the page goes down with the victim's
DownloadOver(d, f) ==
    /\ NeedsDownload(d, f) /\ ~PageFull(dev[d]) /\ Full(dev[d], f)
    /\ dev[d].freeMem > LowMem
    /\ \E v \in Oldest(Victims(f)) :
         /\ lru' = Touch([lru EXCEPT ![v] = -1], f)
         /\ onPage' = [onPage EXCEPT ![f] = TRUE]
         /\ dev' = [dev EXCEPT ![d].ectl = f, ![d].pgSoft = Counted(dev[d], f) - 1,
                               ![d].freeMem = @ - Mem[v]]
         /\ Receives(d, Printed(Load(Delete(printer[d], v), f), f))

\* DownLoadSoft fails: the default font stands in, with one warning to the user
Substitute(d, f) ==
    /\ NeedsDownload(d, f)
    /\ PageFull(dev[d]) \/ (Full(dev[d], f) /\ Victims(f) = {})
    /\ dev' = [dev EXCEPT ![d].ectl = f, ![d].fontSub = TRUE]
    /\ Receives(d, Printed([printer[d] EXCEPT !.selected = Courier], f))
    /\ UNCHANGED <<lru, onPage>>

\* DownLoadSoft finds no name for the font's file (MakeFontSumFNm) after it
\* has already made room
NoFileName(d, f) ==
    /\ NeedsDownload(d, f) /\ ~PageFull(dev[d])
    /\ \/ ~Full(dev[d], f) /\ UNCHANGED lru
          /\ dev' = [dev EXCEPT ![d].ectl = f, ![d].fontSub = TRUE]
          /\ Receives(d, Printed([printer[d] EXCEPT !.selected = Courier], f))
       \/ /\ Full(dev[d], f) /\ dev[d].freeMem > LowMem
          /\ \E v \in Oldest(Victims(f)) :
               /\ lru' = [lru EXCEPT ![v] = -1]
               /\ dev' = [dev EXCEPT ![d].ectl = f, ![d].fontSub = TRUE,
                            ![d].pgSoft = @ - 1, ![d].totSoft = @ - 1,
                            ![d].freeMem = @ + Mem[f] - Mem[v]]
               /\ Receives(d, Printed([Delete(printer[d], v) EXCEPT !.selected = Courier], f))
    /\ UNCHANGED onPage

PrintString(d, f) ==
    \/ PrintAgain(d, f) \/ SelectLoaded(d, f) \/ Download(d, f)
    \/ DownloadOver(d, f) \/ Substitute(d, f) \/ NoFileName(d, f)

Next ==
    \E d \in DCs :
        \/ StartDoc(d) \/ NewFrame(d) \/ StartPage(d) \/ EndPage(d)
        \/ WriteFails(d) \/ EndDoc(d)
        \/ \E f \in Fonts : PrintString(d, f)

Spec == Init /\ [][Next]_vars

-----------------------------------------------------------------------------
TypeOK ==
    /\ lru \in [Fonts -> Nat \cup {-1}]
    /\ \A f \in Perm : lru[f] = -1
    /\ onPage \in [Fonts -> BOOLEAN]
    /\ dev \in [DCs -> [doc: {"none", "ok", "failed"}, page: {"none", "text"},
                        ectl: Fonts \cup {NoFont}, freeMem: Int, totSoft: Int,
                        pgSoft: Int, fontSub: BOOLEAN, scans: Nat]]
    /\ printer \in [DCs -> [loaded: SUBSET Temp, selected: Fonts \cup {Courier, Missing},
                            used: SUBSET (Fonts \cup {Courier, Missing}),
                            want: Fonts \cup {NoFont},
                            got: Fonts \cup {Courier, Missing, NoFont}]]

\* Every string of a font that can be downloaded is printed in that font, or in
\* the default font when the user was warned (str_out, LoadFontString,
\* DownLoadSoft).
FontAsAsked ==
    \A d \in DCs : LET p == printer[d] IN
        p.got # p.want /\ p.want \notin NoFile
        => p.got = Courier /\ (dev[d].doc = "ok" => dev[d].fontSub)

\* A font that the page in work uses stays in the printer until the page is
\* out: making room never takes it (UnloadSofts, onPage).
PageFontsKept ==
    \A d \in DCs : printer[d].used \cap Temp \subseteq printer[d].loaded

\* The memory that a page needs besides the fonts is never given to a font, and
\* the printer never holds more fonts than it can (DownLoadSoft, UnloadSofts,
\* ScanSofts: whatever their counters say).
PrinterFits ==
    \A d \in DCs : dev[d].doc = "ok" =>
        LET held == printer[d].loaded \cup Perm
        IN  MemOf(held) + MINMEM <= AvailMem /\ Cardinality(held) <= MaxSoft

=============================================================================
