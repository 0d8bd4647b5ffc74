------------------------------- MODULE HpJob -------------------------------
(***************************************************************************)
(* A print job of the HPPCL printer driver: the escapes of control.c that  *)
(* open, band, end and abort a document, the drawing calls of stubs.c and  *)
(* ExtTextOut that run between them, and the spool buffer of utils.c.      *)
(*                                                                         *)
(* A page is banded: the first NEXTBAND returns the whole page for text    *)
(* (TEXTBAND), the following ones the strips of the page, each drawn into  *)
(* one bitmap and sent by the NEXTBAND after it.  The application may ask  *)
(* BANDINFO in each band and then sends only what it is told to.           *)
(*                                                                         *)
(* dc is the DEVICE structure, queue the spooler's job together with what  *)
(* the printer receives from it (external), app the application (external).*)
(***************************************************************************)
EXTENDS Integers, FiniteSets

CONSTANTS NumBands,  \* epNumBands: strips of graphics on a page
          MaxPages,  \* bound: pages of a document
          MaxDocs,   \* bound: documents
          Options,   \* set of configurations of the printer and of WIN.INI
          Contents,  \* set of pages that the application may print
          KeepsDC    \* does an application print again on a DC after an error or
                     \* an ABORTDOC

Bands == 1 .. NumBands
TEXTBAND == 1
SIMPLEX == 1    \* DMDUP_SIMPLEX; 2 is vertical and 3 horizontal

\* resetJob: OPTIONS_RESETJOB; duplexer: epCaps & ANYDUPLEX; spooler: the
\* spooler line of WIN.INI; scaled: epScaleFac # 0
Option == [resetJob: BOOLEAN, duplexer: BOOLEAN, spooler: BOOLEAN, scaled: BOOLEAN]

\* What a page holds: the bands with graphics, the bands with text that GDI
\* draws for the driver, and whether text has an opaque background; info tells
\* whether the application uses BANDINFO.
Content == [grx: SUBSET Bands, vector: SUBSET Bands, opaque: BOOLEAN, info: BOOLEAN]

ASSUME HpJobAssumption ==
    /\ NumBands \in Nat \ {0}
    /\ MaxPages \in Nat /\ MaxDocs \in Nat
    /\ Options \subseteq Option
    /\ Contents \subseteq Content
    /\ KeepsDC \in BOOLEAN

VARIABLES opt, dc, queue, app
vars == <<opt, dc, queue, app>>

NewDC(draft, duplex) ==
    [doc |-> 0, job |-> 0, nband |-> 0, mode |-> IF draft THEN {"DRAFT"} ELSE {},
     gdiText |-> FALSE, opaqText |-> FALSE, pages |-> 0, duplex |-> duplex,
     buf |-> {}, bitmap |-> {}]

NoPage == [done |-> {}, whited |-> {}, cursor |-> 0]

EmptyQueue == [state |-> "none", failed |-> FALSE, misused |-> FALSE, foreign |-> FALSE,
               twoSided |-> FALSE, sides |-> 0, page |-> NoPage]

NoContent == [grx |-> {}, vector |-> {}, opaque |-> FALSE, info |-> FALSE]

Init ==
    /\ opt \in Options
    /\ \E draft \in BOOLEAN, duplex \in {1, 2, 3} : dc = NewDC(draft, duplex)
    /\ queue = EmptyQueue
    /\ app = [pc |-> "nodoc", docs |-> 0, content |-> NoContent, todo |-> {},
              asked |-> FALSE]

-----------------------------------------------------------------------------
(* The services of the spooler, on a pair w of the device and the queue.   *)
(* ok is the answer.  A job that has answered a call with an error answers *)
(* every later one with it; a call that the job forbids is recorded.       *)

World == [dc |-> dc, queue |-> queue]

Asked(w, ok, legal, state) ==
    LET good == ok /\ ~w.queue.failed
    IN  [w.queue EXCEPT !.misused = @ \/ ~legal, !.failed = ~good,
                        !.state = IF good THEN state ELSE @]

Answer(q) == IF q.failed THEN -1 ELSE 1

StartSpoolPage(w, ok) ==
    LET q == Asked(w, ok, w.queue.state # "none", "page")
    IN  [dc |-> [w.dc EXCEPT !.doc = Answer(q)],
         queue |-> [q EXCEPT !.page = IF q.failed THEN @ ELSE NoPage]]

EndSpoolPage(w, ok) ==
    LET q == Asked(w, ok, w.queue.state # "none", "open")
    IN  [dc |-> [w.dc EXCEPT !.doc = Answer(q)], queue |-> q]

\* An ABORTDOC or a NEXTBAND outside a document ends the number that ENDDOC, or
\* a STARTDOC that was refused, left in epJob.
LeftOver == app.pc = "nodoc"

\* CloseJob and DeleteJob
EndJob(w) == [w EXCEPT !.queue.misused = @ \/ (w.queue.state = "none" /\ ~LeftOver),
                       !.queue.state = "none"]

\* myWriteSpool
Flush(w, ok) ==
    IF w.dc.buf = {} \/ w.dc.doc # 1 THEN w
    ELSE LET q == Asked(w, ok, w.queue.state = "page", w.queue.state)
         IN  [dc |-> [w.dc EXCEPT !.doc = Answer(q), !.buf = {}],
              queue |-> [q EXCEPT !.foreign = @ \/ w.dc.buf # {w.dc.job}]]

\* myWrite; "full" is a write for which the buffer had to be sent first
Write(w, full, ok) ==
    LET f == IF full THEN Flush(w, ok) ELSE w IN
    IF f.dc.doc # 1 THEN f
    ELSE [f EXCEPT !.dc.buf = @ \cup {w.dc.job}]

\* A page of its own that only carries a command: the reset, the empty back side
CommandPage(w, start, wrote, end) ==
    LET s == StartSpoolPage(w, start)
    IN  EndSpoolPage(Flush(Write(s, FALSE, TRUE), wrote), end)

\* A wrong version: the job is not forgotten when it is aborted
AbortJobRemembers(w, start, wrote, end) ==
    LET resets == opt.resetJob /\ w.dc.doc = 1
        before == IF ~opt.spooler /\ resets THEN CommandPage(w, start, wrote, end) ELSE w
    IN  IF w.dc.job = 0 THEN w
        ELSE [EndJob(before) EXCEPT !.dc.doc = 0]

AbortJob(w, start, wrote, end) ==
    LET resets == opt.resetJob /\ w.dc.doc = 1
        before == IF ~opt.spooler /\ resets THEN CommandPage(w, start, wrote, end) ELSE w
    IN  IF w.dc.job = 0 THEN w
        ELSE [EndJob(before) EXCEPT !.dc.doc = 0, !.dc.job = 0]

Becomes(w) == dc' = w.dc /\ queue' = w.queue

-----------------------------------------------------------------------------
(* NEXTBAND                                                                *)

\* What the application sends in the band it was given (0 is the text band)
Todo(c, band, graphics, text) ==
    LET touches(set) == IF band = 0 THEN set # {} ELSE band \in set
    IN  (IF graphics /\ touches(c.grx) THEN {"graphics"} ELSE {})
        \cup (IF text /\ touches(c.vector) THEN {"vector"} ELSE {})
        \cup (IF text THEN {"text"} ELSE {})

NeedsBands(d) == "ANYGRX" \in d.mode \/ d.gdiText

\* n = 0: the page is started, the first page also sets the job up
StartPage(w, ok, full, wrote) ==
    LET s == StartSpoolPage([w EXCEPT !.dc.mode = @ \cap {"DRAFT"}], ok)
        first == w.dc.pages = 0
        d == [s.dc EXCEPT !.gdiText = FALSE, !.opaqText = FALSE, !.pages = @ + 1,
                          !.duplex = IF first /\ ~opt.duplexer THEN SIMPLEX ELSE @]
        q == [s.queue EXCEPT !.twoSided = IF first /\ opt.duplexer THEN d.duplex # SIMPLEX
                                            ELSE @]
    IN  IF s.dc.doc # 1 THEN s ELSE Write([dc |-> d, queue |-> q], full, wrote)

\* A wrong version: a band without graphics is not remembered as skipped
SendBandNoSkip(w, band, full, wrote) ==
    LET at == w.queue.page.cursor
        sent == Write(w, full, wrote)
        page == [done |-> w.queue.page.done \cup
                            {[drawn |-> b, at |-> at] : b \in w.dc.bitmap},
                 whited |-> w.queue.page.whited, cursor |-> at + 1]
    IN  IF "GRX" \notin w.dc.mode THEN w
        ELSE [dc |-> [sent.dc EXCEPT !.bitmap = {}, !.mode = @ \ {"GRX"}],
              queue |-> [sent.queue EXCEPT !.page = page]]

\* The bitmap is sent where the printer's cursor is, after a move to the start
\* of the band when the bands before it were skipped.
SendBand(w, band, full, wrote) ==
    IF "GRX" \notin w.dc.mode
    THEN [w EXCEPT !.dc.mode = @ \cup {"SKIP"}]
    ELSE LET at == IF "SKIP" \in w.dc.mode THEN band ELSE w.queue.page.cursor
             sent == Write(w, full, wrote)
             page == [done |-> w.queue.page.done \cup
                                 {[drawn |-> b, at |-> at] : b \in w.dc.bitmap},
                      whited |-> w.queue.page.whited, cursor |-> at + 1]
         IN  [dc |-> [sent.dc EXCEPT !.bitmap = {}, !.mode = @ \ {"GRX", "SKIP"}],
              queue |-> [sent.queue EXCEPT
                           !.page = IF w.dc.doc = 1 THEN page ELSE @]]

\* A wrong version: the band number is not reset at the end of the page
EndPageKeepsBand(w, full, wrote, end) ==
    LET f == Flush(Write(w, full, wrote), wrote)
        e == IF f.dc.doc = 1 THEN EndSpoolPage(f, end) ELSE f
    IN  [e EXCEPT !.queue.sides = @ + 1]

\* A wrong version: the buffer is not written before the page ends
EndPageNoFlush(w, full, wrote, end) ==
    LET d == [w EXCEPT !.dc.nband = 0]
        f == Write(d, full, wrote)
        e == IF f.dc.doc = 1 THEN EndSpoolPage(f, end) ELSE f
    IN  [e EXCEPT !.queue.sides = @ + 1]

EndPage(w, full, wrote, end) ==
    LET d == [w EXCEPT !.dc.nband = 0]
        f == Flush(Write(d, full, wrote), wrote)
        e == IF f.dc.doc = 1 THEN EndSpoolPage(f, end) ELSE f
    IN  [e EXCEPT !.queue.sides = @ + 1]

\* The whole escape for n, the band before the increment: the device after it
\* and whether a rectangle is returned
BandStep(w, n, start, full, wrote, end) ==
    LET up == [w EXCEPT !.dc.nband = @ + 1]
        scaled == [up EXCEPT !.dc.mode = IF n = 1 /\ opt.scaled THEN @ \cup {"ANYGRX"}
                                         ELSE @]
        stops == n = 1 /\ ("DRAFT" \in scaled.dc.mode \/ ~NeedsBands(scaled.dc))
        sent == IF n = 0 THEN StartPage(up, start, full, wrote)
                ELSE IF stops THEN scaled
                ELSE SendBand(scaled, n - 1, full, wrote)
        last == n > NumBands \/ stops \/ (n > 0 /\ ~NeedsBands(sent.dc))
    IN  IF n = 0 /\ ~start THEN [w |-> sent, rect |-> FALSE]
        ELSE IF last THEN [w |-> EndPage(sent, full, wrote, end), rect |-> FALSE]
        ELSE [w |-> IF n = 1 THEN [sent EXCEPT !.dc.bitmap = {}] ELSE sent,
              rect |-> TRUE]

NextBand(c, start, full, wrote, end) ==
    LET step == BandStep(World, dc.nband, start, full, wrote, end)
        failed == step.w.dc.doc # 1
        after == IF failed THEN AbortJob(step.w, start, wrote, end) ELSE step.w
    IN  /\ dc.doc = 1
        /\ Becomes(after)
        /\ app' = [app EXCEPT
             !.pc = IF failed THEN "failed" ELSE IF step.rect THEN "page" ELSE "doc",
             !.content = c,
             !.todo = IF failed \/ ~step.rect \/ c.info THEN {}
                      ELSE Todo(c, after.dc.nband - 1, TRUE, TRUE),
             !.asked = FALSE]
        /\ UNCHANGED opt

FirstBand ==
    /\ app.pc = "doc" /\ dc.pages < MaxPages
    /\ \E c \in Contents, start, full, wrote, end \in BOOLEAN :
         NextBand(c, start, full, wrote, end)

LaterBand ==
    /\ app.pc = "page" /\ app.todo = {} /\ (app.content.info => app.asked)
    /\ \E start, full, wrote, end \in BOOLEAN :
         NextBand(app.content, start, full, wrote, end)

GivesUp ==
    app' = [app EXCEPT !.pc = IF @ = "nodoc" THEN @ ELSE "failed", !.todo = {}]

\* With no document, or after an error, every NEXTBAND fails and aborts the job
\* whose number is in epJob.
BandRefused ==
    /\ dc.doc # 1
    /\ Becomes(AbortJob(World, TRUE, TRUE, TRUE))
    /\ GivesUp
    /\ UNCHANGED opt

-----------------------------------------------------------------------------
(* Between two NEXTBANDs                                                   *)

InBand(item) == app.pc = "page" /\ item \in app.todo
Sent(item) == app' = [app EXCEPT !.todo = @ \ {item}]

\* BANDINFO
BandInfo ==
    /\ app.pc = "page" /\ app.content.info /\ ~app.asked
    /\ LET text == dc.nband - 1 = 0
           graphics == app.content.grx # {}
       IN  /\ dc' = [dc EXCEPT !.mode = IF text /\ graphics THEN @ \cup {"ANYGRX"} ELSE @]
           /\ app' = [app EXCEPT !.asked = TRUE,
                !.todo = Todo(app.content, dc.nband - 1, ~text,
                              text \/ dc.gdiText \/ dc.opaqText)]
    /\ UNCHANGED <<opt, queue>>

\* Into the bitmap of the band, unless this is the text band or a draft: fake()
Drawn(d) ==
    IF d.nband = TEXTBAND \/ "DRAFT" \in d.mode
    THEN [d EXCEPT !.mode = @ \cup {"ANYGRX"}]
    ELSE [d EXCEPT !.mode = @ \cup {"ANYGRX", "GRX"}, !.bitmap = @ \cup {d.nband - 1}]

\* Output, BitBlt and the other drawing calls of graphics
Output ==
    /\ InBand("graphics") /\ Sent("graphics")
    /\ dc' = Drawn(dc)
    /\ UNCHANGED <<opt, queue>>

\* A wrong version: text that GDI draws in the text band is not remembered
PixelForgets ==
    /\ InBand("vector") /\ Sent("vector")
    /\ dc' = Drawn(dc)
    /\ UNCHANGED <<opt, queue>>

\* Pixel, by which GDI draws the text that the printer has no font for
Pixel ==
    /\ InBand("vector") /\ Sent("vector")
    /\ dc' = Drawn([dc EXCEPT !.gdiText = @ \/ dc.nband = TEXTBAND])
    /\ UNCHANGED <<opt, queue>>

\* ExtTextOut: printed in the text band, else only its background is cleared
ExtTextOut ==
    /\ InBand("text") /\ Sent("text")
    /\ \E full, wrote \in BOOLEAN :
         LET d == [dc EXCEPT !.opaqText = @ \/ app.content.opaque]
             w == Write([dc |-> d, queue |-> queue], full, wrote)
             white == IF app.content.opaque THEN {dc.nband - 1} ELSE {}
         IN  IF dc.nband = TEXTBAND THEN Becomes(w)
             ELSE /\ queue' = [queue EXCEPT !.page.whited = @ \cup white]
                  /\ UNCHANGED dc
    /\ UNCHANGED opt

\* DEVICEDATA: data of the application's own, inside a page
DeviceData ==
    /\ app.pc = "page"
    /\ \E before, after \in BOOLEAN :
         Becomes(Flush(Write(Flush(World, before), FALSE, TRUE), after))
    /\ UNCHANGED <<opt, app>>

-----------------------------------------------------------------------------
(* Documents                                                               *)

MayPrint == app.pc = "nodoc" \/ (KeepsDC /\ app.pc = "failed")

\* STARTDOC; a job that the spooler refuses leaves its error in epJob
StartDoc ==
    /\ MayPrint /\ app.docs < MaxDocs /\ dc.doc = 0
    /\ \E opens \in BOOLEAN :
         /\ dc' = [dc EXCEPT !.pages = 0, !.job = IF opens THEN app.docs + 1 ELSE -1,
                             !.doc = IF opens THEN 1 ELSE @]
         /\ queue' = [EmptyQueue EXCEPT !.state = IF opens THEN "open" ELSE "none",
                                 !.misused = queue.misused, !.foreign = queue.foreign]
         /\ app' = [app EXCEPT !.pc = IF opens THEN "doc" ELSE @, !.docs = @ + 1,
                             !.content = NoContent]
    /\ UNCHANGED opt

\* STARTDOC with too little memory in the printer: epJob keeps its number
StartDocNoMemory ==
    /\ MayPrint /\ dc.doc = 0
    /\ dc' = [dc EXCEPT !.pages = 0]
    /\ UNCHANGED <<opt, queue, app>>

\* A wrong version: the parity is taken from the page to come
OddSidesNext(d) ==
    opt.duplexer /\ d.duplex # SIMPLEX /\ (d.pages + 1) % 2 = 1 /\ d.doc = 1

OddSides(d) == opt.duplexer /\ d.duplex # SIMPLEX /\ d.pages % 2 = 1 /\ d.doc = 1

\* ENDDOC: the empty back of an odd page, the reset, the end of the job, whose
\* number stays in epJob
EndDoc ==
    /\ app.pc # "page"
    /\ \E start, wrote, end \in BOOLEAN :
         LET blank == IF OddSides(dc)
                      THEN LET b == CommandPage(World, start, wrote, end)
                           IN  [dc |-> [b.dc EXCEPT !.pages = @ + 1],
                                queue |-> [b.queue EXCEPT !.sides = IF b.dc.doc = 1 THEN @ + 1
                                                                         ELSE @]]
                      ELSE World
             reset == IF opt.resetJob /\ blank.dc.doc = 1
                      THEN CommandPage(blank, start, wrote, end) ELSE blank
             closed == IF reset.dc.doc = 1 THEN EndJob(reset) ELSE reset
         IN  Becomes([closed EXCEPT !.dc.doc = 0])
    /\ app' = [app EXCEPT !.pc = IF @ = "failed" THEN @ ELSE "nodoc"]
    /\ UNCHANGED opt

\* ABORTDOC, at any moment: before, in and after a document
AbortDoc ==
    /\ \E start, wrote, end \in BOOLEAN : Becomes(AbortJob(World, start, wrote, end))
    /\ GivesUp
    /\ UNCHANGED opt

\* Disable, and Enable for the next document
NewDevice ==
    /\ app.pc \in {"nodoc", "failed"} /\ dc.doc = 0
    /\ \E draft \in BOOLEAN, duplex \in {1, 2, 3} : dc' = NewDC(draft, duplex)
    /\ app' = [app EXCEPT !.pc = "nodoc", !.todo = {}]
    /\ UNCHANGED <<opt, queue>>

\* DRAFTMODE, between pages
DraftMode ==
    /\ app.pc \in {"nodoc", "doc"}
    /\ \E on \in BOOLEAN :
         dc' = [dc EXCEPT !.mode = IF on THEN @ \cup {"DRAFT"} ELSE @ \ {"DRAFT"}]
    /\ UNCHANGED <<opt, queue, app>>

\* ENABLEDUPLEX, between documents: 1 is vertical, any other value is kept
EnableDuplex ==
    /\ app.pc = "nodoc" /\ opt.duplexer
    /\ \E value \in 0 .. 2 : dc' = [dc EXCEPT !.duplex = IF value = 1 THEN 2 ELSE value]
    /\ UNCHANGED <<opt, queue, app>>

Next ==
    \/ FirstBand \/ LaterBand \/ BandRefused
    \/ BandInfo \/ Output \/ Pixel \/ ExtTextOut \/ DeviceData
    \/ StartDoc \/ StartDocNoMemory \/ EndDoc \/ AbortDoc
    \/ NewDevice \/ DraftMode \/ EnableDuplex

Spec == Init /\ [][Next]_vars

-----------------------------------------------------------------------------
TypeOK ==
    /\ opt \in Options
    /\ dc \in [doc: {-1, 0, 1}, job: -1 .. MaxDocs, nband: 0 .. NumBands + 2,
               mode: SUBSET {"DRAFT", "ANYGRX", "GRX", "SKIP"}, gdiText: BOOLEAN,
               opaqText: BOOLEAN, pages: 0 .. MaxPages + 1, duplex: 0 .. 3,
               buf: SUBSET (1 .. MaxDocs), bitmap: SUBSET Bands]
    /\ queue.state \in {"none", "open", "page"}
    /\ app.pc \in {"nodoc", "doc", "page", "failed"}

\* Each band's drawing is printed at that band's place on the page, also when
\* bands before it were skipped (NEXTBAND, SKIPFLAG).
BandsInPlace == \A p \in queue.page.done : p.drawn = p.at

\* No byte of one document is sent in the job of another (AbortJob, myWrite).
OwnBytes == ~queue.foreign

\* The driver writes only inside a page and calls the spooler for no job that
\* is closed or deleted, whatever call failed before and whatever the
\* application does after the failure (NEXTBAND, ENDDOC, ABORTDOC).  One call is
\* left out, because the code does make it: ENDDOC and a STARTDOC that is
\* refused leave a number in epJob, and an application that calls ABORTDOC or
\* NEXTBAND with no document open has the driver end that number (LeftOver).
SpoolCallsLegal == ~queue.misused

Complete(c, page) ==
    /\ \A b \in c.grx \cup c.vector : [drawn |-> b, at |-> b] \in page.done
    /\ c.opaque => c.grx \subseteq page.whited

\* A page that ends without an error has all its graphics, all the text that
\* GDI draws and, in the bands with graphics, the background of opaque text,
\* whether the application sends everything in every band or only what
\* BANDINFO tells it (NEXTBAND, BANDINFO, Pixel, ExtTextOut).
PageComplete ==
    [][app.pc = "page" /\ app'.pc = "doc" /\ "DRAFT" \notin dc.mode
         => Complete(app.content, queue'.page)]_vars

\* A job printed on both sides of the paper that ends normally has an even
\* number of sides, so the next job starts on a sheet of its own (ENDDOC).
DuplexEven ==
    [][app.pc = "doc" /\ app'.pc = "nodoc" /\ dc'.job # 0 /\ queue'.state = "none"
         => ~queue.twoSided \/ queue'.sides % 2 = 0]_vars
=============================================================================
