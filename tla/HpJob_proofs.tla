---------------------------- MODULE HpJob_proofs ----------------------------
(***************************************************************************)
(* Proofs about a print job of the HPPCL driver (HpJob), for any number of *)
(* bands, pages and documents, every configuration of the printer and      *)
(* every content of the pages, and whichever calls of the spooler fail.    *)
(***************************************************************************)
EXTENDS HpJob, TLAPS

USE HpJobAssumption

Marks   == {"DRAFT", "ANYGRX", "GRX", "SKIP"}
States  == {"none", "open", "page"}
Items   == {"graphics", "vector", "text"}

Devices == [doc: {-1, 0, 1}, job: Int, nband: Int, mode: SUBSET Marks, gdiText: BOOLEAN,
            opaqText: BOOLEAN, pages: Int, duplex: Int, buf: SUBSET Int, bitmap: SUBSET Int]
Sheets  == [done: SUBSET [drawn: Int, at: Int], whited: SUBSET Int, cursor: Int]
Queues  == [state: States, failed: BOOLEAN, misused: BOOLEAN, foreign: BOOLEAN,
            twoSided: BOOLEAN, sides: Int, page: Sheets]
Worlds  == [dc: Devices, queue: Queues]

-----------------------------------------------------------------------------
(* The services of the spooler.                                            *)

\* What no call of the spooler changes in the device.
SameDevice(d, e) ==
  /\ e.job = d.job /\ e.nband = d.nband /\ e.mode = d.mode /\ e.pages = d.pages
  /\ e.gdiText = d.gdiText /\ e.opaqText = d.opaqText /\ e.duplex = d.duplex
  /\ e.bitmap = d.bitmap

SameSheets(q, r) == r.twoSided = q.twoSided /\ r.sides = q.sides

\* The record of the calls that were out of order and of the bytes of other jobs.
SameFaults(q, r) == r.misused = q.misused /\ r.foreign = q.foreign

Faultless(q) == ~q.misused /\ ~q.foreign

\* The bytes in the buffer are those of the job.
OwnBuffer(d) == d.buf \subseteq {d.job}

\* The answer of a call: the job keeps its page and its sides, and a call that was
\* in order leaves the record of faults.
LEMMA AskedIs ==
  ASSUME NEW w \in Worlds, NEW ok \in BOOLEAN, NEW legal \in BOOLEAN, NEW state \in States,
         NEW q, q = Asked(w, ok, legal, state)
  PROVE  /\ q \in Queues /\ SameSheets(w.queue, q) /\ q.page = w.queue.page
         /\ q.foreign = w.queue.foreign /\ (legal => q.misused = w.queue.misused)
         /\ q.state = IF q.failed THEN w.queue.state ELSE state
         /\ Answer(q) = IF q.failed THEN -1 ELSE 1
         /\ ~ok => q.failed
  <1> DEFINE good == ok /\ ~w.queue.failed
  <1>1. w.queue \in Queues
    BY DEF Worlds
  <1>2. /\ q.misused = (w.queue.misused \/ ~legal) /\ q.failed = ~good
        /\ q.state = IF good THEN state ELSE w.queue.state
        /\ q.foreign = w.queue.foreign /\ q.twoSided = w.queue.twoSided
        /\ q.sides = w.queue.sides /\ q.page = w.queue.page /\ q \in Queues
    BY <1>1 DEF Asked, Queues
  <1> QED
    BY <1>1, <1>2 DEF SameSheets, Answer, Queues

\* Writing to the job: nothing but its answer, the buffer and the faults change, and
\* there are no faults if the buffer is the job's own and a page is open.
Spools(w, v) ==
  /\ v \in Worlds /\ SameDevice(w.dc, v.dc) /\ SameSheets(w.queue, v.queue)
  /\ v.queue.page = w.queue.page /\ v.queue.state = w.queue.state
  /\ w.dc.doc = 1 => v.dc.doc \in {-1, 1}
  /\ w.dc.doc # 1 => v = w
  /\ OwnBuffer(w.dc) => OwnBuffer(v.dc)
  /\ OwnBuffer(w.dc) /\ (w.dc.doc = 1 => w.queue.state = "page")
       => SameFaults(w.queue, v.queue)

LEMMA SpoolsTwice == \A u, v, w : Spools(u, v) /\ Spools(v, w) => Spools(u, w)
  BY DEF Spools, SameDevice, SameSheets, SameFaults

LEMMA FlushSpools ==
  ASSUME NEW w \in Worlds, NEW ok \in BOOLEAN
  PROVE  /\ Spools(w, Flush(w, ok))
         /\ w.dc.doc = 1 => Flush(w, ok).dc.buf = {}
  <1>w. w = [dc |-> w.dc, queue |-> w.queue] /\ w.dc \in Devices /\ w.queue \in Queues
    BY DEF Worlds
  <1>1. CASE w.dc.buf = {} \/ w.dc.doc # 1
    <2>1. Flush(w, ok) = w
      BY <1>1 DEF Flush
    <2>2. w.dc.doc = 1 => w.dc.doc \in {-1, 1}
      OBVIOUS
    <2> QED
      BY <1>1, <2>1, <2>2 DEF Spools, SameDevice, SameSheets, SameFaults
  <1>2. CASE w.dc.buf # {} /\ w.dc.doc = 1
    <2> DEFINE q == Asked(w, ok, w.queue.state = "page", w.queue.state)
               d == [w.dc EXCEPT !.doc = Answer(q), !.buf = {}]
               r == [q EXCEPT !.foreign = @ \/ w.dc.buf # {w.dc.job}]
    <2>1. /\ q \in Queues /\ SameSheets(w.queue, q) /\ q.page = w.queue.page
          /\ q.foreign = w.queue.foreign
          /\ (w.queue.state = "page" => q.misused = w.queue.misused)
          /\ q.state = w.queue.state
          /\ Answer(q) \in {-1, 1}
      <3> DEFINE inPage == w.queue.state = "page"
                 state == w.queue.state
      <3>1. state \in States /\ inPage \in BOOLEAN /\ q = Asked(w, ok, inPage, state)
        BY <1>w DEF Queues
      <3>2. inPage = (state = "page")
        OBVIOUS
      <3> HIDE DEF q, inPage, state
      <3>3. /\ q \in Queues /\ SameSheets(w.queue, q) /\ q.page = w.queue.page
            /\ q.foreign = w.queue.foreign
            /\ (inPage => q.misused = w.queue.misused)
            /\ q.state = IF q.failed THEN w.queue.state ELSE state
            /\ Answer(q) = IF q.failed THEN -1 ELSE 1
        BY <3>1, AskedIs
      <3> QED
        BY <3>2, <3>3 DEF state
    <2>2. Flush(w, ok) = [dc |-> d, queue |-> r]
      BY <1>2 DEF Flush
    <2> HIDE DEF q
    <2>3. /\ d \in Devices /\ SameDevice(w.dc, d) /\ d.doc = Answer(q) /\ d.buf = {}
      BY <1>w, <2>1 DEF Devices, SameDevice
    <2>4. /\ r \in Queues /\ SameSheets(q, r) /\ r.page = q.page /\ r.state = q.state
          /\ r.misused = q.misused
          /\ (w.dc.buf = {w.dc.job} => r.foreign = q.foreign)
      BY <2>1 DEF Queues, SameSheets
    <2>5. OwnBuffer(w.dc) => w.dc.buf = {w.dc.job}
      BY <1>2 DEF OwnBuffer
    <2> HIDE DEF d, r
    <2>6. OwnBuffer(w.dc) /\ w.queue.state = "page" => SameFaults(w.queue, r)
      BY <2>1, <2>4, <2>5 DEF SameFaults
    <2>7. SameSheets(w.queue, r) /\ OwnBuffer(d)
      BY <2>1, <2>3, <2>4 DEF SameSheets, OwnBuffer
    <2> QED
      BY <1>2, <2>1, <2>2, <2>3, <2>4, <2>6, <2>7 DEF Spools, Worlds
  <1> QED
    BY <1>1, <1>2

LEMMA WriteSpools ==
  ASSUME NEW w \in Worlds, NEW full \in BOOLEAN, NEW ok \in BOOLEAN
  PROVE  Spools(w, Write(w, full, ok)) /\ (~full => Write(w, full, ok).dc.doc = w.dc.doc)
  <1> DEFINE f == IF full THEN Flush(w, ok) ELSE w
  <1>1. Spools(w, f)
    <2>1. w.dc.doc = 1 => w.dc.doc \in {-1, 1}
      OBVIOUS
    <2>2. Spools(w, w)
      BY <2>1 DEF Spools, SameDevice, SameSheets, SameFaults
    <2> QED
      BY <2>2, FlushSpools
  <1>2. Write(w, full, ok) = IF f.dc.doc # 1 THEN f
                             ELSE [f EXCEPT !.dc.buf = @ \cup {w.dc.job}]
    BY DEF Write
  <1> HIDE DEF f
  <1>3. f \in Worlds /\ f.dc \in Devices /\ f.dc.job = w.dc.job /\ w.dc.job \in Int
    BY <1>1 DEF Spools, Worlds, SameDevice, Devices
  <1> DEFINE v == [f EXCEPT !.dc.buf = @ \cup {w.dc.job}]
  <1>4. /\ v.queue = f.queue /\ v \in Worlds /\ SameDevice(f.dc, v.dc)
        /\ v.dc.doc = f.dc.doc /\ v.dc.buf = f.dc.buf \cup {w.dc.job}
    BY <1>3 DEF Worlds, Devices, SameDevice
  <1> HIDE DEF v
  <1>5. ASSUME f.dc.doc = 1
        PROVE  Spools(f, v)
    BY <1>3, <1>4, <1>5 DEF Spools, SameSheets, SameFaults, OwnBuffer, SameDevice
  <1>6. Spools(w, Write(w, full, ok))
    BY <1>1, <1>2, <1>5, SpoolsTwice DEF v
  <1>7. ~full => Write(w, full, ok).dc.doc = w.dc.doc
    BY <1>2, <1>4 DEF f, v
  <1> QED
    BY <1>6, <1>7

\* Starting or ending a page of a job that is open: the device keeps all but its
\* answer, and the job is at a page if it answers that it has started one.
Paged(w, v, state) ==
  /\ v \in Worlds /\ SameDevice(w.dc, v.dc) /\ SameSheets(w.queue, v.queue)
  /\ SameFaults(w.queue, v.queue) /\ v.dc.buf = w.dc.buf /\ v.dc.doc \in {-1, 1}
  /\ v.queue.state = IF v.dc.doc = 1 THEN state ELSE w.queue.state

LEMMA NoPageIs == NoPage \in Sheets
  BY DEF NoPage, Sheets

LEMMA StartSpoolPageIs ==
  ASSUME NEW w \in Worlds, NEW ok \in BOOLEAN, w.queue.state # "none",
         NEW v, v = StartSpoolPage(w, ok)
  PROVE  /\ Paged(w, v, "page")
         /\ v.queue.page = IF v.dc.doc = 1 THEN NoPage ELSE w.queue.page
         /\ ~ok => v.dc.doc # 1
  <1> DEFINE open == w.queue.state # "none"
             state == "page"
             q == Asked(w, ok, open, state)
             d == [w.dc EXCEPT !.doc = Answer(q)]
             r == [q EXCEPT !.page = IF q.failed THEN @ ELSE NoPage]
  <1>1. v = [dc |-> d, queue |-> r]
    BY DEF StartSpoolPage
  <1>2. /\ open \in BOOLEAN /\ state \in States /\ w.dc \in Devices
        /\ q = Asked(w, ok, open, state)
    BY DEF States, Worlds
  <1>o. open
    OBVIOUS
  <1> HIDE DEF open, q, state
  <1>3. /\ q \in Queues /\ SameSheets(w.queue, q) /\ q.page = w.queue.page
        /\ q.foreign = w.queue.foreign /\ (open => q.misused = w.queue.misused)
        /\ q.state = IF q.failed THEN w.queue.state ELSE state
        /\ Answer(q) = IF q.failed THEN -1 ELSE 1
        /\ ~ok => q.failed
    BY <1>2, AskedIs
  <1>4. d \in Devices /\ SameDevice(w.dc, d) /\ d.buf = w.dc.buf /\ d.doc = Answer(q)
    BY <1>2, <1>3 DEF Devices, SameDevice
  <1>5. /\ r \in Queues /\ SameSheets(q, r) /\ SameFaults(q, r) /\ r.state = q.state
        /\ r.page = IF q.failed THEN q.page ELSE NoPage
    BY <1>3, NoPageIs DEF Queues, SameSheets, SameFaults
  <1> HIDE DEF d, r
  <1> QED
    BY <1>1, <1>o, <1>3, <1>4, <1>5 DEF Paged, Worlds, SameSheets, SameFaults, state

LEMMA EndSpoolPageIs ==
  ASSUME NEW w \in Worlds, NEW ok \in BOOLEAN, w.queue.state # "none",
         NEW v, v = EndSpoolPage(w, ok)
  PROVE  Paged(w, v, "open") /\ v.queue.page = w.queue.page
  <1> DEFINE open == w.queue.state # "none"
             state == "open"
             q == Asked(w, ok, open, state)
             d == [w.dc EXCEPT !.doc = Answer(q)]
  <1>1. v = [dc |-> d, queue |-> q]
    BY DEF EndSpoolPage
  <1>2. /\ open \in BOOLEAN /\ state \in States /\ w.dc \in Devices
        /\ q = Asked(w, ok, open, state)
    BY DEF States, Worlds
  <1>o. open
    OBVIOUS
  <1> HIDE DEF open, q, state
  <1>3. /\ q \in Queues /\ SameSheets(w.queue, q) /\ q.page = w.queue.page
        /\ q.foreign = w.queue.foreign /\ (open => q.misused = w.queue.misused)
        /\ q.state = IF q.failed THEN w.queue.state ELSE state
        /\ Answer(q) = IF q.failed THEN -1 ELSE 1
    BY <1>2, AskedIs
  <1>4. d \in Devices /\ SameDevice(w.dc, d) /\ d.buf = w.dc.buf /\ d.doc = Answer(q)
    BY <1>2, <1>3 DEF Devices, SameDevice
  <1> HIDE DEF d
  <1> QED
    BY <1>1, <1>o, <1>3, <1>4 DEF Paged, Worlds, SameSheets, SameFaults, state

\* A page of its own that carries a command is in order in a job that is open, and
\* leaves the buffer empty if it was empty.
Commanded(w, v) ==
  /\ v \in Worlds /\ SameDevice(w.dc, v.dc) /\ SameSheets(w.queue, v.queue)
  /\ SameFaults(w.queue, v.queue) /\ v.dc.doc \in {-1, 1} /\ OwnBuffer(v.dc)
  /\ v.queue.state # "none" /\ v.queue.page \in {w.queue.page, NoPage}
  /\ v.dc.doc = 1 => v.queue.state = "open"
  /\ w.dc.buf = {} => v.dc.buf = {}

LEMMA CommandPageIs ==
  ASSUME NEW w \in Worlds, NEW start \in BOOLEAN, NEW wrote \in BOOLEAN, NEW end \in BOOLEAN,
         w.queue.state # "none", OwnBuffer(w.dc), NEW v, v = CommandPage(w, start, wrote, end)
  PROVE  Commanded(w, v)
  <1> DEFINE s == StartSpoolPage(w, start)
             t == Write(s, FALSE, TRUE)
             f == Flush(t, wrote)
  <1>1. v = EndSpoolPage(f, end)
    BY DEF CommandPage
  <1>2. /\ Paged(w, s, "page") /\ s.queue.page = IF s.dc.doc = 1 THEN NoPage ELSE w.queue.page
    BY StartSpoolPageIs
  <1>3. s \in Worlds /\ OwnBuffer(s.dc) /\ (s.dc.doc = 1 => s.queue.state = "page")
        /\ s.queue.state # "none"
    BY <1>2 DEF Paged, OwnBuffer, SameDevice
  <1> HIDE DEF s
  <1>4. Spools(s, t) /\ t.dc.doc = s.dc.doc
    BY <1>3, WriteSpools
  <1>5. t \in Worlds
    BY <1>4 DEF Spools
  <1> HIDE DEF t
  <1>6. Spools(t, f) /\ (t.dc.doc = 1 => f.dc.buf = {})
    BY <1>5, FlushSpools
  <1>7. Spools(s, f)
    BY <1>4, <1>6, SpoolsTwice
  <1> HIDE DEF f
  <1>8. /\ f \in Worlds /\ f.queue.state # "none" /\ OwnBuffer(f.dc) /\ SameDevice(s.dc, f.dc)
        /\ SameSheets(s.queue, f.queue) /\ SameFaults(s.queue, f.queue)
        /\ f.queue.page = s.queue.page
    BY <1>3, <1>7 DEF Spools
  <1>9. Paged(f, v, "open") /\ v.queue.page = f.queue.page
    BY <1>1, <1>8, EndSpoolPageIs
  <1>10. /\ v.queue.state # "none" /\ v.dc.doc \in {-1, 1} /\ v \in Worlds
         /\ v.dc.doc = 1 => v.queue.state = "open"
    BY <1>8, <1>9 DEF Paged
  <1>11. SameDevice(w.dc, v.dc) /\ OwnBuffer(v.dc)
    BY <1>2, <1>8, <1>9 DEF Paged, SameDevice, OwnBuffer
  <1>12. SameSheets(w.queue, v.queue) /\ SameFaults(w.queue, v.queue)
    BY <1>2, <1>8, <1>9 DEF Paged, SameSheets, SameFaults
  <1>13. v.queue.page \in {w.queue.page, NoPage}
    BY <1>2, <1>8, <1>9
  <1>14. w.dc.buf = {} => v.dc.buf = {}
    BY <1>2, <1>4, <1>6, <1>9 DEF Paged, Spools
  <1> QED
    BY <1>10, <1>11, <1>12, <1>13, <1>14 DEF Commanded

\* Ending a job that is open is in order.
LEMMA EndJobIs ==
  ASSUME NEW w \in Worlds, w.queue.state # "none" \/ LeftOver, NEW v, v = EndJob(w)
  PROVE  /\ v \in Worlds /\ v.dc = w.dc /\ SameSheets(w.queue, v.queue)
         /\ SameFaults(w.queue, v.queue) /\ v.queue.state = "none"
         /\ v.queue.page = w.queue.page
  <1>1. w.dc \in Devices /\ w.queue \in Queues /\ w = [dc |-> w.dc, queue |-> w.queue]
    BY DEF Worlds
  <1> DEFINE bad == w.queue.state = "none" /\ ~LeftOver
             q == [w.queue EXCEPT !.misused = @ \/ bad, !.state = "none"]
  <1>2. v.dc = w.dc /\ v.queue = q /\ v = [dc |-> w.dc, queue |-> q]
    BY <1>1 DEF EndJob, Queues
  <1>3. /\ q \in Queues /\ SameSheets(w.queue, q) /\ SameFaults(w.queue, q)
        /\ q.state = "none" /\ q.page = w.queue.page
    <2>1. ~bad
      OBVIOUS
    <2> HIDE DEF bad
    <2> QED
      BY <1>1, <2>1 DEF Queues, States, SameSheets, SameFaults
  <1> HIDE DEF q
  <1> QED
    BY <1>1, <1>2, <1>3 DEF Worlds

\* Aborting a job that is open ends and forgets it, and so does aborting a number that
\* was left over.
Aborted(w, v) ==
  /\ v \in Worlds /\ SameFaults(w.queue, v.queue) /\ SameSheets(w.queue, v.queue)
  /\ v.dc.doc # 1 /\ v.dc.job = 0 /\ v.queue.page \in {w.queue.page, NoPage}
  /\ v.dc.nband = w.dc.nband /\ v.dc.pages = w.dc.pages /\ v.dc.duplex = w.dc.duplex
  /\ v.dc.bitmap = w.dc.bitmap /\ v.dc.buf \subseteq {w.dc.job}

LEMMA AbortJobIs ==
  ASSUME NEW w \in Worlds, NEW start \in BOOLEAN, NEW wrote \in BOOLEAN, NEW end \in BOOLEAN,
         w.dc.job # 0, w.queue.state # "none" \/ (LeftOver /\ w.dc.doc # 1), OwnBuffer(w.dc),
         NEW v, v = AbortJob(w, start, wrote, end)
  PROVE  Aborted(w, v)
  <1> DEFINE before == IF ~opt.spooler /\ opt.resetJob /\ w.dc.doc = 1
                       THEN CommandPage(w, start, wrote, end) ELSE w
  <1>1. v = [EndJob(before) EXCEPT !.dc.doc = 0, !.dc.job = 0]
    BY DEF AbortJob
  <1>2. /\ before \in Worlds /\ SameDevice(w.dc, before.dc)
        /\ before.queue.state # "none" \/ LeftOver
        /\ SameFaults(w.queue, before.queue) /\ SameSheets(w.queue, before.queue)
        /\ before.queue.page \in {w.queue.page, NoPage} /\ OwnBuffer(before.dc)
    <2>1. CASE ~opt.spooler /\ opt.resetJob /\ w.dc.doc = 1
      <3>1. before = CommandPage(w, start, wrote, end)
        BY <2>1
      <3> HIDE DEF before
      <3>2. w.queue.state # "none"
        BY <2>1
      <3>3. Commanded(w, before)
        BY <3>1, <3>2, CommandPageIs
      <3> QED
        BY <3>3 DEF Commanded
    <2>2. CASE ~(~opt.spooler /\ opt.resetJob /\ w.dc.doc = 1)
      BY <2>2 DEF SameDevice, SameFaults, SameSheets
    <2> QED
      BY <2>1, <2>2
  <1> HIDE DEF before
  <1> DEFINE e == EndJob(before)
  <1>3. /\ e \in Worlds /\ e.dc = before.dc /\ SameSheets(before.queue, e.queue)
        /\ SameFaults(before.queue, e.queue) /\ e.queue.page = before.queue.page
    BY <1>2, EndJobIs
  <1> HIDE DEF e
  <1>4. v = [e EXCEPT !.dc.doc = 0, !.dc.job = 0]
    BY <1>1 DEF e
  <1> DEFINE d == [e.dc EXCEPT !.doc = 0, !.job = 0]
  <1>5. v = [dc |-> d, queue |-> e.queue] /\ e.dc \in Devices /\ e.queue \in Queues
    BY <1>3, <1>4 DEF Worlds, Devices
  <1>6. /\ d \in Devices /\ d.doc = 0 /\ d.job = 0 /\ d.nband = e.dc.nband
        /\ d.pages = e.dc.pages /\ d.duplex = e.dc.duplex
        /\ d.bitmap = e.dc.bitmap /\ d.buf = e.dc.buf
    <2> DEFINE c == e.dc
    <2>1. c \in Devices /\ d = [c EXCEPT !.doc = 0, !.job = 0]
      BY <1>5
    <2>2. 0 \in Int /\ 0 \in {-1, 0, 1}
      OBVIOUS
    <2> HIDE DEF c, d
    <2>3. /\ d.doc = 0 /\ d.job = 0 /\ d.nband = c.nband /\ d.pages = c.pages
          /\ d.duplex = c.duplex /\ d.bitmap = c.bitmap /\ d.buf = c.buf
      BY <2>1 DEF Devices
    <2>4. d \in Devices
      BY <2>1, <2>2 DEF Devices
    <2> QED
      BY <2>3, <2>4 DEF c
  <1> HIDE DEF d
  <1> QED
    BY <1>2, <1>3, <1>5, <1>6 DEF Worlds, SameDevice, SameFaults, SameSheets,
       OwnBuffer, Aborted

-----------------------------------------------------------------------------
(* NEXTBAND.                                                               *)

\* A page is started: if that succeeds the device is set up for it and the page
\* is empty.
Started(w, v) ==
  /\ v \in Worlds /\ SameFaults(w.queue, v.queue) /\ v.dc.doc \in {-1, 1}
  /\ v.queue.state # "none" /\ OwnBuffer(v.dc) /\ v.dc.job = w.dc.job
  /\ v.dc.bitmap = w.dc.bitmap /\ v.queue.sides = w.queue.sides
  /\ v.queue.page \in {w.queue.page, NoPage}
  /\ v.dc.pages \in {w.dc.pages, w.dc.pages + 1}
  /\ v.dc.duplex \in {w.dc.duplex, SIMPLEX}
  /\ v.dc.doc = 1 =>
       /\ v.queue.state = "page" /\ v.queue.page = NoPage
       /\ v.dc.mode = w.dc.mode \cap {"DRAFT"} /\ ~v.dc.gdiText /\ ~v.dc.opaqText
       /\ v.dc.pages = w.dc.pages + 1
       /\ v.queue.twoSided = (IF w.dc.pages = 0 /\ opt.duplexer
                              THEN w.dc.duplex # SIMPLEX ELSE w.queue.twoSided)
       /\ v.dc.duplex = IF w.dc.pages = 0 /\ ~opt.duplexer THEN SIMPLEX ELSE w.dc.duplex

LEMMA StartPageIs ==
  ASSUME NEW w \in Worlds, NEW ok \in BOOLEAN, NEW full \in BOOLEAN, NEW wrote \in BOOLEAN,
         w.queue.state # "none", OwnBuffer(w.dc), NEW v, v = StartPage(w, ok, full, wrote)
  PROVE  Started(w, v) /\ v.dc.nband = w.dc.nband /\ (~ok => v.dc.doc # 1)
  <1> DEFINE u == [w EXCEPT !.dc.mode = @ \cap {"DRAFT"}]
             s == StartSpoolPage(u, ok)
             first == w.dc.pages = 0
             d == [s.dc EXCEPT !.gdiText = FALSE, !.opaqText = FALSE, !.pages = @ + 1,
                               !.duplex = IF first /\ ~opt.duplexer THEN SIMPLEX ELSE @]
             q == [s.queue EXCEPT !.twoSided = IF first /\ opt.duplexer THEN d.duplex # SIMPLEX
                                               ELSE @]
  <1>1. v = IF s.dc.doc # 1 THEN s ELSE Write([dc |-> d, queue |-> q], full, wrote)
    BY DEF StartPage
  <1>2. /\ u \in Worlds /\ u.queue = w.queue /\ u.dc.mode = w.dc.mode \cap {"DRAFT"}
        /\ u.dc.job = w.dc.job /\ u.dc.nband = w.dc.nband /\ u.dc.pages = w.dc.pages
        /\ u.dc.duplex = w.dc.duplex /\ u.dc.bitmap = w.dc.bitmap /\ u.dc.buf = w.dc.buf
    BY DEF Worlds, Devices
  <1> HIDE DEF u
  <1>3. /\ Paged(u, s, "page")
        /\ s.queue.page = IF s.dc.doc = 1 THEN NoPage ELSE u.queue.page
        /\ ~ok => s.dc.doc # 1
    BY <1>2, StartSpoolPageIs
  <1> HIDE DEF s
  <1>4. /\ s \in Worlds /\ s.dc \in Devices /\ s.queue \in Queues
        /\ s.dc.job = w.dc.job /\ s.dc.nband = w.dc.nband /\ s.dc.pages = w.dc.pages
        /\ s.dc.duplex = w.dc.duplex /\ s.dc.bitmap = w.dc.bitmap /\ s.dc.buf = w.dc.buf
        /\ s.dc.mode = w.dc.mode \cap {"DRAFT"} /\ s.dc.doc \in {-1, 1}
        /\ s.queue.sides = w.queue.sides /\ s.queue.twoSided = w.queue.twoSided
        /\ SameFaults(w.queue, s.queue) /\ OwnBuffer(s.dc) /\ w.dc.pages \in Int
        /\ s.queue.state # "none" /\ (s.dc.doc = 1 => s.queue.state = "page")
        /\ s.queue.page = IF s.dc.doc = 1 THEN NoPage ELSE w.queue.page
        /\ ~ok => s.dc.doc # 1
    BY <1>2, <1>3 DEF Paged, SameDevice, SameSheets, SameFaults, OwnBuffer, Worlds, Devices
  <1>5. CASE s.dc.doc # 1
    BY <1>1, <1>4, <1>5 DEF Started
  <1>6. CASE s.dc.doc = 1
    <2>1. /\ d \in Devices /\ d.doc = 1 /\ d.job = w.dc.job /\ d.nband = w.dc.nband
          /\ d.bitmap = w.dc.bitmap /\ d.buf = w.dc.buf /\ d.mode = w.dc.mode \cap {"DRAFT"}
          /\ ~d.gdiText /\ ~d.opaqText /\ d.pages = w.dc.pages + 1
          /\ d.duplex = IF first /\ ~opt.duplexer THEN SIMPLEX ELSE w.dc.duplex
      <3> DEFINE c == s.dc
                 pg == c.pages + 1
                 dup == IF first /\ ~opt.duplexer THEN SIMPLEX ELSE c.duplex
                 e == [c EXCEPT !.gdiText = FALSE, !.opaqText = FALSE, !.pages = pg,
                                !.duplex = dup]
      <3>1. d = e
        OBVIOUS
      <3>2. c \in Devices /\ pg \in Int /\ dup \in Int
        BY <1>4 DEF Devices, SIMPLEX
      <3>3. pg = w.dc.pages + 1 /\ dup = IF first /\ ~opt.duplexer THEN SIMPLEX ELSE w.dc.duplex
        BY <1>4
      <3>4. /\ c.doc = 1 /\ c.job = w.dc.job /\ c.nband = w.dc.nband /\ c.buf = w.dc.buf
            /\ c.bitmap = w.dc.bitmap /\ c.mode = w.dc.mode \cap {"DRAFT"}
        BY <1>4, <1>6
      <3> HIDE DEF c, pg, dup, d
      <3>5. e \in Devices
        BY <3>2 DEF Devices
      <3>6. /\ e.doc = c.doc /\ e.job = c.job /\ e.nband = c.nband /\ e.bitmap = c.bitmap
            /\ e.buf = c.buf /\ e.mode = c.mode /\ e.gdiText = FALSE /\ e.opaqText = FALSE
            /\ e.pages = pg /\ e.duplex = dup
        BY <3>2 DEF Devices
      <3> HIDE DEF e
      <3> QED
        BY <3>1, <3>3, <3>4, <3>5, <3>6
    <2>2. /\ q \in Queues /\ q.sides = w.queue.sides /\ SameFaults(w.queue, q)
          /\ q.state = "page" /\ q.page = NoPage
          /\ q.twoSided = (IF first /\ opt.duplexer THEN d.duplex # SIMPLEX
                           ELSE w.queue.twoSided)
      <3> HIDE DEF d
      <3> QED
        BY <1>4, <1>6 DEF Queues, SameFaults
    <2>3. q.twoSided = (IF first /\ opt.duplexer THEN w.dc.duplex # SIMPLEX
                        ELSE w.queue.twoSided)
      BY <2>1, <2>2
    <2> HIDE DEF d, q
    <2> DEFINE x == [dc |-> d, queue |-> q]
    <2>4. x \in Worlds /\ x.dc = d /\ x.queue = q /\ OwnBuffer(x.dc)
      BY <1>4, <2>1, <2>2 DEF Worlds, OwnBuffer
    <2>5. v = Write(x, full, wrote)
      BY <1>1, <1>6
    <2> HIDE DEF x
    <2>6. Spools(x, v)
      BY <2>4, <2>5, WriteSpools
    <2>7. /\ v \in Worlds /\ SameDevice(d, v.dc) /\ SameSheets(q, v.queue)
          /\ v.queue.page = NoPage /\ v.queue.state = "page" /\ v.dc.doc \in {-1, 1}
          /\ OwnBuffer(v.dc) /\ SameFaults(q, v.queue)
      BY <2>1, <2>2, <2>4, <2>6 DEF Spools
    <2> QED
      BY <1>4, <1>6, <2>1, <2>2, <2>3, <2>7
        DEF SameDevice, SameSheets, SameFaults, Started
  <1> QED
    BY <1>5, <1>6

\* What a NEXTBAND inside a page leaves alone, whichever way it ends.
SameJob(w, v) ==
  /\ v \in Worlds /\ SameFaults(w.queue, v.queue) /\ OwnBuffer(v.dc)
  /\ v.dc.doc \in {-1, 1} /\ v.queue.state # "none" /\ v.dc.job = w.dc.job
  /\ v.dc.pages = w.dc.pages /\ v.dc.duplex = w.dc.duplex
  /\ v.dc.gdiText = w.dc.gdiText /\ v.dc.opaqText = w.dc.opaqText
  /\ v.queue.twoSided = w.queue.twoSided
  /\ v.queue.page.whited = w.queue.page.whited

\* The bitmap of a band goes to the band's place on the page if the bands before it
\* were skipped, and else to where the printer's cursor is.
At(w, band) == IF "SKIP" \in w.dc.mode THEN band ELSE w.queue.page.cursor
Strips(w, band) == {[drawn |-> b, at |-> At(w, band)] : b \in w.dc.bitmap}

\* What the page and the marks become if no graphics were drawn in the band, and what
\* they become if there were some.
Skipped(w, mode, v) ==
  v.queue.page = w.queue.page /\ v.dc.mode = mode \cup {"SKIP"}
Printed(w, band, mode, v) ==
  /\ v.queue.page.done = w.queue.page.done \cup Strips(w, band)
  /\ v.queue.page.cursor = At(w, band) + 1
  /\ v.dc.mode = mode \ {"GRX", "SKIP"}
Emitted(w, band, mode, v) ==
  IF "GRX" \in w.dc.mode THEN Printed(w, band, mode, v) ELSE Skipped(w, mode, v)

\* Where a band may be.
Places == Int

LEMMA SendBandIs ==
  ASSUME NEW w \in Worlds, NEW band \in Places, NEW full \in BOOLEAN, NEW wrote \in BOOLEAN,
         w.dc.doc = 1, w.queue.state = "page", OwnBuffer(w.dc),
         NEW v, v = SendBand(w, band, full, wrote)
  PROVE  /\ SameJob(w, v) /\ v.queue.sides = w.queue.sides /\ v.dc.nband = w.dc.nband
         /\ v.queue.state = "page" /\ Emitted(w, band, w.dc.mode, v)
         /\ v.dc.bitmap = IF "GRX" \in w.dc.mode THEN {} ELSE w.dc.bitmap
  <1>w. /\ w = [dc |-> w.dc, queue |-> w.queue] /\ w.dc \in Devices /\ w.queue \in Queues
        /\ w.queue.page \in Sheets
    BY DEF Worlds, Queues
  <1>1. CASE "GRX" \notin w.dc.mode
    <2> DEFINE d == [w.dc EXCEPT !.mode = @ \cup {"SKIP"}]
    <2>1. v = [dc |-> d, queue |-> w.queue]
      BY <1>1, <1>w DEF SendBand, Devices, Queues
    <2>2. /\ d \in Devices /\ d.doc = w.dc.doc /\ d.job = w.dc.job /\ d.nband = w.dc.nband
          /\ d.pages = w.dc.pages /\ d.duplex = w.dc.duplex /\ d.gdiText = w.dc.gdiText
          /\ d.opaqText = w.dc.opaqText /\ d.mode = w.dc.mode \cup {"SKIP"}
          /\ d.bitmap = w.dc.bitmap /\ d.buf = w.dc.buf
      BY <1>w DEF Devices, Marks
    <2> HIDE DEF d
    <2> QED
      BY <1>1, <1>w, <2>1, <2>2 DEF Worlds, SameJob, SameFaults, OwnBuffer, Skipped, Emitted
  <1>2. CASE "GRX" \in w.dc.mode
    <2> DEFINE at == IF "SKIP" \in w.dc.mode THEN band ELSE w.queue.page.cursor
               sent == Write(w, full, wrote)
               strip == {[drawn |-> b, at |-> at] : b \in w.dc.bitmap}
               page == [done |-> w.queue.page.done \cup strip,
                        whited |-> w.queue.page.whited, cursor |-> at + 1]
               d == [sent.dc EXCEPT !.bitmap = {}, !.mode = @ \ {"GRX", "SKIP"}]
               q == [sent.queue EXCEPT !.page = page]
    <2>1. v = [dc |-> d, queue |-> q]
      BY <1>2 DEF SendBand
    <2>2. Spools(w, sent)
      BY WriteSpools
    <2>3. at \in Int
      BY <1>w DEF Sheets, Places
    <2> HIDE DEF sent, at
    <2>4. strip \subseteq [drawn: Int, at: Int]
      BY <1>w, <2>3 DEF Devices
    <2> HIDE DEF strip
    <2>5. page \in Sheets
      BY <1>w, <2>3, <2>4 DEF Sheets
    <2> HIDE DEF page
    <2>6. /\ sent.dc \in Devices /\ sent.queue \in Queues /\ SameDevice(w.dc, sent.dc)
          /\ sent.dc.doc \in {-1, 1} /\ OwnBuffer(sent.dc)
          /\ SameSheets(w.queue, sent.queue) /\ SameFaults(w.queue, sent.queue)
          /\ sent.queue.state = "page"
      BY <2>2 DEF Spools, Worlds
    <2>7. /\ d \in Devices /\ d.doc = sent.dc.doc /\ d.job = w.dc.job /\ d.nband = w.dc.nband
          /\ d.pages = w.dc.pages /\ d.duplex = w.dc.duplex /\ d.gdiText = w.dc.gdiText
          /\ d.opaqText = w.dc.opaqText /\ d.mode = w.dc.mode \ {"GRX", "SKIP"}
          /\ d.bitmap = {} /\ d.buf = sent.dc.buf
      BY <2>6 DEF Devices, SameDevice
    <2>8. /\ q \in Queues /\ q.page = page /\ SameSheets(sent.queue, q)
          /\ SameFaults(sent.queue, q) /\ q.state = sent.queue.state
      BY <2>5, <2>6 DEF Queues, SameSheets, SameFaults
    <2> HIDE DEF d, q
    <2>9. /\ page.done = w.queue.page.done \cup strip /\ page.whited = w.queue.page.whited
          /\ page.cursor = at + 1
      BY DEF page
    <2>10. v \in Worlds /\ v.dc = d /\ v.queue = q /\ OwnBuffer(d)
      BY <2>1, <2>6, <2>7, <2>8 DEF Worlds, OwnBuffer, SameDevice
    <2>11. SameFaults(w.queue, q) /\ SameSheets(w.queue, q)
      BY <2>6, <2>8 DEF SameFaults, SameSheets
    <2>12. Emitted(w, band, w.dc.mode, v)
      BY <1>2, <2>7, <2>8, <2>9, <2>10 DEF Emitted, Printed, At, Strips, at, strip
    <2>13. /\ v.queue.sides = w.queue.sides /\ v.queue.twoSided = w.queue.twoSided
           /\ v.dc.nband = w.dc.nband /\ v.queue.state = "page" /\ v.dc.bitmap = {}
      BY <2>6, <2>7, <2>8, <2>10, <2>11 DEF SameSheets
    <2>14. SameJob(w, v)
      BY <2>6, <2>7, <2>8, <2>9, <2>10, <2>11, <2>13 DEF SameJob
    <2> QED
      BY <1>2, <2>12, <2>13, <2>14
  <1> QED
    BY <1>1, <1>2

\* A page is ended: the buffer is written first, so that it is empty between pages.
LEMMA EndPageIs ==
  ASSUME NEW w \in Worlds, NEW full \in BOOLEAN, NEW wrote \in BOOLEAN, NEW end \in BOOLEAN,
         w.dc.doc \in {-1, 1}, w.queue.state # "none", w.dc.doc = 1 => w.queue.state = "page",
         OwnBuffer(w.dc), NEW v, v = EndPage(w, full, wrote, end)
  PROVE  /\ SameJob(w, v) /\ v.dc.nband = 0 /\ v.queue.sides = w.queue.sides + 1
         /\ v.dc.mode = w.dc.mode /\ v.dc.bitmap = w.dc.bitmap
         /\ v.queue.page = w.queue.page
         /\ v.dc.doc = 1 => v.queue.state = "open" /\ v.dc.buf = {} /\ w.dc.doc = 1
  <1> DEFINE d == [w EXCEPT !.dc.nband = 0]
             t == Write(d, full, wrote)
             f == Flush(t, wrote)
             e == IF f.dc.doc = 1 THEN EndSpoolPage(f, end) ELSE f
  <1>1. v = [e EXCEPT !.queue.sides = @ + 1]
    BY DEF EndPage
  <1>2. /\ d \in Worlds /\ d.queue = w.queue /\ d.dc.doc = w.dc.doc /\ d.dc.nband = 0
        /\ d.dc.job = w.dc.job /\ d.dc.mode = w.dc.mode /\ d.dc.gdiText = w.dc.gdiText
        /\ d.dc.opaqText = w.dc.opaqText /\ d.dc.pages = w.dc.pages /\ d.dc.buf = w.dc.buf
        /\ d.dc.duplex = w.dc.duplex /\ d.dc.bitmap = w.dc.bitmap
    BY DEF Worlds, Devices
  <1> HIDE DEF d
  <1>3. Spools(d, t)
    BY <1>2, WriteSpools
  <1>4. t \in Worlds
    BY <1>3 DEF Spools
  <1> HIDE DEF t
  <1>5. Spools(t, f) /\ (t.dc.doc = 1 => f.dc.buf = {})
    BY <1>4, FlushSpools
  <1> HIDE DEF f
  <1>6. Spools(d, f)
    BY <1>3, <1>5, SpoolsTwice
  <1>7. /\ f \in Worlds /\ SameDevice(d.dc, f.dc) /\ SameSheets(w.queue, f.queue)
        /\ SameFaults(w.queue, f.queue) /\ f.queue.page = w.queue.page
        /\ f.queue.state = w.queue.state /\ OwnBuffer(f.dc) /\ f.dc.doc \in {-1, 1}
        /\ (f.dc.doc = 1 => w.dc.doc = 1 /\ f.dc.buf = {})
    BY <1>2, <1>3, <1>5, <1>6 DEF Spools, OwnBuffer
  <1>8. /\ e \in Worlds /\ SameDevice(f.dc, e.dc) /\ SameSheets(f.queue, e.queue)
        /\ SameFaults(f.queue, e.queue) /\ e.queue.page = f.queue.page
        /\ e.queue.state # "none" /\ e.dc.buf = f.dc.buf /\ e.dc.doc \in {-1, 1}
        /\ (e.dc.doc = 1 => e.queue.state = "open" /\ f.dc.doc = 1)
    <2>1. CASE f.dc.doc = 1
      <3>1. e = EndSpoolPage(f, end)
        BY <2>1
      <3> HIDE DEF e
      <3>2. Paged(f, e, "open") /\ e.queue.page = f.queue.page
        BY <1>7, <3>1, EndSpoolPageIs
      <3> QED
        BY <1>7, <2>1, <3>2 DEF Paged
    <2>2. CASE f.dc.doc # 1
      BY <1>7, <2>2 DEF SameDevice, SameSheets, SameFaults
    <2> QED
      BY <2>1, <2>2
  <1> HIDE DEF e
  <1> DEFINE q == [e.queue EXCEPT !.sides = @ + 1]
  <1>9. v = [dc |-> e.dc, queue |-> q] /\ e.queue \in Queues /\ e.dc \in Devices
    BY <1>1, <1>8 DEF Worlds, Queues
  <1>10. /\ q \in Queues /\ q.sides = e.queue.sides + 1 /\ q.twoSided = e.queue.twoSided
         /\ SameFaults(e.queue, q) /\ q.state = e.queue.state /\ q.page = e.queue.page
    BY <1>9 DEF Queues, SameFaults
  <1> HIDE DEF q
  <1>11. v.dc = e.dc /\ v.queue = q /\ v \in Worlds
    BY <1>9, <1>10 DEF Worlds
  <1>12. SameFaults(w.queue, q) /\ q.twoSided = w.queue.twoSided /\ q.sides = w.queue.sides + 1
    BY <1>7, <1>8, <1>10 DEF SameFaults, SameSheets
  <1>13. SameDevice(d.dc, e.dc) /\ OwnBuffer(e.dc)
    BY <1>7, <1>8 DEF SameDevice, OwnBuffer
  <1> QED
    BY <1>2, <1>5, <1>7, <1>8, <1>10, <1>11, <1>12, <1>13 DEF SameDevice, SameJob

-----------------------------------------------------------------------------
(* NEXTBAND.                                                               *)

\* A page whose graphics are scaled counts as a page of graphics after its text band.
Scaled(d, n) ==
  IF n = 1 /\ opt.scaled THEN d.mode \cup {"ANYGRX"} ELSE d.mode

\* The page needs bands of graphics; it is done after the text band; there is graphics
\* to send in the band that ends.
Needs(d, n) == "ANYGRX" \in Scaled(d, n) \/ d.gdiText
Stops(d, n) == n = 1 /\ ("DRAFT" \in d.mode \/ ~Needs(d, n))
Sends(d, n) == ~Stops(d, n) /\ "GRX" \in d.mode

\* What NEXTBAND does with the band before it.
BandSent(w, n, v) ==
  IF Stops(w.dc, n) THEN v.queue.page = w.queue.page /\ v.dc.mode = Scaled(w.dc, n)
  ELSE Emitted(w, n - 1, Scaled(w.dc, n), v)

\* The device at the next band, and with its mode after the text band.
Up(w) == [w EXCEPT !.dc.nband = @ + 1]
Scale(w, n) == [w EXCEPT !.dc.mode = IF n = 1 /\ opt.scaled THEN @ \cup {"ANYGRX"} ELSE @]

\* The device when the band before this one is done with.
BandOf(w, n, full, wrote) ==
  IF Stops(w.dc, n) THEN Scale(Up(w), n) ELSE SendBand(Scale(Up(w), n), n - 1, full, wrote)

LEMMA BandSentIs ==
  ASSUME NEW w \in Worlds, NEW n \in Places, NEW full \in BOOLEAN, NEW wrote \in BOOLEAN,
         w.dc.doc = 1, w.queue.state = "page", OwnBuffer(w.dc),
         NEW v, v = BandOf(w, n, full, wrote)
  PROVE  /\ SameJob(w, v) /\ v.queue.sides = w.queue.sides /\ v.dc.nband = w.dc.nband + 1
         /\ v.queue.state = "page" /\ BandSent(w, n, v)
         /\ v.dc.bitmap = IF Sends(w.dc, n) THEN {} ELSE w.dc.bitmap
  <1>n. n \in Int
    BY DEF Places
  <1> DEFINE up == Up(w)
             scaled == Scale(up, n)
  <1>1. /\ up \in Worlds /\ up.queue = w.queue /\ up.dc.doc = 1 /\ up.dc.job = w.dc.job
        /\ up.dc.mode = w.dc.mode /\ up.dc.pages = w.dc.pages /\ up.dc.buf = w.dc.buf
        /\ up.dc.duplex = w.dc.duplex /\ up.dc.bitmap = w.dc.bitmap
        /\ up.dc.gdiText = w.dc.gdiText /\ up.dc.opaqText = w.dc.opaqText
        /\ up.dc.nband = w.dc.nband + 1
    BY DEF Worlds, Devices, Up
  <1> HIDE DEF up
  <1>2. /\ scaled \in Worlds /\ scaled.queue = w.queue /\ scaled.dc.doc = 1
        /\ scaled.dc.job = w.dc.job /\ scaled.dc.mode = Scaled(w.dc, n)
        /\ scaled.dc.pages = w.dc.pages /\ scaled.dc.buf = w.dc.buf
        /\ scaled.dc.duplex = w.dc.duplex /\ scaled.dc.bitmap = w.dc.bitmap
        /\ scaled.dc.gdiText = w.dc.gdiText /\ scaled.dc.opaqText = w.dc.opaqText
        /\ scaled.dc.nband = w.dc.nband + 1
    <2> DEFINE mode == IF n = 1 /\ opt.scaled THEN up.dc.mode \cup {"ANYGRX"} ELSE up.dc.mode
               d == [up.dc EXCEPT !.mode = mode]
    <2>1. up.dc \in Devices /\ up.queue \in Queues /\ up = [dc |-> up.dc, queue |-> up.queue]
      BY <1>1 DEF Worlds
    <2>s. scaled = [up EXCEPT !.dc.mode = mode]
      BY DEF Scale
    <2>2. scaled = [dc |-> d, queue |-> up.queue]
      <3> HIDE DEF scaled, mode
      <3> QED
        BY <2>1, <2>s
    <2> HIDE DEF scaled
    <2>3. mode = Scaled(w.dc, n)
      BY <1>1 DEF Scaled
    <2>4. mode \in SUBSET Marks
      BY <2>1 DEF Devices, Marks
    <2> HIDE DEF mode
    <2>5. /\ d \in Devices /\ d.doc = up.dc.doc /\ d.job = up.dc.job /\ d.mode = mode
          /\ d.nband = up.dc.nband /\ d.pages = up.dc.pages /\ d.buf = up.dc.buf
          /\ d.duplex = up.dc.duplex /\ d.bitmap = up.dc.bitmap
          /\ d.gdiText = up.dc.gdiText /\ d.opaqText = up.dc.opaqText
      BY <2>1, <2>4 DEF Devices
    <2> HIDE DEF d
    <2>6. scaled \in Worlds /\ scaled.dc = d /\ scaled.queue = up.queue
      BY <2>1, <2>2, <2>5 DEF Worlds
    <2> QED
      BY <1>1, <2>3, <2>5, <2>6
  <1>v. v = IF Stops(w.dc, n) THEN scaled ELSE SendBand(scaled, n - 1, full, wrote)
    BY DEF up, BandOf
  <1> HIDE DEF scaled
  <1>3. /\ OwnBuffer(scaled.dc)
        /\ ("GRX" \in scaled.dc.mode) = ("GRX" \in w.dc.mode)
        /\ ("SKIP" \in scaled.dc.mode) = ("SKIP" \in w.dc.mode)
    BY <1>2 DEF OwnBuffer, Scaled
  <1>4. CASE Stops(w.dc, n)
    <2>1. v = scaled
      BY <1>v, <1>4
    <2>2. SameFaults(w.queue, v.queue) /\ OwnBuffer(v.dc)
      BY <1>2, <1>3, <2>1 DEF SameFaults
    <2>3. BandSent(w, n, v)
      BY <1>2, <1>4, <2>1 DEF BandSent
    <2> QED
      BY <1>2, <1>4, <2>1, <2>2, <2>3 DEF SameJob, Sends
  <1>5. CASE ~Stops(w.dc, n)
    <2> DEFINE band == n - 1
    <2>1. band \in Places /\ v = SendBand(scaled, band, full, wrote)
      BY <1>n, <1>v, <1>5 DEF Places
    <2> HIDE DEF band
    <2>2. /\ SameJob(scaled, v) /\ v.queue.sides = scaled.queue.sides
          /\ v.dc.nband = scaled.dc.nband /\ v.queue.state = "page"
          /\ Emitted(scaled, band, scaled.dc.mode, v)
          /\ v.dc.bitmap = IF "GRX" \in scaled.dc.mode THEN {} ELSE scaled.dc.bitmap
      <3>1. scaled \in Worlds /\ scaled.dc.doc = 1 /\ scaled.queue.state = "page"
            /\ OwnBuffer(scaled.dc)
        BY <1>2, <1>3
      <3> QED
        BY <2>1, <3>1, SendBandIs
    <2>3. SameJob(w, v) /\ v.queue.sides = w.queue.sides /\ v.dc.nband = w.dc.nband + 1
      BY <1>2, <2>2 DEF SameJob, SameFaults
    <2>4. At(scaled, band) = At(w, n - 1)
      BY <1>2, <1>3 DEF At, band
    <2>5. Strips(scaled, band) = Strips(w, n - 1)
      BY <1>2, <2>4 DEF Strips
    <2>6. Emitted(w, n - 1, Scaled(w.dc, n), v)
      BY <1>2, <1>3, <2>2, <2>4, <2>5 DEF Emitted, Printed, Skipped
    <2>7. v.dc.bitmap = IF Sends(w.dc, n) THEN {} ELSE w.dc.bitmap
      BY <1>2, <1>3, <1>5, <2>2 DEF Sends
    <2> QED
      BY <1>5, <2>2, <2>3, <2>6, <2>7 DEF BandSent
  <1> QED
    BY <1>4, <1>5

\* The whole escape in a page: it goes on to the next band only if the page needs it.
Stepped(w, n, r) ==
  /\ r.rect \in BOOLEAN /\ SameJob(w, r.w) /\ BandSent(w, n, r.w)
  /\ r.rect =>
       /\ n <= NumBands /\ Needs(w.dc, n) /\ ~Stops(w.dc, n)
       /\ r.w.dc.nband = w.dc.nband + 1
       /\ r.w.queue.state = "page" /\ r.w.queue.sides = w.queue.sides
       /\ r.w.dc.bitmap = IF n = 1 \/ Sends(w.dc, n) THEN {} ELSE w.dc.bitmap
  /\ ~r.rect =>
       /\ n > NumBands \/ Stops(w.dc, n) \/ ~Needs(w.dc, n)
       /\ r.w.dc.nband = 0 /\ r.w.queue.sides = w.queue.sides + 1
       /\ r.w.dc.bitmap = IF Sends(w.dc, n) THEN {} ELSE w.dc.bitmap
       /\ r.w.dc.doc = 1 => r.w.queue.state = "open" /\ r.w.dc.buf = {}

LEMMA BandStepIs ==
  ASSUME NEW w \in Worlds, NEW n \in Places, NEW start \in BOOLEAN, NEW full \in BOOLEAN,
         NEW wrote \in BOOLEAN, NEW end \in BOOLEAN, n > 0,
         w.dc.doc = 1, w.queue.state = "page", OwnBuffer(w.dc),
         NEW r, r = BandStep(w, n, start, full, wrote, end)
  PROVE  Stepped(w, n, r)
  <1>n. n \in Int /\ n # 0
    BY DEF Places
  <1> DEFINE up == Up(w)
             scaled == Scale(up, n)
             stops == n = 1 /\ ("DRAFT" \in scaled.dc.mode \/ ~NeedsBands(scaled.dc))
             sent == IF stops THEN scaled ELSE SendBand(scaled, n - 1, full, wrote)
             last == n > NumBands \/ stops \/ ~NeedsBands(sent.dc)
             over == EndPage(sent, full, wrote, end)
             next == IF n = 1 THEN [sent EXCEPT !.dc.bitmap = {}] ELSE sent
  <1>1. r = IF last THEN [w |-> over, rect |-> FALSE] ELSE [w |-> next, rect |-> TRUE]
    <2> DEFINE any == IF n = 0 THEN StartPage(up, start, full, wrote)
                      ELSE IF stops THEN scaled ELSE SendBand(scaled, n - 1, full, wrote)
               none == n > NumBands \/ stops \/ (n > 0 /\ ~NeedsBands(any.dc))
    <2>1. r = IF n = 0 /\ ~start THEN [w |-> any, rect |-> FALSE]
              ELSE IF none THEN [w |-> EndPage(any, full, wrote, end), rect |-> FALSE]
              ELSE [w |-> IF n = 1 THEN [any EXCEPT !.dc.bitmap = {}] ELSE any,
                    rect |-> TRUE]
      BY DEF BandStep, Up, Scale
    <2>2. any = sent
      BY <1>n
    <2> HIDE DEF any, sent, stops, scaled, up
    <2>3. none = last
      BY <1>n, <2>2
    <2> HIDE DEF none, last
    <2> QED
      BY <1>n, <2>1, <2>2, <2>3
  <1>2. scaled.dc.mode = Scaled(w.dc, n) /\ scaled.dc.gdiText = w.dc.gdiText
    BY <1>n DEF Scale, Up, Scaled, Worlds, Devices
  <1>3. stops = Stops(w.dc, n)
    BY <1>2 DEF Stops, NeedsBands, Needs, Scaled
  <1>4. sent = BandOf(w, n, full, wrote)
    BY <1>3 DEF BandOf
  <1> HIDE DEF sent, stops
  <1>5. /\ SameJob(w, sent) /\ sent.queue.sides = w.queue.sides
        /\ sent.dc.nband = w.dc.nband + 1
        /\ sent.queue.state = "page" /\ BandSent(w, n, sent)
        /\ sent.dc.bitmap = IF Sends(w.dc, n) THEN {} ELSE w.dc.bitmap
    BY <1>4, BandSentIs
  <1>6. NeedsBands(sent.dc) = Needs(w.dc, n)
    BY <1>5 DEF NeedsBands, Needs, BandSent, Emitted, Printed, Skipped, SameJob
  <1>7. CASE last
    <2>1. r.w = over /\ r.rect = FALSE
      BY <1>1, <1>7
    <2>2. n > NumBands \/ Stops(w.dc, n) \/ ~Needs(w.dc, n)
      BY <1>3, <1>6, <1>7
    <2> HIDE DEF over, last
    <2>3. /\ sent \in Worlds /\ sent.dc.doc \in {-1, 1} /\ sent.queue.state # "none"
          /\ (sent.dc.doc = 1 => sent.queue.state = "page") /\ OwnBuffer(sent.dc)
          /\ full \in BOOLEAN /\ wrote \in BOOLEAN /\ end \in BOOLEAN
      BY <1>5 DEF SameJob
    <2> DEFINE v == over
    <2>4. v = EndPage(sent, full, wrote, end)
      BY DEF over
    <2> HIDE DEF v
    <2>5. /\ SameJob(sent, v) /\ v.dc.nband = 0 /\ v.queue.sides = sent.queue.sides + 1
          /\ v.dc.mode = sent.dc.mode /\ v.dc.bitmap = sent.dc.bitmap
          /\ v.queue.page = sent.queue.page
          /\ v.dc.doc = 1 => v.queue.state = "open" /\ v.dc.buf = {} /\ sent.dc.doc = 1
      BY <2>3, <2>4, EndPageIs
    <2>6. SameJob(w, v)
      BY <1>5, <2>5 DEF SameJob, SameFaults
    <2>7. BandSent(w, n, v)
      BY <1>5, <2>5 DEF BandSent, Emitted, Printed, Skipped
    <2> QED
      BY <1>5, <2>1, <2>2, <2>5, <2>6, <2>7 DEF v, Stepped
  <1>8. CASE ~last
    <2>1. r.w = next /\ r.rect = TRUE
      BY <1>1, <1>8
    <2>2. n <= NumBands /\ Needs(w.dc, n) /\ ~Stops(w.dc, n)
      BY <1>n, <1>3, <1>6, <1>8
    <2> HIDE DEF last
    <2>3. /\ next \in Worlds /\ next.queue = sent.queue /\ SameJob(sent, next)
          /\ next.dc.mode = sent.dc.mode /\ next.dc.nband = sent.dc.nband
          /\ next.dc.bitmap = IF n = 1 THEN {} ELSE sent.dc.bitmap
      <3>1. sent \in Worlds /\ OwnBuffer(sent.dc) /\ sent.dc.doc \in {-1, 1}
        BY <1>5 DEF SameJob
      <3>2. SameJob(sent, sent)
        BY <1>5 DEF SameJob, SameFaults
      <3>3. CASE n = 1
        <4> DEFINE d == [sent.dc EXCEPT !.bitmap = {}]
        <4>1. next = [dc |-> d, queue |-> sent.queue]
          BY <3>1, <3>3 DEF Worlds
        <4>2. /\ d \in Devices /\ d.doc = sent.dc.doc /\ d.job = sent.dc.job
              /\ d.mode = sent.dc.mode /\ d.nband = sent.dc.nband /\ d.pages = sent.dc.pages
              /\ d.buf = sent.dc.buf /\ d.duplex = sent.dc.duplex /\ d.bitmap = {}
              /\ d.gdiText = sent.dc.gdiText /\ d.opaqText = sent.dc.opaqText
          BY <3>1 DEF Worlds, Devices
        <4> HIDE DEF d
        <4>3. next \in Worlds /\ next.dc = d /\ next.queue = sent.queue
          BY <3>1, <4>1, <4>2 DEF Worlds
        <4> QED
          BY <1>5, <3>1, <3>3, <4>2, <4>3 DEF SameJob, SameFaults, OwnBuffer
      <3>4. CASE n # 1
        BY <3>1, <3>2, <3>4
      <3> QED
        BY <3>3, <3>4
    <2> HIDE DEF next
    <2>4. SameJob(w, next)
      BY <1>5, <2>3 DEF SameJob, SameFaults
    <2>5. BandSent(w, n, next)
      BY <1>5, <2>3 DEF BandSent, Emitted, Printed, Skipped
    <2> QED
      BY <1>5, <2>1, <2>2, <2>3, <2>4, <2>5 DEF Stepped
  <1> QED
    BY <1>7, <1>8

\* The whole escape before a page: it gives the text band unless the page could not be
\* started.
Opened(w, r) ==
  /\ r.rect \in BOOLEAN /\ Started(w, r.w) /\ r.w.dc.nband = w.dc.nband + 1
  /\ r.w.dc.doc = 1 => r.rect

LEMMA FirstStepIs ==
  ASSUME NEW w \in Worlds, NEW start \in BOOLEAN, NEW full \in BOOLEAN, NEW wrote \in BOOLEAN,
         NEW end \in BOOLEAN, w.queue.state # "none", OwnBuffer(w.dc),
         NEW n \in Places, n = 0, NEW r, r = BandStep(w, n, start, full, wrote, end)
  PROVE  Opened(w, r)
  <1> DEFINE up == Up(w)
             v == StartPage(up, start, full, wrote)
  <1>1. r = IF ~start THEN [w |-> v, rect |-> FALSE] ELSE [w |-> v, rect |-> TRUE]
    <2> DEFINE scaled == [up EXCEPT !.dc.mode = IF 0 = 1 /\ opt.scaled
                                                THEN @ \cup {"ANYGRX"} ELSE @]
               stops == 0 = 1 /\ ("DRAFT" \in scaled.dc.mode \/ ~NeedsBands(scaled.dc))
               sent == IF 0 = 0 THEN v
                       ELSE IF stops THEN scaled
                       ELSE SendBand(scaled, 0 - 1, full, wrote)
               last == 0 > NumBands \/ stops \/ (0 > 0 /\ ~NeedsBands(sent.dc))
    <2>1. r = IF 0 = 0 /\ ~start THEN [w |-> sent, rect |-> FALSE]
              ELSE IF last THEN [w |-> EndPage(sent, full, wrote, end), rect |-> FALSE]
              ELSE [w |-> IF 0 = 1 THEN [sent EXCEPT !.dc.bitmap = {}] ELSE sent,
                    rect |-> TRUE]
      BY DEF BandStep, Up
    <2>2. sent = v
      OBVIOUS
    <2>3. ~stops
      OBVIOUS
    <2> HIDE DEF sent, stops, v
    <2>4. ~last
      BY <2>3
    <2> HIDE DEF last
    <2> QED
      BY <2>1, <2>2, <2>4
  <1>2. /\ up \in Worlds /\ up.queue = w.queue /\ up.dc.job = w.dc.job
        /\ up.dc.mode = w.dc.mode /\ up.dc.pages = w.dc.pages /\ up.dc.buf = w.dc.buf
        /\ up.dc.duplex = w.dc.duplex /\ up.dc.bitmap = w.dc.bitmap
        /\ up.dc.nband = w.dc.nband + 1
    BY DEF Worlds, Devices, Up
  <1> HIDE DEF up
  <1>3. /\ OwnBuffer(up.dc) /\ up.queue.state # "none"
        /\ start \in BOOLEAN /\ full \in BOOLEAN /\ wrote \in BOOLEAN
    BY <1>2 DEF OwnBuffer
  <1>4. v = StartPage(up, start, full, wrote)
    OBVIOUS
  <1> HIDE DEF v
  <1>5. Started(up, v) /\ v.dc.nband = up.dc.nband /\ (~start => v.dc.doc # 1)
    BY <1>2, <1>3, <1>4, StartPageIs
  <1>6. Started(w, v)
    BY <1>2, <1>5 DEF Started, SameFaults
  <1>7. r.w = v /\ (start => r.rect = TRUE) /\ (~start => r.rect = FALSE)
    <2>1. CASE start
      <3>1. r = [w |-> v, rect |-> TRUE]
        BY <1>1, <2>1
      <3>2. r.w = v /\ r.rect = TRUE
        BY <3>1
      <3> QED
        BY <2>1, <3>2
    <2>2. CASE ~start
      BY <1>1, <2>2
    <2> QED
      BY <2>1, <2>2
  <1>8. Started(w, r.w) /\ r.w.dc.nband = w.dc.nband + 1
    BY <1>2, <1>5, <1>6, <1>7
  <1>9. r.rect \in BOOLEAN /\ (r.w.dc.doc = 1 => r.rect)
    BY <1>5, <1>7
  <1> QED
    BY <1>8, <1>9 DEF Opened

-----------------------------------------------------------------------------
(* The inductive invariant.                                                *)

Apps == [pc: {"nodoc", "doc", "page", "failed"}, docs: 0 .. MaxDocs, content: Content,
         todo: SUBSET Items, asked: BOOLEAN]

Bounds(d) ==
  /\ d.job \in -1 .. MaxDocs /\ d.nband \in 0 .. NumBands + 1
  /\ d.pages \in 0 .. MaxPages + 1 /\ d.duplex \in 0 .. 3
  /\ d.buf \subseteq 1 .. MaxDocs /\ d.bitmap \subseteq Bands

Placed(p) == \A x \in p.done : x.drawn = x.at

\* In every state: the types, no faults, and all that is printed in its place.
Sound(w) == w \in Worlds /\ Bounds(w.dc) /\ Faultless(w.queue) /\ Placed(w.queue.page)

\* The job has both sides of the paper only if the printer has and the device says so.
Sided(o, w) == w.queue.twoSided => o.duplexer /\ w.dc.duplex # SIMPLEX

\* Before and after a document the buffer is empty and no page is begun.
NoDoc(w) == w.dc.doc = 0 /\ w.dc.buf = {} /\ w.dc.nband = 0

\* Between the pages of a document the job is open, the buffer is empty and the sides of
\* the job are the pages of the device.
InDoc(o, w) ==
  /\ w.dc.doc = 1 /\ w.dc.job \in 1 .. MaxDocs /\ w.queue.state = "open"
  /\ w.dc.buf = {} /\ w.dc.nband = 0 /\ w.dc.pages <= MaxPages
  /\ w.queue.sides = w.dc.pages /\ Sided(o, w)

\* The bitmap holds nothing but the band, and nothing at all if no graphics were drawn;
\* the cursor of the printer is at the band unless bands were skipped.
BandOK(d, p) ==
  /\ d.nband = 1 => "GRX" \notin d.mode
  /\ d.nband > 1 => /\ d.bitmap \subseteq {d.nband - 1}
                    /\ "GRX" \notin d.mode => d.bitmap = {}
                    /\ "SKIP" \notin d.mode => p.cursor = d.nband - 1

\* In a page the job exists, and is at a page unless a call has failed.
InPage(o, w) ==
  /\ w.dc.doc \in {-1, 1} /\ w.dc.job \in 1 .. MaxDocs /\ w.queue.state # "none"
  /\ OwnBuffer(w.dc) /\ w.dc.nband \in 1 .. NumBands + 1 /\ w.dc.pages <= MaxPages
  /\ w.dc.doc = 1 => w.queue.state = "page"
  /\ w.queue.sides + 1 = w.dc.pages /\ Sided(o, w) /\ BandOK(w.dc, w.queue.page)

\* After a failure the device has no job.
Failed(w) == w.dc.doc # 1 /\ w.dc.job = 0

Phase(o, w, pc) ==
  /\ pc = "nodoc" => NoDoc(w)
  /\ pc = "doc" => InDoc(o, w)
  /\ pc = "page" => InPage(o, w)
  /\ pc = "failed" => Failed(w)

Inv == opt \in Options /\ Sound(World) /\ app \in Apps /\ Phase(opt, World, app.pc)

\* A step that changes the device and the queue to v and the application to a.
LEMMA StepsTo ==
  ASSUME NEW o \in Options, opt' = o, NEW v, Becomes(v), Sound(v),
         NEW a \in Apps, app' = a, NEW pc, pc = a.pc, Phase(o, v, pc)
  PROVE  Inv'
  <1>1. v = [dc |-> dc', queue |-> queue']
    BY DEF Sound, Worlds, Becomes
  <1>2. World' = v
    BY <1>1 DEF World
  <1> QED
    BY <1>2 DEF Inv

\* What aborting leaves of a job that is open.
LEMMA AbortLeaves ==
  ASSUME NEW w, Sound(w), NEW start \in BOOLEAN, NEW wrote \in BOOLEAN, NEW end \in BOOLEAN,
         w.dc.job \in 1 .. MaxDocs, w.queue.state # "none", OwnBuffer(w.dc),
         NEW v, v = AbortJob(w, start, wrote, end)
  PROVE  Sound(v) /\ Failed(v)
  <1>1. /\ w \in Worlds /\ w.dc.job # 0
        /\ start \in BOOLEAN /\ wrote \in BOOLEAN /\ end \in BOOLEAN
    BY DEF Sound
  <1>2. Aborted(w, v)
    BY <1>1, AbortJobIs
  <1>3. Placed(v.queue.page)
    BY <1>2 DEF Sound, Placed, NoPage, Aborted
  <1>4. Faultless(v.queue)
    BY <1>2 DEF Sound, Faultless, SameFaults, Aborted
  <1>5. v.dc.buf \subseteq 1 .. MaxDocs
    BY <1>2 DEF Aborted
  <1>6. Bounds(v.dc)
    BY <1>2, <1>5 DEF Sound, Bounds, Aborted
  <1> QED
    BY <1>2, <1>3, <1>4, <1>6 DEF Sound, Failed, Aborted

LEMMA TodoIs == \A c, band, graphics, text : Todo(c, band, graphics, text) \in SUBSET Items
  BY DEF Todo, Items

\* How every NEXTBAND ends: a call that failed aborts the job.
Ended(w, rect, c, start, wrote, end) ==
  \E todo, pc, after :
    /\ todo \in SUBSET Items
    /\ pc = IF w.dc.doc # 1 THEN "failed" ELSE IF rect THEN "page" ELSE "doc"
    /\ after = IF w.dc.doc # 1 THEN AbortJob(w, start, wrote, end) ELSE w
    /\ Becomes(after) /\ opt' = opt
    /\ app' = [app EXCEPT !.pc = pc, !.content = c, !.todo = todo, !.asked = FALSE]

LEMMA BandEnds ==
  ASSUME Inv, NEW c \in Content, NEW w, Sound(w), NEW rect \in BOOLEAN,
         NEW start \in BOOLEAN, NEW wrote \in BOOLEAN, NEW end \in BOOLEAN,
         w.dc.job \in 1 .. MaxDocs, w.queue.state # "none", OwnBuffer(w.dc),
         w.dc.doc = 1 /\ rect => InPage(opt, w), w.dc.doc = 1 /\ ~rect => InDoc(opt, w),
         Ended(w, rect, c, start, wrote, end)
  PROVE  Inv'
  <1>0. PICK todo, pc, after :
          /\ todo \in SUBSET Items
          /\ pc = IF w.dc.doc # 1 THEN "failed" ELSE IF rect THEN "page" ELSE "doc"
          /\ after = IF w.dc.doc # 1 THEN AbortJob(w, start, wrote, end) ELSE w
          /\ Becomes(after) /\ opt' = opt
          /\ app' = [app EXCEPT !.pc = pc, !.content = c, !.todo = todo, !.asked = FALSE]
    BY DEF Ended
  <1> DEFINE a == [app EXCEPT !.pc = pc, !.content = c, !.todo = todo, !.asked = FALSE]
             o == opt
  <1>1. pc \in {"failed", "page", "doc"} /\ app \in Apps
    BY <1>0 DEF Inv
  <1>2. a \in Apps /\ a.pc = pc
    BY <1>0, <1>1 DEF Apps
  <1>3. o \in Options /\ opt' = o /\ app' = a
    BY <1>0 DEF Inv
  <1> HIDE DEF a, o
  <1>4. Sound(after) /\ Phase(o, after, pc)
    <2>1. CASE w.dc.doc # 1
      <3>1. after = AbortJob(w, start, wrote, end) /\ pc = "failed"
        BY <1>0, <2>1
      <3>2. Sound(after) /\ Failed(after)
        BY <3>1, AbortLeaves
      <3> QED
        BY <3>1, <3>2 DEF Phase
    <2>2. CASE w.dc.doc = 1
      BY <1>0, <2>2 DEF Phase, o
    <2> QED
      BY <2>1, <2>2
  <1> QED
    BY <1>0, <1>2, <1>3, <1>4, StepsTo

\* A page that was started is in order, and one that was not leaves a job to abort.
LEMMA StartedSound ==
  ASSUME NEW o, o = opt, NEW w, Sound(w), InDoc(o, w), w.dc.pages < MaxPages, NEW v,
         Started(w, v), v.dc.nband = w.dc.nband + 1
  PROVE  /\ Sound(v) /\ v.dc.job \in 1 .. MaxDocs
         /\ v.dc.doc = 1 => InPage(o, v)
  <1>1. w \in Worlds /\ v \in Worlds /\ w.dc.pages \in Int /\ v.dc.pages \in Int
    BY DEF Sound, Started, Worlds, Devices
  <1>2. Placed(v.queue.page)
    BY DEF Sound, Placed, NoPage, Started
  <1>3. Faultless(v.queue)
    BY DEF Sound, Faultless, SameFaults, Started
  <1>4. v.dc.job \in 1 .. MaxDocs /\ v.dc.nband = 1
    BY DEF InDoc, Started
  <1>5. v.dc.buf \subseteq 1 .. MaxDocs
    BY <1>4 DEF Started, OwnBuffer
  <1>6. Bounds(v.dc)
    BY <1>1, <1>4, <1>5 DEF Sound, Bounds, Started, InDoc, SIMPLEX
  <1>7. ASSUME v.dc.doc = 1
        PROVE  InPage(o, v)
    <2>1. Sided(o, v)
      BY <1>7 DEF Sided, InDoc, Started
    <2>2. "GRX" \notin v.dc.mode
      BY <1>7 DEF Started
    <2>3. BandOK(v.dc, v.queue.page)
      BY <1>4, <2>2 DEF BandOK
    <2>4. v.queue.sides + 1 = v.dc.pages /\ v.dc.pages <= MaxPages
      BY <1>1, <1>7 DEF Started, InDoc
    <2> QED
      BY <1>4, <1>7, <2>1, <2>3, <2>4 DEF InPage, Started
  <1> QED
    BY <1>1, <1>2, <1>3, <1>4, <1>6, <1>7 DEF Sound

LEMMA WorldIs == World.dc = dc /\ World.queue = queue
  BY DEF World

\* What NEXTBAND changes, when the step of the escape is r.
Step(start, full, wrote, end) == BandStep(World, dc.nband, start, full, wrote, end)

LEMMA NextBandIs ==
  ASSUME NEW c, NEW start \in BOOLEAN, NEW full \in BOOLEAN, NEW wrote \in BOOLEAN,
         NEW end \in BOOLEAN, NextBand(c, start, full, wrote, end), NEW r,
         r = Step(start, full, wrote, end),
         r.rect \in BOOLEAN
  PROVE  Ended(r.w, r.rect, c, start, wrote, end)
  <1> DEFINE after == IF r.w.dc.doc # 1 THEN AbortJob(r.w, start, wrote, end) ELSE r.w
             pc == IF r.w.dc.doc # 1 THEN "failed" ELSE IF r.rect THEN "page" ELSE "doc"
             all == Todo(c, after.dc.nband - 1, TRUE, TRUE)
             todo == IF r.w.dc.doc # 1 \/ ~r.rect \/ c.info THEN {} ELSE all
  <1>1. all \in SUBSET Items
    BY TodoIs
  <1>2. /\ Becomes(after) /\ opt' = opt
        /\ app' = [app EXCEPT !.pc = pc, !.content = c, !.todo = todo, !.asked = FALSE]
    BY DEF NextBand, Step
  <1> HIDE DEF after, all
  <1>3. todo \in SUBSET Items
    BY <1>1
  <1> HIDE DEF todo, pc
  <1>4. /\ pc = IF r.w.dc.doc # 1 THEN "failed" ELSE IF r.rect THEN "page" ELSE "doc"
        /\ after = IF r.w.dc.doc # 1 THEN AbortJob(r.w, start, wrote, end) ELSE r.w
    BY DEF pc, after
  <1> QED
    BY <1>2, <1>3, <1>4 DEF Ended

LEMMA FirstBandKeeps == Inv /\ FirstBand => Inv'
  <1> SUFFICES ASSUME Inv, FirstBand
               PROVE  Inv'
    OBVIOUS
  <1>1. PICK c \in Contents, start, full, wrote, end \in BOOLEAN :
          NextBand(c, start, full, wrote, end)
    BY DEF FirstBand
  <1> DEFINE w == World
             n == dc.nband
             r == BandStep(w, n, start, full, wrote, end)
             o == opt
  <1>2. /\ Sound(w) /\ InDoc(o, w) /\ w.dc.pages < MaxPages /\ dc.doc = 1 /\ n = 0
        /\ c \in Content /\ o = opt
    BY WorldIs DEF Inv, FirstBand, Phase, InDoc
  <1>3. r = Step(start, full, wrote, end)
    BY <1>2 DEF Step
  <1>4. w \in Worlds /\ w.queue.state # "none" /\ OwnBuffer(w.dc)
        /\ start \in BOOLEAN /\ full \in BOOLEAN /\ wrote \in BOOLEAN /\ end \in BOOLEAN
    BY <1>2 DEF Sound, InDoc, OwnBuffer
  <1> HIDE DEF w, n, o
  <1>5. r = BandStep(w, n, start, full, wrote, end) /\ n \in Places /\ n = 0
    BY <1>2 DEF Places
  <1> HIDE DEF r
  <1>o. Opened(w, r)
    BY <1>4, <1>5, FirstStepIs
  <1>6. /\ r.rect \in BOOLEAN /\ Started(w, r.w) /\ r.w.dc.nband = w.dc.nband + 1
        /\ r.w.dc.doc = 1 => r.rect
    BY <1>o DEF Opened
  <1> DEFINE v == r.w
             rect == r.rect
  <1>7. /\ Sound(v) /\ v.dc.job \in 1 .. MaxDocs
        /\ v.dc.doc = 1 => InPage(o, v)
    <2> HIDE DEF v
    <2>1. Started(w, v) /\ v.dc.nband = w.dc.nband + 1
      BY <1>6 DEF v
    <2> QED
      BY <1>2, <2>1, StartedSound
  <1>8. Ended(v, rect, c, start, wrote, end)
    BY <1>1, <1>3, <1>4, <1>6, NextBandIs
  <1>9. /\ v.queue.state # "none" /\ OwnBuffer(v.dc) /\ rect \in BOOLEAN
        /\ (v.dc.doc = 1 /\ rect => InPage(opt, v)) /\ (v.dc.doc = 1 /\ ~rect => InDoc(opt, v))
    BY <1>6, <1>7 DEF Started, o
  <1> HIDE DEF v, rect
  <1> QED
    BY <1>2, <1>4, <1>7, <1>8, <1>9, BandEnds

\* A band that is sent is printed in its place, whichever bands were skipped before it.
LEMMA SteppedPlaced ==
  ASSUME NEW w, w \in Worlds, Placed(w.queue.page), BandOK(w.dc, w.queue.page),
         NEW n, n = w.dc.nband, n > 0, NEW v, BandSent(w, n, v)
  PROVE  /\ Placed(v.queue.page)
         /\ ~Stops(w.dc, n) => /\ "GRX" \notin v.dc.mode
                               /\ "SKIP" \notin v.dc.mode => v.queue.page.cursor = n
  <1>1. n \in Int
    BY DEF Worlds, Devices
  <1>2. CASE Stops(w.dc, n)
    BY <1>2 DEF BandSent, Placed
  <1>3. CASE ~Stops(w.dc, n) /\ "GRX" \notin w.dc.mode
    BY <1>3 DEF BandSent, Emitted, Skipped, Scaled, Placed
  <1>4. CASE ~Stops(w.dc, n) /\ "GRX" \in w.dc.mode
    <2>1. n > 1
      BY <1>1, <1>4 DEF BandOK
    <2>2. At(w, n - 1) = n - 1 /\ w.dc.bitmap \subseteq {n - 1}
      BY <2>1 DEF At, BandOK
    <2>3. \A x \in Strips(w, n - 1) : x.drawn = x.at
      BY <2>2 DEF Strips
    <2>4. Printed(w, n - 1, Scaled(w.dc, n), v)
      BY <1>4 DEF BandSent, Emitted
    <2>5. Placed(v.queue.page)
      BY <2>3, <2>4 DEF Printed, Placed
    <2>6. v.queue.page.cursor = n /\ "GRX" \notin v.dc.mode
      BY <1>1, <2>2, <2>4 DEF Printed
    <2> QED
      BY <2>5, <2>6
  <1> QED
    BY <1>2, <1>3, <1>4

LEMMA SteppedSound ==
  ASSUME NEW o, o = opt, NEW w, Sound(w), InPage(o, w), w.dc.doc = 1,
         NEW n, n = w.dc.nband, NEW r, Stepped(w, n, r)
  PROVE  /\ Sound(r.w) /\ r.w.dc.job \in 1 .. MaxDocs
         /\ r.w.dc.doc = 1 /\ r.rect => InPage(o, r.w)
         /\ r.w.dc.doc = 1 /\ ~r.rect => InDoc(o, r.w)
  <1> DEFINE v == r.w
  <1>1. /\ w \in Worlds /\ v \in Worlds /\ n \in Int /\ n > 0 /\ n \in 1 .. NumBands + 1
        /\ SameJob(w, v) /\ BandSent(w, n, v)
    BY DEF Sound, InPage, Stepped, SameJob
  <1>2. /\ Placed(v.queue.page)
        /\ ~Stops(w.dc, n) => /\ "GRX" \notin v.dc.mode
                              /\ "SKIP" \notin v.dc.mode => v.queue.page.cursor = n
    <2>1. Placed(w.queue.page) /\ BandOK(w.dc, w.queue.page)
      BY DEF Sound, InPage
    <2> HIDE DEF v
    <2> QED
      BY <1>1, <2>1, SteppedPlaced
  <1>3. Faultless(v.queue) /\ v.dc.job \in 1 .. MaxDocs
    BY <1>1 DEF Sound, Faultless, SameFaults, SameJob, InPage
  <1>4. v.dc.buf \subseteq 1 .. MaxDocs
    BY <1>1, <1>3 DEF SameJob, OwnBuffer
  <1>5. v.dc.nband \in 0 .. NumBands + 1
    BY <1>1 DEF Stepped
  <1>6. v.dc.bitmap \subseteq Bands
    BY <1>1 DEF Stepped, Sound, Bounds
  <1>7. Bounds(v.dc)
    BY <1>1, <1>3, <1>4, <1>5, <1>6 DEF Sound, Bounds, SameJob
  <1>8. v.dc.pages <= MaxPages /\ v.dc.pages = w.dc.pages /\ Sided(o, v)
    BY <1>1 DEF SameJob, InPage, Sided
  <1>9. ASSUME v.dc.doc = 1, r.rect
        PROVE  InPage(o, v)
    <2>1. /\ v.dc.nband = n + 1 /\ n <= NumBands /\ ~Stops(w.dc, n) /\ v.queue.state = "page"
          /\ v.queue.sides = w.queue.sides
          /\ v.dc.bitmap = IF n = 1 \/ Sends(w.dc, n) THEN {} ELSE w.dc.bitmap
      BY <1>9 DEF Stepped
    <2>2. v.dc.bitmap = {}
      BY <1>1, <2>1 DEF InPage, BandOK, Sends
    <2>3. BandOK(v.dc, v.queue.page)
      BY <1>1, <1>2, <2>1, <2>2 DEF BandOK
    <2>4. v.dc.nband \in 1 .. NumBands + 1
      BY <1>1, <2>1
    <2> QED
      BY <1>1, <1>3, <1>8, <1>9, <2>1, <2>3, <2>4 DEF InPage, SameJob
  <1>10. ASSUME v.dc.doc = 1, ~r.rect
         PROVE  InDoc(o, v)
    BY <1>1, <1>3, <1>8, <1>10 DEF InDoc, InPage, Stepped
  <1> QED
    BY <1>1, <1>2, <1>3, <1>7, <1>9, <1>10 DEF Sound

LEMMA LaterBandKeeps == Inv /\ LaterBand => Inv'
  <1> SUFFICES ASSUME Inv, LaterBand
               PROVE  Inv'
    OBVIOUS
  <1> DEFINE c == app.content
             w == World
             n == dc.nband
             o == opt
  <1>1. PICK start, full, wrote, end \in BOOLEAN : NextBand(c, start, full, wrote, end)
    BY DEF LaterBand
  <1> DEFINE r == Step(start, full, wrote, end)
             v == r.w
             rect == r.rect
  <1>2. /\ Sound(w) /\ InPage(o, w) /\ n = w.dc.nband /\ c \in Content /\ o = opt
        /\ w \in Worlds /\ w.dc.doc = dc.doc
    BY WorldIs DEF Inv, LaterBand, Phase, Apps, Sound
  <1>3. start \in BOOLEAN /\ full \in BOOLEAN /\ wrote \in BOOLEAN /\ end \in BOOLEAN
    OBVIOUS
  <1>4. /\ Sound(v) /\ v.dc.job \in 1 .. MaxDocs /\ rect \in BOOLEAN
        /\ v.queue.state # "none" /\ OwnBuffer(v.dc)
        /\ v.dc.doc = 1 /\ rect => InPage(o, v)
        /\ v.dc.doc = 1 /\ ~rect => InDoc(o, v)
    <2>1. dc.doc = 1
      BY <1>1 DEF NextBand
    <2>2. r = BandStep(w, n, start, full, wrote, end)
      BY DEF Step
    <2>3. /\ w.queue.state = "page" /\ OwnBuffer(w.dc) /\ n > 0 /\ n \in Places
          /\ w.dc.doc = 1
      BY <1>2, <2>1 DEF InPage, Places
    <2> HIDE DEF r, w, n, o
    <2>4. Stepped(w, n, r)
      BY <1>2, <1>3, <2>2, <2>3, BandStepIs
    <2>5. /\ Sound(v) /\ v.dc.job \in 1 .. MaxDocs
          /\ v.dc.doc = 1 /\ rect => InPage(o, v)
          /\ v.dc.doc = 1 /\ ~rect => InDoc(o, v)
      BY <1>2, <2>3, <2>4, SteppedSound
    <2> QED
      BY <2>4, <2>5 DEF Stepped, SameJob
  <1>5. Ended(v, rect, c, start, wrote, end)
    <2>1. r = Step(start, full, wrote, end) /\ r.rect \in BOOLEAN
      BY <1>4
    <2> HIDE DEF r, c
    <2> QED
      BY <1>1, <1>3, <2>1, NextBandIs
  <1>6. /\ v.dc.doc = 1 /\ rect => InPage(opt, v)
        /\ v.dc.doc = 1 /\ ~rect => InDoc(opt, v)
    BY <1>4
  <1> HIDE DEF v, rect, c
  <1> QED
    BY <1>2, <1>3, <1>4, <1>5, <1>6, BandEnds

\* After a failure there is no job: the escapes fail without touching the spooler.
LEMMA NothingToAbort ==
  ASSUME NEW w, w.dc.job = 0, NEW start, NEW wrote, NEW end
  PROVE  AbortJob(w, start, wrote, end) = w
  BY DEF AbortJob

\* Outside a document an abort forgets the number that was left over.
LEMMA StrayAbort ==
  ASSUME NEW w, Sound(w), NEW start \in BOOLEAN, NEW wrote \in BOOLEAN, NEW end \in BOOLEAN,
         LeftOver, NoDoc(w), NEW v, v = AbortJob(w, start, wrote, end)
  PROVE  Sound(v) /\ NoDoc(v)
  <1>1. CASE w.dc.job = 0
    BY <1>1, NothingToAbort
  <1>2. CASE w.dc.job # 0
    <2>1. w \in Worlds /\ w.dc.doc # 1 /\ OwnBuffer(w.dc)
      BY DEF Sound, NoDoc, OwnBuffer
    <2>2. Aborted(w, v)
      BY <1>2, <2>1, AbortJobIs
    <2>3. Placed(v.queue.page) /\ Faultless(v.queue)
      BY <2>2 DEF Sound, Placed, NoPage, Faultless, SameFaults, Aborted
    <2>4. v.dc.doc = 0 /\ v.dc.buf = {}
      <3>1. v = [EndJob(w) EXCEPT !.dc.doc = 0, !.dc.job = 0]
        BY <1>2, <2>1 DEF AbortJob
      <3> DEFINE e == EndJob(w)
      <3>2. e \in Worlds /\ e.dc = w.dc
        BY <2>1, EndJobIs
      <3> HIDE DEF e
      <3>3. v = [e EXCEPT !.dc.doc = 0, !.dc.job = 0]
        BY <3>1 DEF e
      <3> QED
        <4>1. v.dc = [e.dc EXCEPT !.doc = 0, !.job = 0] /\ e.dc \in Devices
          BY <3>2, <3>3 DEF Worlds
        <4> QED
          BY <3>2, <4>1 DEF NoDoc, Devices
    <2>5. Bounds(v.dc)
      BY <2>2, <2>4 DEF Sound, Bounds, Aborted
    <2> QED
      BY <2>2, <2>3, <2>4, <2>5 DEF Sound, NoDoc, Aborted
  <1> QED
    BY <1>1, <1>2

\* The end of every call that aborts: the job is gone, and nothing remains of a document.
LEMMA AbortedPhase ==
  ASSUME Inv, NEW start \in BOOLEAN, NEW wrote \in BOOLEAN, NEW end \in BOOLEAN,
         NEW v, v = AbortJob(World, start, wrote, end)
  PROVE  Sound(v) /\ (IF app.pc = "nodoc" THEN NoDoc(v) ELSE Failed(v))
  <1> DEFINE w == World
             o == opt
  <1>1. Sound(w) /\ Phase(o, w, app.pc) /\ app \in Apps /\ v = AbortJob(w, start, wrote, end)
    BY DEF Inv
  <1> HIDE DEF w, o
  <1>2. CASE app.pc = "nodoc"
    BY <1>1, <1>2, StrayAbort DEF Phase, LeftOver
  <1>3. CASE app.pc = "failed"
    BY <1>1, <1>3, NothingToAbort DEF Phase, Failed
  <1>4. CASE app.pc \in {"doc", "page"}
    <2>1. w.dc.job \in 1 .. MaxDocs /\ w.queue.state # "none" /\ OwnBuffer(w.dc)
      BY <1>1, <1>4 DEF Phase, InDoc, InPage, OwnBuffer
    <2> QED
      BY <1>1, <1>4, <2>1, AbortLeaves
  <1> QED
    BY <1>1, <1>2, <1>3, <1>4 DEF Apps

\* A NEXTBAND with no document or after an error, and ABORTDOC, abort the job.
LEMMA AbortsKeep ==
  ASSUME Inv, GivesUp, opt' = opt, NEW start \in BOOLEAN, NEW wrote \in BOOLEAN,
         NEW end \in BOOLEAN, Becomes(AbortJob(World, start, wrote, end))
  PROVE  Inv'
  <1> DEFINE v == AbortJob(World, start, wrote, end)
             o == opt
             none == {}
             pc == IF app.pc = "nodoc" THEN app.pc ELSE "failed"
             a == [app EXCEPT !.pc = pc, !.todo = none]
  <1>1. Sound(v) /\ (IF app.pc = "nodoc" THEN NoDoc(v) ELSE Failed(v))
    BY AbortedPhase
  <1>2. Becomes(v) /\ o \in Options /\ opt' = o /\ app' = a /\ app \in Apps
    BY DEF Inv, GivesUp
  <1> HIDE DEF v, o
  <1>3. pc \in {"nodoc", "failed"} /\ Phase(o, v, pc)
    BY <1>1 DEF Phase
  <1> HIDE DEF pc
  <1>4. a \in Apps /\ a.pc = pc
    BY <1>2, <1>3 DEF Apps
  <1> HIDE DEF a
  <1> QED
    BY <1>1, <1>2, <1>3, <1>4, StepsTo

LEMMA BandRefusedKeeps == Inv /\ BandRefused => Inv'
  BY AbortsKeep DEF BandRefused

-----------------------------------------------------------------------------
(* The calls between two NEXTBANDs.                                        *)

\* Drawing adds the band to its bitmap, or nothing in the text band and in a draft.
Drew(d, p, e) ==
  /\ e \in Devices /\ e.doc = d.doc /\ e.job = d.job /\ e.nband = d.nband
  /\ e.pages = d.pages /\ e.duplex = d.duplex /\ e.buf = d.buf
  /\ e.gdiText = d.gdiText /\ e.opaqText = d.opaqText
  /\ e.bitmap \subseteq Bands /\ BandOK(e, p) /\ "ANYGRX" \in e.mode
  /\ d.mode \subseteq e.mode /\ d.bitmap \subseteq e.bitmap
  /\ ("DRAFT" \in e.mode) = ("DRAFT" \in d.mode)
  /\ d.nband > 1 /\ "DRAFT" \notin d.mode => "GRX" \in e.mode /\ d.nband - 1 \in e.bitmap

LEMMA DrawnIs ==
  ASSUME NEW d \in Devices, d.nband \in 1 .. NumBands + 1, d.bitmap \subseteq Bands,
         NEW p, BandOK(d, p), NEW e, e = Drawn(d)
  PROVE  Drew(d, p, e)
  <1>0. d.nband \in Int /\ d.mode \in SUBSET Marks /\ d.bitmap \in SUBSET Int
    BY DEF Devices
  <1>1. CASE d.nband = TEXTBAND \/ "DRAFT" \in d.mode
    <2> DEFINE m == d.mode \cup {"ANYGRX"}
    <2>1. e = [d EXCEPT !.mode = m]
      BY <1>1 DEF Drawn
    <2>2. m \in SUBSET Marks
      BY <1>0 DEF Marks
    <2>3. /\ "ANYGRX" \in m /\ d.mode \subseteq m /\ ("GRX" \in m) = ("GRX" \in d.mode)
          /\ ("SKIP" \in m) = ("SKIP" \in d.mode) /\ ("DRAFT" \in m) = ("DRAFT" \in d.mode)
      OBVIOUS
    <2> HIDE DEF m
    <2>4. /\ e \in Devices /\ e.doc = d.doc /\ e.job = d.job /\ e.nband = d.nband
          /\ e.pages = d.pages /\ e.duplex = d.duplex /\ e.buf = d.buf
          /\ e.gdiText = d.gdiText /\ e.opaqText = d.opaqText /\ e.mode = m
          /\ e.bitmap = d.bitmap
      BY <2>1, <2>2 DEF Devices
    <2>5. BandOK(e, p)
      BY <2>3, <2>4 DEF BandOK
    <2> QED
      BY <1>0, <1>1, <2>3, <2>4, <2>5 DEF TEXTBAND, Drew
  <1>2. CASE ~(d.nband = TEXTBAND \/ "DRAFT" \in d.mode)
    <2> DEFINE m == d.mode \cup {"ANYGRX", "GRX"}
               b == d.bitmap \cup {d.nband - 1}
    <2>1. e = [d EXCEPT !.mode = m, !.bitmap = b]
      BY <1>2 DEF Drawn
    <2>2. m \in SUBSET Marks /\ b \in SUBSET Int
      BY <1>0 DEF Marks
    <2>3. d.nband > 1 /\ d.nband - 1 \in Bands
      BY <1>0, <1>2 DEF TEXTBAND, Bands
    <2>4. /\ "ANYGRX" \in m /\ "GRX" \in m /\ d.mode \subseteq m
          /\ ("SKIP" \in m) = ("SKIP" \in d.mode) /\ ("DRAFT" \in m) = ("DRAFT" \in d.mode)
      OBVIOUS
    <2>5. b \subseteq {d.nband - 1} /\ b \subseteq Bands /\ d.nband - 1 \in b /\ d.bitmap \subseteq b
      BY <2>3 DEF BandOK
    <2> HIDE DEF m, b
    <2>6. /\ e \in Devices /\ e.doc = d.doc /\ e.job = d.job /\ e.nband = d.nband
          /\ e.pages = d.pages /\ e.duplex = d.duplex /\ e.buf = d.buf
          /\ e.gdiText = d.gdiText /\ e.opaqText = d.opaqText /\ e.mode = m
          /\ e.bitmap = b
      BY <2>1, <2>2 DEF Devices
    <2>7. BandOK(e, p)
      BY <2>3, <2>4, <2>5, <2>6 DEF BandOK
    <2> QED
      BY <2>4, <2>5, <2>6, <2>7 DEF Drew
  <1> QED
    BY <1>1, <1>2

\* What the application has left to send, and whether it has asked what that is.
Strikes(todo, asked) ==
  /\ todo \in SUBSET Items /\ asked \in BOOLEAN
  /\ app' = [app EXCEPT !.todo = todo, !.asked = asked]

\* A step in a page that leaves the job alone.
LEMMA PageStep ==
  ASSUME Inv, app.pc = "page", NEW v, Sound(v), InPage(opt, v), Becomes(v), opt' = opt,
         NEW todo, NEW asked, Strikes(todo, asked)
  PROVE  Inv'
  <1> DEFINE a == [app EXCEPT !.todo = todo, !.asked = asked]
             o == opt
             pc == app.pc
  <1>1. app \in Apps /\ o \in Options /\ opt' = o /\ app' = a
    BY DEF Inv, Strikes
  <1>2. a \in Apps /\ a.pc = app.pc
    BY <1>1 DEF Apps, Strikes
  <1>3. Phase(o, v, pc) /\ pc = a.pc
    BY <1>2 DEF Phase
  <1> HIDE DEF a, o, pc
  <1> QED
    BY <1>1, <1>2, <1>3, StepsTo

\* A change of the marks, the flags and the bitmap of a page.
LEMMA DrawStep ==
  ASSUME NEW o, NEW w, Sound(w), InPage(o, w), NEW d \in Devices,
         d.doc = w.dc.doc, d.job = w.dc.job, d.nband = w.dc.nband, d.pages = w.dc.pages,
         d.duplex = w.dc.duplex, d.buf = w.dc.buf, d.bitmap \subseteq Bands,
         BandOK(d, w.queue.page), NEW v, v = [dc |-> d, queue |-> w.queue]
  PROVE  Sound(v) /\ InPage(o, v)
  <1>1. v \in Worlds /\ v.dc = d /\ v.queue = w.queue
    BY DEF Sound, Worlds
  <1>2. Sound(v)
    BY <1>1 DEF Sound, Bounds
  <1>3. OwnBuffer(d) /\ Sided(o, v)
    BY <1>1 DEF InPage, OwnBuffer, Sided
  <1> QED
    BY <1>1, <1>2, <1>3 DEF InPage

LEMMA WorldInPage ==
  ASSUME Inv, app.pc = "page"
  PROVE  /\ Sound(World) /\ InPage(opt, World) /\ dc \in Devices /\ queue \in Queues
         /\ app \in Apps /\ app.content \in Content
         /\ dc.nband \in 1 .. NumBands + 1 /\ dc.bitmap \subseteq Bands
         /\ BandOK(dc, queue.page)
  <1>1. Sound(World) /\ InPage(opt, World) /\ app \in Apps
    BY DEF Inv, Phase
  <1>2. World \in Worlds
    BY <1>1 DEF Sound
  <1> QED
    BY <1>1, <1>2, WorldIs DEF Worlds, InPage, Sound, Bounds, Apps

LEMMA BandInfoKeeps == Inv /\ BandInfo => Inv'
  <1> SUFFICES ASSUME Inv, BandInfo
               PROVE  Inv'
    OBVIOUS
  <1> DEFINE text == dc.nband - 1 = 0
             graphics == app.content.grx # {}
             m == IF text /\ graphics THEN dc.mode \cup {"ANYGRX"} ELSE dc.mode
             d == [dc EXCEPT !.mode = m]
             w == World
             o == opt
             v == [dc |-> d, queue |-> w.queue]
             todo == Todo(app.content, dc.nband - 1, ~text,
                          text \/ dc.gdiText \/ dc.opaqText)
             asked == TRUE
  <1>1. /\ Sound(w) /\ InPage(o, w) /\ dc \in Devices /\ app \in Apps /\ app.pc = "page"
        /\ dc.bitmap \subseteq Bands /\ BandOK(dc, queue.page)
        /\ w.dc = dc /\ w.queue = queue
    BY WorldInPage, WorldIs DEF BandInfo
  <1>2. /\ dc' = d /\ queue' = queue /\ opt' = opt
        /\ app' = [app EXCEPT !.asked = asked, !.todo = todo]
    BY DEF BandInfo
  <1>3. todo \in SUBSET Items /\ asked \in BOOLEAN
    BY TodoIs
  <1>4. m \in SUBSET Marks /\ ("GRX" \in m) = ("GRX" \in dc.mode)
        /\ ("SKIP" \in m) = ("SKIP" \in dc.mode)
    BY <1>1 DEF Devices, Marks
  <1> HIDE DEF m, todo, asked, w, o
  <1>5. /\ d \in Devices /\ d.doc = dc.doc /\ d.job = dc.job /\ d.nband = dc.nband
        /\ d.pages = dc.pages /\ d.duplex = dc.duplex /\ d.buf = dc.buf /\ d.mode = m
        /\ d.bitmap = dc.bitmap
    BY <1>1, <1>4 DEF Devices
  <1>6. BandOK(d, queue.page)
    BY <1>1, <1>4, <1>5 DEF BandOK
  <1>7. v.dc = d /\ v.queue = queue /\ Becomes(v)
    BY <1>1, <1>2 DEF Becomes
  <1> HIDE DEF d
  <1>8. v = [dc |-> d, queue |-> w.queue]
    OBVIOUS
  <1> HIDE DEF v
  <1>9. Sound(v) /\ InPage(o, v)
    BY <1>1, <1>5, <1>6, <1>8, DrawStep
  <1>10. Strikes(todo, asked)
    <2>1. app = [pc |-> app.pc, docs |-> app.docs, content |-> app.content, todo |-> app.todo,
                 asked |-> app.asked]
      BY <1>1 DEF Apps
    <2>2. app' = [app EXCEPT !.todo = todo, !.asked = asked]
      BY <1>1, <1>2, <2>1 DEF Apps
    <2> QED
      BY <1>3, <2>2 DEF Strikes
  <1>11. opt' = opt
    BY <1>2
  <1> QED
    BY <1>1, <1>3, <1>7, <1>9, <1>10, <1>11, PageStep DEF o

\* What the application sent is struck off what it has to send.
LEMMA SentIs ==
  ASSUME app \in Apps, NEW item, Sent(item), NEW todo, todo = app.todo \ {item},
         NEW asked, asked = app.asked
  PROVE  Strikes(todo, asked)
  <1>1. todo \in SUBSET Items /\ asked \in BOOLEAN
    BY DEF Apps
  <1>2. app' = [app EXCEPT !.todo = todo]
    BY DEF Sent
  <1>3. [app EXCEPT !.todo = todo] = [app EXCEPT !.todo = todo, !.asked = asked]
    <2>1. app = [pc |-> app.pc, docs |-> app.docs, content |-> app.content, todo |-> app.todo,
                 asked |-> app.asked]
      BY DEF Apps
    <2> QED
      BY <2>1 DEF Apps
  <1> QED
    BY <1>1, <1>2, <1>3 DEF Strikes

\* Drawing into a device that differs from the one before in its flags only.
LEMMA DrawKeeps ==
  ASSUME Inv, app.pc = "page", NEW item, Sent(item), UNCHANGED <<opt, queue>>,
         NEW g \in BOOLEAN, NEW d, d = [dc EXCEPT !.gdiText = g], dc' = Drawn(d)
  PROVE  Inv'
  <1> DEFINE w == World
             o == opt
             e == Drawn(d)
             v == [dc |-> e, queue |-> w.queue]
             p == queue.page
             todo == app.todo \ {item}
             asked == app.asked
  <1>1. /\ Sound(w) /\ InPage(o, w) /\ dc \in Devices /\ app \in Apps /\ p = queue.page
        /\ dc.nband \in 1 .. NumBands + 1 /\ dc.bitmap \subseteq Bands /\ BandOK(dc, p)
        /\ w.dc = dc /\ w.queue = queue
    BY WorldInPage, WorldIs
  <1>2. /\ d \in Devices /\ d.doc = dc.doc /\ d.job = dc.job /\ d.nband = dc.nband
        /\ d.pages = dc.pages /\ d.duplex = dc.duplex /\ d.buf = dc.buf
        /\ d.mode = dc.mode /\ d.bitmap = dc.bitmap
    BY <1>1 DEF Devices
  <1> HIDE DEF p
  <1>3. BandOK(d, p)
    BY <1>1, <1>2 DEF BandOK
  <1> HIDE DEF e
  <1>4. Drew(d, p, e)
    <2>1. e = Drawn(d) /\ d.nband \in 1 .. NumBands + 1 /\ d.bitmap \subseteq Bands
      BY <1>1, <1>2 DEF e
    <2> QED
      BY <1>2, <1>3, <2>1, DrawnIs
  <1>5. v.dc = e /\ v.queue = queue /\ Becomes(v)
    BY <1>1 DEF Becomes, e
  <1>6. /\ v = [dc |-> e, queue |-> w.queue] /\ BandOK(e, w.queue.page) /\ e \in Devices
        /\ e.doc = w.dc.doc /\ e.job = w.dc.job /\ e.nband = w.dc.nband
        /\ e.pages = w.dc.pages /\ e.duplex = w.dc.duplex /\ e.buf = w.dc.buf
        /\ e.bitmap \subseteq Bands
    BY <1>1, <1>2, <1>4 DEF Drew
  <1> HIDE DEF v, w
  <1>7. Sound(v) /\ InPage(o, v)
    BY <1>1, <1>6, DrawStep
  <1>8. todo = app.todo \ {item} /\ asked = app.asked
    OBVIOUS
  <1> HIDE DEF todo, asked
  <1>9. Strikes(todo, asked)
    BY <1>1, <1>8, SentIs
  <1> QED
    BY <1>5, <1>7, <1>9, PageStep

LEMMA OutputKeeps == Inv /\ Output => Inv'
  <1> SUFFICES ASSUME Inv, Output
               PROVE  Inv'
    OBVIOUS
  <1> DEFINE g == dc.gdiText
             d == [dc EXCEPT !.gdiText = g]
             item == "graphics"
  <1>1. app.pc = "page" /\ Sent(item) /\ UNCHANGED <<opt, queue>> /\ dc' = Drawn(dc)
    BY DEF Output, InBand
  <1>2. dc \in Devices
    BY <1>1, WorldInPage
  <1>3. d = dc /\ g \in BOOLEAN
    BY <1>2 DEF Devices
  <1>4. dc' = Drawn(d)
    BY <1>1, <1>3
  <1>5. d = [dc EXCEPT !.gdiText = g]
    OBVIOUS
  <1> HIDE DEF g, d, item
  <1> QED
    BY <1>1, <1>3, <1>4, <1>5, DrawKeeps

LEMMA PixelKeeps == Inv /\ Pixel => Inv'
  <1> SUFFICES ASSUME Inv, Pixel
               PROVE  Inv'
    OBVIOUS
  <1> DEFINE g == dc.gdiText \/ dc.nband = TEXTBAND
             d == [dc EXCEPT !.gdiText = g]
             item == "vector"
  <1>1. app.pc = "page" /\ Sent(item) /\ UNCHANGED <<opt, queue>> /\ dc' = Drawn(d)
    BY DEF Pixel, InBand
  <1>2. dc \in Devices
    BY <1>1, WorldInPage
  <1>3. g \in BOOLEAN
    BY <1>2 DEF Devices
  <1>4. d = [dc EXCEPT !.gdiText = g]
    OBVIOUS
  <1> HIDE DEF g, d, item
  <1> QED
    BY <1>1, <1>3, <1>4, DrawKeeps

\* Writing in a page.
LEMMA SpoolsSound ==
  ASSUME NEW o, NEW w, Sound(w), InPage(o, w), NEW v, Spools(w, v)
  PROVE  Sound(v) /\ InPage(o, v)
  <1>1. v \in Worlds /\ SameDevice(w.dc, v.dc) /\ SameSheets(w.queue, v.queue)
        /\ v.queue.page = w.queue.page /\ v.queue.state = w.queue.state
        /\ OwnBuffer(v.dc) /\ SameFaults(w.queue, v.queue)
    BY DEF Spools, InPage
  <1>2. v.dc.doc \in {-1, 1} /\ (v.dc.doc = 1 => v.queue.state = "page")
    BY <1>1 DEF Spools, InPage
  <1>3. v.dc.job \in 1 .. MaxDocs /\ v.dc.buf \subseteq 1 .. MaxDocs
    BY <1>1 DEF InPage, SameDevice, OwnBuffer
  <1>4. Bounds(v.dc)
    BY <1>1, <1>3 DEF Sound, Bounds, SameDevice
  <1>5. Sound(v)
    BY <1>1, <1>4 DEF Sound, Faultless, SameFaults
  <1>6. Sided(o, v) /\ v.queue.sides + 1 = v.dc.pages
    BY <1>1 DEF InPage, Sided, SameDevice, SameSheets
  <1>7. BandOK(v.dc, v.queue.page)
    BY <1>1 DEF InPage, BandOK, SameDevice
  <1> QED
    BY <1>1, <1>2, <1>3, <1>5, <1>6, <1>7 DEF InPage, SameDevice

LEMMA ExtTextOutKeeps == Inv /\ ExtTextOut => Inv'
  <1> SUFFICES ASSUME Inv, ExtTextOut
               PROVE  Inv'
    OBVIOUS
  <1> DEFINE item == "text"
             todo == app.todo \ {item}
             asked == app.asked
             white == IF app.content.opaque THEN {dc.nband - 1} ELSE {}
             opaque == dc.opaqText \/ app.content.opaque
             d == [dc EXCEPT !.opaqText = opaque]
             u == World
             o == opt
             w == [dc |-> d, queue |-> queue]
  <1>1. PICK full, wrote \in BOOLEAN :
          IF dc.nband = TEXTBAND THEN Becomes(Write(w, full, wrote))
          ELSE queue' = [queue EXCEPT !.page.whited = @ \cup white] /\ UNCHANGED dc
    BY DEF ExtTextOut
  <1>2. app.pc = "page" /\ Sent(item) /\ opt' = opt
    BY DEF ExtTextOut, InBand
  <1>3. /\ Sound(u) /\ InPage(o, u) /\ dc \in Devices /\ queue \in Queues /\ app \in Apps
        /\ app.content \in Content /\ u.dc = dc /\ u.queue = queue
        /\ dc.nband \in 1 .. NumBands + 1 /\ dc.bitmap \subseteq Bands
        /\ BandOK(dc, queue.page)
    BY <1>2, WorldInPage, WorldIs
  <1>4. todo = app.todo \ {item} /\ asked = app.asked
    OBVIOUS
  <1> HIDE DEF item, todo, asked
  <1>5. Strikes(todo, asked)
    BY <1>2, <1>3, <1>4, SentIs
  <1>6. opaque \in BOOLEAN /\ white \in SUBSET Int
    BY <1>3 DEF Devices, Content
  <1> HIDE DEF opaque, white, u, o
  <1>7. CASE dc.nband = TEXTBAND
    <2>1. /\ d \in Devices /\ d.doc = dc.doc /\ d.job = dc.job /\ d.nband = dc.nband
          /\ d.pages = dc.pages /\ d.duplex = dc.duplex /\ d.buf = dc.buf
          /\ d.mode = dc.mode /\ d.bitmap = dc.bitmap
      BY <1>3, <1>6 DEF Devices
    <2> HIDE DEF d
    <2>2. /\ BandOK(d, u.queue.page) /\ w = [dc |-> d, queue |-> u.queue]
          /\ d.bitmap \subseteq Bands
      BY <1>3, <2>1 DEF BandOK
    <2> HIDE DEF w
    <2>3. Sound(w) /\ InPage(o, w)
      BY <1>3, <2>1, <2>2, DrawStep
    <2> DEFINE v == Write(w, full, wrote)
    <2>4. w \in Worlds /\ full \in BOOLEAN /\ wrote \in BOOLEAN
      BY <2>3 DEF Sound
    <2>5. Becomes(v)
      BY <1>1, <1>7
    <2>6. Spools(w, v)
      BY <2>4, WriteSpools
    <2> HIDE DEF v
    <2>7. Sound(v) /\ InPage(o, v)
      BY <2>3, <2>6, SpoolsSound
    <2> QED
      BY <1>2, <1>5, <2>5, <2>7, PageStep DEF o
  <1>8. CASE dc.nband # TEXTBAND
    <2> DEFINE p == queue.page
               r == [p EXCEPT !.whited = p.whited \cup white]
               q == [queue EXCEPT !.page = r]
               v == [dc |-> dc, queue |-> q]
    <2>1. queue' = q /\ dc' = dc
      BY <1>1, <1>8
    <2>2. p \in Sheets
      BY <1>3 DEF Queues
    <2> HIDE DEF p
    <2>3. r \in Sheets /\ r.done = p.done /\ r.cursor = p.cursor
      BY <1>6, <2>2 DEF Sheets
    <2> HIDE DEF r
    <2>4. /\ q \in Queues /\ q.page = r /\ SameSheets(queue, q) /\ SameFaults(queue, q)
          /\ q.state = queue.state
      BY <1>3, <2>3 DEF Queues, SameSheets, SameFaults
    <2> HIDE DEF q
    <2>5. v \in Worlds /\ v.dc = dc /\ v.queue = q /\ Becomes(v)
      BY <1>3, <2>1, <2>4 DEF Worlds, Becomes
    <2> HIDE DEF v
    <2>6. Placed(r) /\ BandOK(dc, r)
      BY <1>3, <2>3 DEF Sound, Placed, BandOK, p
    <2>7. Sound(v)
      BY <1>3, <2>4, <2>5, <2>6 DEF Sound, Faultless, SameFaults
    <2>8. Sided(o, v)
      BY <1>3, <2>4, <2>5 DEF InPage, Sided, SameSheets
    <2>9. InPage(o, v)
      BY <1>3, <2>4, <2>5, <2>6, <2>8 DEF InPage, SameSheets
    <2> QED
      BY <1>2, <1>5, <2>5, <2>7, <2>9, PageStep DEF o
  <1> QED
    BY <1>7, <1>8

LEMMA DeviceDataKeeps == Inv /\ DeviceData => Inv'
  <1> SUFFICES ASSUME Inv, DeviceData
               PROVE  Inv'
    OBVIOUS
  <1> DEFINE w == World
             o == opt
             todo == app.todo
             asked == app.asked
             no == FALSE
             yes == TRUE
  <1>1. PICK before, after \in BOOLEAN :
          Becomes(Flush(Write(Flush(w, before), no, yes), after))
    BY DEF DeviceData
  <1>2. /\ app.pc = "page" /\ opt' = opt /\ app' = app /\ Sound(w) /\ InPage(o, w)
        /\ app \in Apps
    BY WorldInPage DEF DeviceData
  <1>3. Strikes(todo, asked)
    <2>1. app = [pc |-> app.pc, docs |-> app.docs, content |-> app.content, todo |-> app.todo,
                 asked |-> app.asked]
      BY <1>2 DEF Apps
    <2>2. app' = [app EXCEPT !.todo = todo, !.asked = asked]
      BY <1>2, <2>1 DEF Apps
    <2>3. todo \in SUBSET Items /\ asked \in BOOLEAN
      BY <1>2 DEF Apps
    <2> HIDE DEF todo, asked
    <2> QED
      BY <2>2, <2>3 DEF Strikes
  <1> DEFINE s == Flush(w, before)
             t == Write(s, no, yes)
             v == Flush(t, after)
  <1>4. /\ w \in Worlds /\ before \in BOOLEAN /\ after \in BOOLEAN
        /\ no \in BOOLEAN /\ yes \in BOOLEAN
    BY <1>2 DEF Sound
  <1> HIDE DEF w, o, no, yes, todo, asked
  <1>5. Spools(w, s)
    BY <1>4, FlushSpools
  <1>6. s \in Worlds
    BY <1>5 DEF Spools
  <1>7. Spools(s, t)
    <2> HIDE DEF s
    <2> QED
      BY <1>4, <1>6, WriteSpools
  <1>8. t \in Worlds
    BY <1>7 DEF Spools
  <1>9. Spools(t, v)
    <2> HIDE DEF t
    <2> QED
      BY <1>4, <1>8, FlushSpools
  <1>10. Becomes(v)
    BY <1>1
  <1> HIDE DEF s, t, v
  <1>11. Spools(w, v)
    BY <1>5, <1>7, <1>9, SpoolsTwice
  <1>12. Sound(v) /\ InPage(o, v)
    BY <1>2, <1>11, SpoolsSound
  <1> QED
    BY <1>2, <1>3, <1>10, <1>12, PageStep DEF o

-----------------------------------------------------------------------------
(* Documents.                                                              *)

\* The sides of a job that is printed on both sides of the paper are even.
EvenSides(q) == q.twoSided => q.sides % 2 = 0

\* What the end of a document changes in a job at most: it adds an empty page, it
\* writes no byte of its own into the buffer and it leaves the record of faults.
Ending(w, v) ==
  /\ v \in Worlds /\ SameFaults(w.queue, v.queue) /\ v.queue.page \in {w.queue.page, NoPage}
  /\ v.dc.job = w.dc.job /\ v.dc.nband = w.dc.nband /\ v.dc.duplex = w.dc.duplex
  /\ v.dc.bitmap = w.dc.bitmap /\ v.dc.buf = {} /\ v.dc.pages \in {w.dc.pages, w.dc.pages + 1}
  /\ v.queue.twoSided = w.queue.twoSided

\* The job is still open, and its sides are even unless a call has failed.
Ready(v) ==
  v.queue.state # "none" /\ v.dc.doc \in {-1, 1} /\ (v.dc.doc = 1 => EvenSides(v.queue))

\* A job with an odd number of sides, after its blank page b
Evened(w, b) ==
  IF OddSides(w.dc)
  THEN [dc |-> [b.dc EXCEPT !.pages = @ + 1],
        queue |-> [b.queue EXCEPT !.sides = IF b.dc.doc = 1 THEN @ + 1 ELSE @]]
  ELSE w

LEMMA BlankIs ==
  ASSUME NEW w, Sound(w), InDoc(opt, w),
         NEW start \in BOOLEAN, NEW wrote \in BOOLEAN, NEW end \in BOOLEAN,
         NEW b, b = CommandPage(w, start, wrote, end), NEW x, x = Evened(w, b)
  PROVE  Ending(w, x) /\ Ready(x)
  <1>1. /\ w \in Worlds /\ w.queue.state # "none" /\ OwnBuffer(w.dc) /\ w.dc.buf = {}
        /\ w.dc.pages \in Int /\ w.queue.sides = w.dc.pages /\ w.dc.doc = 1
        /\ start \in BOOLEAN /\ wrote \in BOOLEAN /\ end \in BOOLEAN
    BY DEF Sound, InDoc, OwnBuffer, Worlds, Devices
  <1>2. CASE ~OddSides(w.dc)
    <2>1. x = w
      BY <1>2 DEF Evened
    <2>2. w.queue.twoSided => (w.dc.pages % 2) # 1
      BY <1>1, <1>2 DEF OddSides, InDoc, Sided
    <2>3. EvenSides(w.queue)
      BY <1>1, <2>2 DEF EvenSides
    <2> QED
      BY <1>1, <2>1, <2>3 DEF Ending, Ready, SameFaults
  <1>3. CASE OddSides(w.dc)
    <2>0. Commanded(w, b)
      BY <1>1, CommandPageIs
    <2>1. /\ b \in Worlds /\ SameDevice(w.dc, b.dc) /\ SameSheets(w.queue, b.queue)
          /\ SameFaults(w.queue, b.queue) /\ b.dc.doc \in {-1, 1} /\ OwnBuffer(b.dc)
          /\ b.queue.state # "none" /\ b.queue.page \in {w.queue.page, NoPage}
          /\ b.dc.doc = 1 => b.queue.state = "open"
          /\ w.dc.buf = {} => b.dc.buf = {}
      BY <2>0 DEF Commanded
    <2> DEFINE n == b.dc.pages + 1
               m == IF b.dc.doc = 1 THEN b.queue.sides + 1 ELSE b.queue.sides
               d == [b.dc EXCEPT !.pages = n]
               q == [b.queue EXCEPT !.sides = m]
    <2>2. x = [dc |-> d, queue |-> q]
      BY <1>3 DEF Evened
    <2>3. b.dc \in Devices /\ b.queue \in Queues /\ n \in Int /\ m \in Int
      BY <2>1 DEF Worlds, Devices, Queues
    <2>4. n = w.dc.pages + 1 /\ (b.dc.doc = 1 => m = w.dc.pages + 1)
      BY <1>1, <2>1 DEF SameDevice, SameSheets
    <2> HIDE DEF n, m
    <2>5. /\ d \in Devices /\ d.pages = n /\ d.doc = b.dc.doc /\ d.job = b.dc.job
          /\ d.nband = b.dc.nband /\ d.duplex = b.dc.duplex /\ d.bitmap = b.dc.bitmap
          /\ d.buf = b.dc.buf
      BY <2>3 DEF Devices
    <2>6. /\ q \in Queues /\ q.sides = m /\ q.twoSided = b.queue.twoSided
          /\ SameFaults(b.queue, q) /\ q.state = b.queue.state /\ q.page = b.queue.page
      BY <2>3 DEF Queues, SameFaults
    <2> HIDE DEF d, q
    <2>7. x \in Worlds /\ x.dc = d /\ x.queue = q
      BY <2>2, <2>5, <2>6 DEF Worlds
    <2>8. (w.dc.pages % 2) = 1
      BY <1>3 DEF OddSides
    <2>9. b.dc.doc = 1 => EvenSides(q)
      BY <1>1, <2>4, <2>6, <2>8 DEF EvenSides
    <2>10. SameFaults(w.queue, q)
      BY <2>1, <2>6 DEF SameFaults
    <2> QED
      BY <1>1, <2>1, <2>4, <2>5, <2>6, <2>7, <2>9, <2>10 DEF Ending, Ready, SameDevice, SameSheets
  <1> QED
    BY <1>2, <1>3

LEMMA ResetIs ==
  ASSUME NEW w, NEW x, Ending(w, x), Ready(x),
         NEW start \in BOOLEAN, NEW wrote \in BOOLEAN, NEW end \in BOOLEAN,
         NEW y, y = (IF opt.resetJob /\ x.dc.doc = 1 THEN CommandPage(x, start, wrote, end)
                     ELSE x)
  PROVE  Ending(w, y) /\ Ready(y)
  <1>1. /\ x \in Worlds /\ x.queue.state # "none" /\ OwnBuffer(x.dc) /\ x.dc.buf = {}
        /\ start \in BOOLEAN /\ wrote \in BOOLEAN /\ end \in BOOLEAN
    BY DEF Ending, Ready, OwnBuffer
  <1>2. CASE ~(opt.resetJob /\ x.dc.doc = 1)
    BY <1>2
  <1>3. CASE opt.resetJob /\ x.dc.doc = 1
    <2>1. y = CommandPage(x, start, wrote, end)
      BY <1>3
    <2>0. Commanded(x, y)
      BY <1>1, <2>1, CommandPageIs
    <2>2. /\ y \in Worlds /\ SameDevice(x.dc, y.dc) /\ SameSheets(x.queue, y.queue)
          /\ SameFaults(x.queue, y.queue) /\ y.dc.doc \in {-1, 1} /\ OwnBuffer(y.dc)
          /\ y.queue.state # "none" /\ y.queue.page \in {x.queue.page, NoPage}
          /\ y.dc.doc = 1 => y.queue.state = "open"
          /\ x.dc.buf = {} => y.dc.buf = {}
      BY <2>0 DEF Commanded
    <2>3. Ready(y)
      BY <1>3, <2>2 DEF Ready, EvenSides, SameSheets
    <2>4. Ending(w, y)
      BY <1>1, <2>2 DEF Ending, SameDevice, SameFaults, SameSheets
    <2> QED
      BY <2>3, <2>4
  <1> QED
    BY <1>2, <1>3

\* The end of the job: it is closed only when its sides are even.
Closed(w, v) ==
  Ending(w, v) /\ v.dc.doc = 0 /\ (v.queue.state = "none" => EvenSides(v.queue))

LEMMA ClosedIs ==
  ASSUME NEW w, NEW y, Ending(w, y), Ready(y),
         NEW z, z = (IF y.dc.doc = 1 THEN EndJob(y) ELSE y),
         NEW v, v = [z EXCEPT !.dc.doc = 0]
  PROVE  Closed(w, v)
  <1>1. y \in Worlds /\ y.queue.state # "none"
    BY DEF Ending, Ready
  <1>2. /\ z \in Worlds /\ z.dc = y.dc /\ SameSheets(y.queue, z.queue)
        /\ SameFaults(y.queue, z.queue) /\ z.queue.page = y.queue.page
        /\ z.queue.state = "none" => y.dc.doc = 1
    <2>1. CASE y.dc.doc = 1
      <3>1. z = EndJob(y)
        BY <2>1
      <3> QED
        BY <1>1, <2>1, <3>1, EndJobIs
    <2>2. CASE y.dc.doc # 1
      BY <1>1, <2>2 DEF SameSheets, SameFaults
    <2> QED
      BY <2>1, <2>2
  <1>3. /\ v \in Worlds /\ v.queue = z.queue /\ v.dc.doc = 0 /\ v.dc.job = z.dc.job
        /\ v.dc.nband = z.dc.nband /\ v.dc.duplex = z.dc.duplex
        /\ v.dc.bitmap = z.dc.bitmap /\ v.dc.buf = z.dc.buf /\ v.dc.pages = z.dc.pages
    BY <1>2 DEF Worlds, Devices
  <1>4. Ending(w, v)
    BY <1>2, <1>3 DEF Ending, SameFaults, SameSheets
  <1>5. v.queue.state = "none" => EvenSides(v.queue)
    BY <1>2, <1>3 DEF Ready, EvenSides, SameSheets
  <1> QED
    BY <1>3, <1>4, <1>5 DEF Closed

LEMMA EndDocIs ==
  ASSUME EndDoc, Sound(World), InDoc(opt, World)
  PROVE  \E v : Closed(World, v) /\ Becomes(v)
  <1> DEFINE w == World
  <1>1. PICK start, wrote, end \in BOOLEAN :
          LET blank == IF OddSides(dc)
                       THEN LET b == CommandPage(w, start, wrote, end)
                            IN  [dc |-> [b.dc EXCEPT !.pages = @ + 1],
                                 queue |-> [b.queue EXCEPT !.sides = IF b.dc.doc = 1 THEN @ + 1
                                                                    ELSE @]]
                       ELSE w
              reset == IF opt.resetJob /\ blank.dc.doc = 1
                       THEN CommandPage(blank, start, wrote, end) ELSE blank
              closed == IF reset.dc.doc = 1 THEN EndJob(reset) ELSE reset
          IN  Becomes([closed EXCEPT !.dc.doc = 0])
    BY DEF EndDoc
  <1>2. start \in BOOLEAN /\ wrote \in BOOLEAN /\ end \in BOOLEAN /\ w.dc = dc
        /\ Sound(w) /\ InDoc(opt, w)
    BY WorldIs
  <1> HIDE DEF w
  <1> DEFINE b == CommandPage(w, start, wrote, end)
             x == Evened(w, b)
             y == IF opt.resetJob /\ x.dc.doc = 1 THEN CommandPage(x, start, wrote, end) ELSE x
             z == IF y.dc.doc = 1 THEN EndJob(y) ELSE y
             v == [z EXCEPT !.dc.doc = 0]
  <1>3. Becomes(v)
    BY <1>1, <1>2 DEF Evened
  <1>4. Ending(w, x) /\ Ready(x)
    <2>1. b = CommandPage(w, start, wrote, end) /\ x = Evened(w, b)
      OBVIOUS
    <2>2. start \in BOOLEAN /\ wrote \in BOOLEAN /\ end \in BOOLEAN
          /\ Sound(w) /\ InDoc(opt, w)
      BY <1>2
    <2> HIDE DEF b, x
    <2> QED
      BY <2>1, <2>2, BlankIs
  <1> HIDE DEF x
  <1>5. Ending(w, y) /\ Ready(y)
    <2>1. y = (IF opt.resetJob /\ x.dc.doc = 1 THEN CommandPage(x, start, wrote, end) ELSE x)
      OBVIOUS
    <2> HIDE DEF y
    <2> QED
      BY <1>2, <1>4, <2>1, ResetIs
  <1> HIDE DEF y
  <1>6. Closed(w, v)
    <2>1. z = (IF y.dc.doc = 1 THEN EndJob(y) ELSE y) /\ v = [z EXCEPT !.dc.doc = 0]
      OBVIOUS
    <2> HIDE DEF z, v
    <2> QED
      BY <1>5, <2>1, ClosedIs
  <1> QED
    BY <1>3, <1>6 DEF w

\* ENDDOC outside a document only clears the error.
LEMMA EndDocFailed ==
  ASSUME EndDoc, Sound(World), dc.doc # 1
  PROVE  \E v : /\ Becomes(v) /\ Sound(v)
                /\ Failed(World) => Failed(v)
                /\ NoDoc(World) => NoDoc(v)
  <1> DEFINE w == World
             v == [w EXCEPT !.dc.doc = 0]
  <1>1. w.dc = dc /\ dc.doc # 1 /\ Sound(w)
    BY WorldIs
  <1>2. ~OddSides(dc)
    BY <1>1 DEF OddSides
  <1>3. Becomes(v)
    BY <1>1, <1>2 DEF EndDoc
  <1> HIDE DEF w
  <1>4. /\ v \in Worlds /\ v.queue = w.queue /\ v.dc.doc = 0 /\ v.dc.job = w.dc.job
        /\ v.dc.nband = w.dc.nband /\ v.dc.pages = w.dc.pages /\ v.dc.duplex = w.dc.duplex
        /\ v.dc.buf = w.dc.buf /\ v.dc.bitmap = w.dc.bitmap
    BY <1>1 DEF Sound, Worlds, Devices
  <1> HIDE DEF v
  <1>5. Sound(v) /\ (Failed(w) => Failed(v)) /\ (NoDoc(w) => NoDoc(v))
    BY <1>1, <1>4 DEF Sound, Bounds, Failed, NoDoc
  <1> QED
    BY <1>3, <1>5 DEF w

LEMMA EndDocKeeps == Inv /\ EndDoc => Inv'
  <1> SUFFICES ASSUME Inv, EndDoc
               PROVE  Inv'
    OBVIOUS
  <1> DEFINE w == World
             o == opt
             pc == IF app.pc = "failed" THEN app.pc ELSE "nodoc"
             a == [app EXCEPT !.pc = pc]
  <1>1. /\ Sound(w) /\ app \in Apps /\ o \in Options /\ opt' = o /\ app' = a
        /\ app.pc \in {"nodoc", "doc", "failed"}
    BY DEF Inv, EndDoc, Apps
  <1>2. a \in Apps /\ pc = a.pc
    BY <1>1 DEF Apps
  <1>3. CASE app.pc = "doc"
    <2>1. InDoc(o, w)
      BY <1>3 DEF Inv, Phase
    <2>2. PICK v : Closed(w, v) /\ Becomes(v)
      BY <1>1, <2>1, EndDocIs
    <2> HIDE DEF w, o
    <2>3. Ending(w, v) /\ v.dc.doc = 0
      BY <2>2 DEF Closed
    <2>4. NoDoc(v)
      BY <2>1, <2>3 DEF NoDoc, Ending, InDoc
    <2>5. Placed(v.queue.page) /\ Faultless(v.queue)
      BY <1>1, <2>3 DEF Sound, Ending, Placed, NoPage, Faultless, SameFaults
    <2>6. w.dc.pages + 1 \in 0 .. MaxPages + 1
      BY <1>1, <2>1 DEF InDoc, Sound, Bounds
    <2>7. Bounds(v.dc)
      BY <1>1, <2>3, <2>6 DEF Sound, Ending, Bounds
    <2>8. Sound(v)
      BY <2>3, <2>5, <2>7 DEF Sound, Ending
    <2>9. Phase(o, v, pc)
      BY <1>3, <2>4 DEF Phase
    <2> HIDE DEF a, pc
    <2> QED
      BY <1>1, <1>2, <2>2, <2>8, <2>9, StepsTo
  <1>4. CASE app.pc \in {"nodoc", "failed"}
    <2>1. /\ app.pc = "failed" => Failed(w)
          /\ app.pc = "nodoc" => NoDoc(w)
          /\ w.dc = dc
      BY WorldIs DEF Inv, Phase
    <2> HIDE DEF w
    <2>2. Sound(World) /\ dc.doc # 1
      BY <1>1, <1>4, <2>1 DEF Failed, NoDoc, w
    <2>3. PICK v : /\ Becomes(v) /\ Sound(v)
                   /\ Failed(w) => Failed(v)
                   /\ NoDoc(w) => NoDoc(v)
      BY <2>2, EndDocFailed DEF w
    <2>4. Phase(o, v, pc)
      BY <1>4, <2>1, <2>3 DEF Phase
    <2> HIDE DEF a, pc, o
    <2> QED
      BY <1>1, <1>2, <2>3, <2>4, StepsTo
  <1> QED
    BY <1>1, <1>3, <1>4

\* STARTDOC opens a job that is empty, or leaves the device as it was but for its number.
LEMMA StartDocKeeps == ~KeepsDC /\ Inv /\ StartDoc => Inv'
  <1> SUFFICES ASSUME ~KeepsDC, Inv, StartDoc
               PROVE  Inv'
    OBVIOUS
  <1> DEFINE w == World
             o == opt
  <1>1. PICK opens \in BOOLEAN :
         /\ dc' = [dc EXCEPT !.pages = 0, !.job = IF opens THEN app.docs + 1 ELSE -1,
                             !.doc = IF opens THEN 1 ELSE @]
         /\ queue' = [EmptyQueue EXCEPT !.state = IF opens THEN "open" ELSE "none",
                                 !.misused = queue.misused, !.foreign = queue.foreign]
         /\ app' = [app EXCEPT !.pc = IF opens THEN "doc" ELSE @, !.docs = @ + 1,
                             !.content = NoContent]
    BY DEF StartDoc
  <1>2. /\ Sound(w) /\ app \in Apps /\ o \in Options /\ opt' = o /\ app.pc = "nodoc"
        /\ app.docs < MaxDocs /\ w = [dc |-> dc, queue |-> queue] /\ NoDoc(w)
    BY DEF Inv, StartDoc, MayPrint, Phase, World
  <1>3. dc \in Devices /\ queue \in Queues /\ w.dc = dc /\ w.queue = queue
    BY <1>2 DEF Sound, Worlds
  <1>4. app.docs + 1 \in 1 .. MaxDocs /\ NoContent \in Content /\ MaxPages \in Nat
    BY <1>2 DEF Apps, NoContent, Content, HpJobAssumption
  <1> DEFINE job == IF opens THEN app.docs + 1 ELSE -1
             doc == IF opens THEN 1 ELSE dc.doc
             pc == IF opens THEN "doc" ELSE app.pc
             docs == app.docs + 1
             d == [dc EXCEPT !.pages = 0, !.job = job, !.doc = doc]
             state == IF opens THEN "open" ELSE "none"
             q == [EmptyQueue EXCEPT !.state = state,
                                 !.misused = queue.misused, !.foreign = queue.foreign]
             a == [app EXCEPT !.pc = pc, !.docs = docs, !.content = NoContent]
             v == [dc |-> d, queue |-> q]
  <1>5. a \in Apps /\ pc = a.pc
    <2>1. /\ pc \in {"nodoc", "doc", "page", "failed"} /\ docs \in 0 .. MaxDocs
      BY <1>2, <1>4
    <2> HIDE DEF pc, docs, d, q
    <2> QED
      BY <1>2, <1>4, <2>1 DEF Apps
  <1>6. /\ app' = a /\ dc' = d /\ queue' = q
    BY <1>1
  <1>7. /\ job \in -1 .. MaxDocs /\ doc \in {-1, 0, 1} /\ (opens => job \in 1 .. MaxDocs)
        /\ job \in Int /\ (~opens => doc = 0) /\ (opens => doc = 1)
    BY <1>2, <1>3, <1>4 DEF NoDoc
  <1>8. /\ pc = IF opens THEN "doc" ELSE "nodoc"
    BY <1>2
  <1> HIDE DEF job, doc
  <1>9. /\ d \in Devices /\ d.pages = 0 /\ d.job = job /\ d.doc = doc /\ d.nband = dc.nband
        /\ d.buf = dc.buf /\ d.bitmap = dc.bitmap /\ d.duplex = dc.duplex
    <2> HIDE DEF q, a, pc
    <2>1. 0 \in Int /\ job \in Int /\ doc \in {-1, 0, 1}
      BY <1>7
    <2> QED
      BY <1>3, <2>1 DEF Devices
  <1>10. /\ q \in Queues /\ SameFaults(queue, q) /\ (opens => q.state = "open")
         /\ q.page = NoPage /\ q.sides = 0 /\ ~q.twoSided
    <2> DEFINE bad == queue.misused
               mixed == queue.foreign
               r == [state |-> state, failed |-> FALSE, misused |-> bad, foreign |-> mixed,
                     twoSided |-> FALSE, sides |-> 0, page |-> NoPage]
    <2>2. bad \in BOOLEAN /\ mixed \in BOOLEAN /\ state \in States
      BY <1>3 DEF Queues, States
    <2>3. opens => state = "open"
      OBVIOUS
    <2>5. q = [EmptyQueue EXCEPT !.state = state, !.misused = bad, !.foreign = mixed]
      OBVIOUS
    <2> HIDE DEF bad, mixed, state, d, a, q
    <2>1. q = r
      BY <2>5 DEF EmptyQueue
    <2> HIDE DEF r
    <2>4. r \in Queues /\ r.state = state /\ r.page = NoPage /\ r.sides = 0 /\ ~r.twoSided
          /\ r.misused = bad /\ r.foreign = mixed
      BY <2>2, NoPageIs DEF Queues, r
    <2> QED
      BY <2>1, <2>3, <2>4 DEF SameFaults, bad, mixed
  <1> HIDE DEF d, q, a, pc, w, o, state
  <1>11. v \in Worlds /\ v.dc = d /\ v.queue = q /\ Becomes(v)
    BY <1>6, <1>9, <1>10 DEF Worlds, Becomes
  <1> HIDE DEF v
  <1>12. Bounds(v.dc)
    <2>1. 0 \in 0 .. MaxPages + 1
      BY <1>4
    <2> QED
      BY <1>2, <1>3, <1>7, <1>9, <1>11, <2>1 DEF Sound, Bounds
  <1>13. Placed(v.queue.page) /\ Faultless(v.queue)
    BY <1>2, <1>3, <1>10, <1>11 DEF Sound, Placed, NoPage, Faultless, SameFaults
  <1>14. Sound(v)
    BY <1>11, <1>12, <1>13 DEF Sound
  <1>15. Phase(o, v, pc)
    BY <1>2, <1>3, <1>4, <1>7, <1>8, <1>9, <1>10, <1>11 DEF Phase, NoDoc, InDoc, Sided
  <1> QED
    BY <1>2, <1>5, <1>6, <1>11, <1>14, <1>15, StepsTo

\* STARTDOC with no memory in the printer only clears the number of pages.
LEMMA NoMemoryKeeps == ~KeepsDC /\ Inv /\ StartDocNoMemory => Inv'
  <1> SUFFICES ASSUME ~KeepsDC, Inv, StartDocNoMemory
               PROVE  Inv'
    OBVIOUS
  <1> DEFINE w == World
             o == opt
             a == app
             pc == app.pc
             d == [dc EXCEPT !.pages = 0]
             v == [dc |-> d, queue |-> queue]
  <1>1. /\ Sound(w) /\ a \in Apps /\ o \in Options /\ opt' = o /\ app' = a /\ dc' = d
        /\ queue' = queue /\ w.queue = queue /\ w.dc = dc /\ pc = a.pc /\ pc = "nodoc"
        /\ NoDoc(w)
    BY WorldIs DEF Inv, StartDocNoMemory, MayPrint, Phase
  <1>2. dc \in Devices /\ 0 \in 0 .. MaxPages + 1
    BY <1>1 DEF Sound, Worlds, HpJobAssumption
  <1>3. /\ d \in Devices /\ d.doc = dc.doc /\ d.job = dc.job /\ d.nband = dc.nband
        /\ d.pages = 0 /\ d.buf = dc.buf /\ d.bitmap = dc.bitmap /\ d.duplex = dc.duplex
    BY <1>2 DEF Devices
  <1> HIDE DEF d, w, a, pc, o
  <1>4. v \in Worlds /\ v.dc = d /\ v.queue = queue /\ Becomes(v)
    BY <1>1, <1>3 DEF Sound, Worlds, Becomes
  <1> HIDE DEF v
  <1>5. Sound(v)
    BY <1>1, <1>2, <1>3, <1>4 DEF Sound, Bounds
  <1>6. Phase(o, v, pc)
    BY <1>1, <1>3, <1>4 DEF Phase, NoDoc
  <1> QED
    BY <1>1, <1>4, <1>5, <1>6, StepsTo

LEMMA AbortDocKeeps == Inv /\ AbortDoc => Inv'
  BY AbortsKeep DEF AbortDoc

\* A new device has no job and nothing in its buffer.
LEMMA NewDCIs ==
  ASSUME NEW draft \in BOOLEAN, NEW duplex \in {1, 2, 3}, NEW d, d = NewDC(draft, duplex)
  PROVE  /\ d \in Devices /\ Bounds(d) /\ d.doc = 0 /\ d.buf = {} /\ d.nband = 0
         /\ d.mode \in SUBSET {"DRAFT"}
  <1>1. 0 \in -1 .. MaxDocs /\ 0 \in 0 .. NumBands + 1 /\ 0 \in 0 .. MaxPages + 1
        /\ {} \subseteq 1 .. MaxDocs /\ {} \subseteq Bands /\ duplex \in 0 .. 3 /\ duplex \in Int
    BY DEF HpJobAssumption
  <1> DEFINE mode == IF draft THEN {"DRAFT"} ELSE {}
  <1>2. mode \in SUBSET {"DRAFT"}
    OBVIOUS
  <1>3. d = [doc |-> 0, job |-> 0, nband |-> 0, mode |-> mode,
             gdiText |-> FALSE, opaqText |-> FALSE, pages |-> 0, duplex |-> duplex,
             buf |-> {}, bitmap |-> {}]
    BY DEF NewDC
  <1> HIDE DEF mode
  <1>4. d \in Devices
    BY <1>1, <1>2, <1>3 DEF Devices, Marks
  <1>5. Bounds(d)
    BY <1>1, <1>3 DEF Bounds
  <1> QED
    BY <1>2, <1>3, <1>4, <1>5

LEMMA NewDeviceKeeps == Inv /\ NewDevice => Inv'
  <1> SUFFICES ASSUME Inv, NewDevice
               PROVE  Inv'
    OBVIOUS
  <1> DEFINE w == World
             o == opt
             none == {}
             pc == "nodoc"
             a == [app EXCEPT !.pc = pc, !.todo = none]
  <1>1. PICK draft \in BOOLEAN, duplex \in {1, 2, 3} : dc' = NewDC(draft, duplex)
    BY DEF NewDevice
  <1> DEFINE d == NewDC(draft, duplex)
             v == [dc |-> d, queue |-> queue]
  <1>2. /\ Sound(w) /\ app \in Apps /\ o \in Options /\ opt' = o /\ app' = a
        /\ queue' = queue /\ w.queue = queue /\ dc' = d
    BY <1>1, WorldIs DEF Inv, NewDevice
  <1>3. a \in Apps /\ pc = a.pc
    BY <1>2 DEF Apps
  <1>4. d \in Devices /\ Bounds(d) /\ d.doc = 0 /\ d.buf = {} /\ d.nband = 0
    <2>1. d = NewDC(draft, duplex)
      OBVIOUS
    <2> HIDE DEF d
    <2> QED
      BY <2>1, NewDCIs
  <1> HIDE DEF d, w
  <1>5. v \in Worlds /\ v.dc = d /\ v.queue = queue /\ Becomes(v)
    BY <1>2, <1>4 DEF Sound, Worlds, Becomes
  <1> HIDE DEF v
  <1>6. Sound(v)
    BY <1>2, <1>4, <1>5 DEF Sound
  <1>7. Phase(o, v, pc)
    BY <1>4, <1>5 DEF Phase, NoDoc
  <1> HIDE DEF a, pc, o
  <1> QED
    BY <1>2, <1>3, <1>5, <1>6, <1>7, StepsTo

\* DRAFTMODE and ENABLEDUPLEX: a change of the marks or the sides outside a page.
LEMMA ModeStep ==
  ASSUME Inv, app.pc \in {"nodoc", "doc"}, opt' = opt, app' = app, queue' = queue,
         NEW mode \in SUBSET Marks, NEW duplex \in 0 .. 3,
         dc' = [dc EXCEPT !.mode = mode, !.duplex = duplex],
         app.pc = "doc" => duplex = dc.duplex
  PROVE  Inv'
  <1> DEFINE w == World
             o == opt
             a == app
             pc == app.pc
             d == [dc EXCEPT !.mode = mode, !.duplex = duplex]
             v == [dc |-> d, queue |-> queue]
  <1>1. /\ Sound(w) /\ a \in Apps /\ o \in Options /\ opt' = o /\ app' = a /\ dc' = d
        /\ queue' = queue /\ w.queue = queue /\ w.dc = dc /\ Phase(o, w, pc) /\ pc = a.pc
        /\ pc \in {"nodoc", "doc"} /\ (pc = "doc" => duplex = dc.duplex)
    BY WorldIs DEF Inv
  <1>2. duplex \in Int /\ dc \in Devices
    BY <1>1 DEF Sound, Worlds
  <1>3. /\ d \in Devices /\ d.doc = dc.doc /\ d.job = dc.job /\ d.nband = dc.nband
        /\ d.pages = dc.pages /\ d.buf = dc.buf /\ d.bitmap = dc.bitmap /\ d.duplex = duplex
    BY <1>2 DEF Devices
  <1> HIDE DEF d, w, a, pc, o
  <1>4. v \in Worlds /\ v.dc = d /\ v.queue = queue /\ Becomes(v)
    BY <1>1, <1>3 DEF Sound, Worlds, Becomes
  <1> HIDE DEF v
  <1>5. Sound(v)
    BY <1>1, <1>3, <1>4 DEF Sound, Bounds
  <1>6. Phase(o, v, pc)
    BY <1>1, <1>3, <1>4 DEF Phase, NoDoc, InDoc, Sided
  <1> QED
    BY <1>1, <1>4, <1>5, <1>6, StepsTo

LEMMA DraftModeKeeps == Inv /\ DraftMode => Inv'
  <1> SUFFICES ASSUME Inv, DraftMode
               PROVE  Inv'
    OBVIOUS
  <1>1. PICK on \in BOOLEAN :
          dc' = [dc EXCEPT !.mode = IF on THEN @ \cup {"DRAFT"} ELSE @ \ {"DRAFT"}]
    BY DEF DraftMode
  <1> DEFINE mode == IF on THEN dc.mode \cup {"DRAFT"} ELSE dc.mode \ {"DRAFT"}
             duplex == dc.duplex
  <1>2. dc \in Devices /\ duplex \in 0 .. 3
    BY WorldIs DEF Inv, Sound, Bounds, Worlds
  <1>3. mode \in SUBSET Marks
    BY <1>2 DEF Devices, Marks
  <1>4. dc' = [dc EXCEPT !.mode = mode, !.duplex = duplex]
    BY <1>1, <1>2 DEF Devices
  <1>5. /\ app.pc \in {"nodoc", "doc"} /\ opt' = opt /\ app' = app /\ queue' = queue
        /\ (app.pc = "doc" => duplex = dc.duplex)
    BY DEF DraftMode
  <1> HIDE DEF mode, duplex
  <1> QED
    BY <1>2, <1>3, <1>4, <1>5, ModeStep

LEMMA EnableDuplexKeeps == Inv /\ EnableDuplex => Inv'
  <1> SUFFICES ASSUME Inv, EnableDuplex
               PROVE  Inv'
    OBVIOUS
  <1>1. PICK value \in 0 .. 2 : dc' = [dc EXCEPT !.duplex = IF value = 1 THEN 2 ELSE value]
    BY DEF EnableDuplex
  <1> DEFINE mode == dc.mode
             duplex == IF value = 1 THEN 2 ELSE value
  <1>2. dc \in Devices /\ duplex \in 0 .. 3
    BY WorldIs DEF Inv, Sound, Worlds
  <1>3. mode \in SUBSET Marks
    BY <1>2 DEF Devices
  <1>4. dc' = [dc EXCEPT !.mode = mode, !.duplex = duplex]
    BY <1>1, <1>2 DEF Devices
  <1>5. /\ app.pc \in {"nodoc", "doc"} /\ opt' = opt /\ app' = app /\ queue' = queue
        /\ (app.pc = "doc" => duplex = dc.duplex)
    BY DEF EnableDuplex
  <1> HIDE DEF mode, duplex
  <1> QED
    BY <1>2, <1>3, <1>4, <1>5, ModeStep

-----------------------------------------------------------------------------
(* The theorems.                                                           *)

LEMMA InitInv == Init => Inv
  <1> SUFFICES ASSUME Init
               PROVE  Inv
    OBVIOUS
  <1>1. PICK draft \in BOOLEAN, duplex \in {1, 2, 3} : dc = NewDC(draft, duplex)
    BY DEF Init
  <1>2. dc \in Devices /\ Bounds(dc) /\ dc.doc = 0 /\ dc.buf = {} /\ dc.nband = 0
    BY <1>1, NewDCIs
  <1>3. /\ queue \in Queues /\ Faultless(queue) /\ Placed(queue.page)
    BY NoPageIs DEF Init, EmptyQueue, Queues, States, Faultless, Placed, NoPage
  <1>4. World \in Worlds
    BY <1>2, <1>3 DEF World, Worlds
  <1>5. Sound(World) /\ NoDoc(World)
    BY <1>2, <1>3, <1>4, WorldIs DEF Sound, NoDoc
  <1>6. app \in Apps /\ app.pc = "nodoc"
    BY DEF Init, Apps, NoContent, Content, HpJobAssumption
  <1> QED
    BY <1>5, <1>6 DEF Init, Inv, Phase

LEMMA NextInv == ~KeepsDC /\ Inv /\ [Next]_vars => Inv'
  <1>1. Inv /\ UNCHANGED vars => Inv'
    BY DEF vars, Inv, World
  <1> QED
    BY <1>1, FirstBandKeeps, LaterBandKeeps, BandRefusedKeeps, BandInfoKeeps, OutputKeeps,
       PixelKeeps, ExtTextOutKeeps, DeviceDataKeeps, StartDocKeeps, NoMemoryKeeps, EndDocKeeps,
       AbortDocKeeps, NewDeviceKeeps, DraftModeKeeps, EnableDuplexKeeps
       DEF Next

LEMMA InvGives == Inv => TypeOK /\ BandsInPlace /\ OwnBytes /\ SpoolCallsLegal
  <1> SUFFICES ASSUME Inv
               PROVE  TypeOK /\ BandsInPlace /\ OwnBytes /\ SpoolCallsLegal
    OBVIOUS
  <1>1. dc \in Devices /\ queue \in Queues /\ Bounds(dc) /\ app \in Apps /\ opt \in Options
    BY WorldIs DEF Inv, Sound, Worlds
  <1>2. dc \in [doc: {-1, 0, 1}, job: -1 .. MaxDocs, nband: 0 .. NumBands + 2,
                mode: SUBSET {"DRAFT", "ANYGRX", "GRX", "SKIP"}, gdiText: BOOLEAN,
                opaqText: BOOLEAN, pages: 0 .. MaxPages + 1, duplex: 0 .. 3,
                buf: SUBSET (1 .. MaxDocs), bitmap: SUBSET Bands]
    <2>1. dc.nband \in 0 .. NumBands + 2
      BY <1>1 DEF Bounds, HpJobAssumption
    <2> QED
      BY <1>1, <2>1 DEF Devices, Bounds, Marks
  <1>3. TypeOK
    BY <1>1, <1>2 DEF TypeOK, Queues, States, Apps
  <1>4. BandsInPlace /\ OwnBytes /\ SpoolCallsLegal
    BY WorldIs DEF Inv, Sound, Placed, Faultless, BandsInPlace, OwnBytes, SpoolCallsLegal
  <1> QED
    BY <1>3, <1>4

\* Every step that ends a document normally leaves an even number of sides.
LEMMA StepEven ==
  ASSUME ~KeepsDC, Inv, Next, app.pc = "doc", app'.pc = "nodoc", queue'.state = "none",
         queue.twoSided
  PROVE  (queue'.sides % 2) = 0
  <1>1. app \in Apps
    BY DEF Inv
  <1>2. ASSUME NEW c, NEW start, NEW full, NEW wrote, NEW end,
               NextBand(c, start, full, wrote, end)
        PROVE  FALSE
    <2>1. app'.pc \in {"failed", "page", "doc"}
      <3> DEFINE r == Step(start, full, wrote, end)
                 after == IF r.w.dc.doc # 1 THEN AbortJob(r.w, start, wrote, end) ELSE r.w
                 pc == IF r.w.dc.doc # 1 THEN "failed" ELSE IF r.rect THEN "page" ELSE "doc"
                 all == Todo(c, after.dc.nband - 1, TRUE, TRUE)
                 todo == IF r.w.dc.doc # 1 \/ ~r.rect \/ c.info THEN {} ELSE all
      <3>1. app' = [app EXCEPT !.pc = pc, !.content = c, !.todo = todo, !.asked = FALSE]
        BY <1>2 DEF NextBand, Step
      <3>2. pc \in {"failed", "page", "doc"}
        OBVIOUS
      <3> HIDE DEF pc, todo
      <3> QED
        BY <1>1, <3>1, <3>2 DEF Apps
    <2> QED
      BY <2>1
  <1>3. CASE EndDoc
    <2>1. Sound(World) /\ InDoc(opt, World)
      BY DEF Inv, Phase
    <2>2. PICK v : Closed(World, v) /\ Becomes(v)
      BY <1>3, <2>1, EndDocIs
    <2>3. v.queue = queue'
      BY <2>2 DEF Becomes
    <2> QED
      BY <2>2, <2>3, WorldIs DEF Closed, Ending, EvenSides
  <1>4. CASE AbortDoc \/ BandRefused
    BY <1>1, <1>4 DEF AbortDoc, BandRefused, GivesUp, Apps
  <1>5. CASE FirstBand \/ LaterBand
    BY <1>2, <1>5 DEF FirstBand, LaterBand
  <1>6. CASE DraftMode
    BY <1>6 DEF DraftMode
  <1>7. ~BandInfo /\ ~Output /\ ~Pixel /\ ~ExtTextOut /\ ~DeviceData
    BY DEF BandInfo, Output, Pixel, ExtTextOut, DeviceData, InBand
  <1>8. ~StartDoc /\ ~StartDocNoMemory /\ ~NewDevice /\ ~EnableDuplex
    BY DEF StartDoc, StartDocNoMemory, MayPrint, NewDevice, EnableDuplex
  <1> QED
    BY <1>3, <1>4, <1>5, <1>6, <1>7, <1>8 DEF Next

\* In every reachable state of an application that prints on a new device after an
\* abort, the invariant holds: the hypothesis is needed, as AbortJob leaves the number
\* of the band and the bitmap of the page that it ends.
LEMMA JobInv == ASSUME ~KeepsDC PROVE Spec => []Inv
  BY InitInv, NextInv, PTL DEF Spec

\* The device, the queue and the application keep their types, and the counters of
\* bands and pages their bounds (NEXTBAND, STARTDOC, ENABLEDUPLEX).
THEOREM JobTypes == ASSUME ~KeepsDC PROVE Spec => []TypeOK
  <1>1. Spec => []Inv
    BY JobInv
  <1> QED
    BY <1>1, InvGives, PTL

\* What a band draws is printed at the place of the band, whichever bands before it
\* were skipped (NEXTBAND, SKIPFLAG).
THEOREM JobBandsInPlace == ASSUME ~KeepsDC PROVE Spec => []BandsInPlace
  <1>1. Spec => []Inv
    BY JobInv
  <1> QED
    BY <1>1, InvGives, PTL

\* No byte that was buffered for a document is sent in the job of another, whichever
\* calls of the spooler fail (myWrite, AbortJob, STARTDOC).
THEOREM JobOwnBytes == ASSUME ~KeepsDC PROVE Spec => []OwnBytes
  <1>1. Spec => []Inv
    BY JobInv
  <1> QED
    BY <1>1, InvGives, PTL

\* The driver writes only inside a page of the job and calls the spooler for no job
\* that is closed, whichever calls fail, but for the number that an ABORTDOC or NEXTBAND
\* with no document open finds in epJob (NEXTBAND, STARTDOC, ENDDOC, ABORTDOC).
THEOREM JobSpoolCallsLegal == ASSUME ~KeepsDC PROVE Spec => []SpoolCallsLegal
  <1>1. Spec => []Inv
    BY JobInv
  <1> QED
    BY <1>1, InvGives, PTL

\* A job on both sides of the paper that ends normally has an even number of sides
\* (ENDDOC).
THEOREM JobDuplexEven == ASSUME ~KeepsDC PROVE Spec => DuplexEven
  <1> DEFINE Even == app.pc = "doc" /\ app'.pc = "nodoc" /\ dc'.job # 0 /\ queue'.state = "none"
                       => ~queue.twoSided \/ (queue'.sides % 2) = 0
  <1>1. Inv /\ [Next]_vars => [Even]_vars
    BY StepEven
  <1>2. Spec => []Inv
    BY JobInv
  <1>3. Spec => [][Even]_vars
    BY <1>1, <1>2, PTL DEF Spec
  <1> QED
    BY <1>3 DEF DuplexEven

-----------------------------------------------------------------------------
(* The pages of a job are complete: whatever the application skips because *)
(* BANDINFO told it to, the marks of the device remember what is still to  *)
(* come.                                                                   *)

\* The application has sent the item in this band, or has been told not to.
Told(c, asked, todo, item) == (c.info => asked) /\ item \notin todo

InBitmap(d) == "GRX" \in d.mode /\ d.nband - 1 \in d.bitmap

\* What the device knows of an item after the text band, and what it has of it after
\* the others.
Handled(c, d, p, item) ==
  /\ d.nband = 1 => /\ item = "graphics" /\ c.grx # {} => "ANYGRX" \in d.mode
                    /\ item = "vector" /\ c.vector # {} => d.gdiText
                    /\ item = "text" /\ c.opaque => d.opaqText
  /\ d.nband > 1 => /\ item = "graphics" /\ d.nband - 1 \in c.grx => InBitmap(d)
                    /\ item = "vector" /\ d.nband - 1 \in c.vector => InBitmap(d)
                    /\ item = "text" /\ c.opaque => d.nband - 1 \in p.whited

\* The bands before n are printed, and their background is cleared.
Before(c, p, n) ==
  /\ \A b \in c.grx \cup c.vector : b < n => [drawn |-> b, at |-> b] \in p.done
  /\ c.opaque => \A b \in c.grx : b < n => b \in p.whited

\* After the text band the device knows what kinds of drawing the page has.
Known(c, d) ==
  NeedsBands(d) /\ (c.vector # {} => d.gdiText) /\ (c.opaque => d.opaqText)

PageOK(c, d, p, asked, todo) ==
  "DRAFT" \notin d.mode =>
    /\ d.nband > 1 => Known(c, d) /\ Before(c, p, d.nband - 1)
    /\ \A item \in Items : Told(c, asked, todo, item) => Handled(c, d, p, item)

PageInv == app.pc = "page" => PageOK(app.content, dc, queue.page, app.asked, app.todo)

-----------------------------------------------------------------------------
(* Inside a band the marks, the flags, the bitmap and the page only grow.  *)

Grows(d, p, e, q) ==
  /\ e.nband = d.nband /\ d.mode \subseteq e.mode
  /\ ("DRAFT" \in e.mode) = ("DRAFT" \in d.mode) /\ d.bitmap \subseteq e.bitmap
  /\ (d.gdiText => e.gdiText) /\ (d.opaqText => e.opaqText)
  /\ p.done \subseteq q.done /\ p.whited \subseteq q.whited

LEMMA HandledGrows ==
  ASSUME NEW c, NEW d, NEW p, NEW e, NEW q, Grows(d, p, e, q), NEW item,
         Handled(c, d, p, item)
  PROVE  Handled(c, e, q, item)
  BY DEF Grows, Handled, InBitmap

\* What the application need not send any more was handled before or is now.
Excused(c, e, q, asked, todo, asked2, todo2) ==
  \A item \in Items : Told(c, asked2, todo2, item)
                        => Told(c, asked, todo, item) \/ Handled(c, e, q, item)

LEMMA PageGrows ==
  ASSUME NEW c, NEW d, NEW p, NEW e, NEW q, Grows(d, p, e, q),
         NEW asked, NEW todo, NEW asked2, NEW todo2, PageOK(c, d, p, asked, todo),
         Excused(c, e, q, asked, todo, asked2, todo2)
  PROVE  PageOK(c, e, q, asked2, todo2)
  <1> SUFFICES ASSUME "DRAFT" \notin e.mode
               PROVE  /\ e.nband > 1 => Known(c, e) /\ Before(c, q, e.nband - 1)
                      /\ \A item \in Items :
                           Told(c, asked2, todo2, item) => Handled(c, e, q, item)
    BY DEF PageOK
  <1>1. "DRAFT" \notin d.mode
    BY DEF Grows
  <1>2. ASSUME e.nband > 1
        PROVE  Known(c, e) /\ Before(c, q, e.nband - 1)
    <2>1. Known(c, d) /\ Before(c, p, d.nband - 1) /\ e.nband = d.nband
      BY <1>1, <1>2 DEF PageOK, Grows
    <2>2. Known(c, e)
      BY <2>1 DEF Known, NeedsBands, Grows
    <2>3. Before(c, q, e.nband - 1)
      BY <2>1 DEF Before, Grows
    <2> QED
      BY <2>2, <2>3
  <1>3. ASSUME NEW item \in Items, Told(c, asked2, todo2, item)
        PROVE  Handled(c, e, q, item)
    <2>1. CASE Told(c, asked, todo, item)
      <3>1. Handled(c, d, p, item)
        BY <1>1, <2>1 DEF PageOK
      <3> QED
        BY <3>1, HandledGrows
    <2> QED
      BY <1>3, <2>1 DEF Excused
  <1> QED
    BY <1>2, <1>3

LEMMA PageTo ==
  ASSUME NEW c, NEW d, NEW p, NEW asked, NEW todo, app'.content = c, dc' = d,
         queue'.page = p, app'.asked = asked, app'.todo = todo,
         PageOK(c, d, p, asked, todo)
  PROVE  PageInv'
  BY DEF PageInv, PageOK, Known, NeedsBands, Before, Told, Handled, InBitmap

\* A step inside a band.
LEMMA BandStays ==
  ASSUME Inv, PageInv, app.pc = "page", NEW e, dc' = e, NEW q, queue'.page = q,
         NEW d, d = dc, NEW p, p = queue.page, Grows(d, p, e, q),
         NEW todo, NEW asked, Strikes(todo, asked), NEW c, c = app.content,
         NEW todo1, todo1 = app.todo, NEW asked1, asked1 = app.asked,
         Excused(c, e, q, asked1, todo1, asked, todo)
  PROVE  PageInv'
  <1>1. PageOK(c, d, p, asked1, todo1)
    BY DEF PageInv
  <1>2. PageOK(c, e, q, asked, todo)
    BY <1>1, PageGrows
  <1>3. app'.content = c /\ app'.asked = asked /\ app'.todo = todo
    BY DEF Inv, Apps, Strikes
  <1> QED
    BY <1>2, <1>3, PageTo

LEMMA Unexcused ==
  ASSUME NEW c, NEW e, NEW q, NEW asked, NEW todo
  PROVE  Excused(c, e, q, asked, todo, asked, todo)
  BY DEF Excused

LEMMA ItemSent ==
  ASSUME NEW c, NEW e, NEW q, NEW asked, NEW todo, NEW item, Handled(c, e, q, item),
         NEW todo2, todo2 = todo \ {item}
  PROVE  Excused(c, e, q, asked, todo, asked, todo2)
  BY DEF Excused, Told

LEMMA DeviceDataPage == Inv /\ PageInv /\ DeviceData => PageInv'
  <1> SUFFICES ASSUME Inv, PageInv, DeviceData
               PROVE  PageInv'
    OBVIOUS
  <1> DEFINE w == World
             no == FALSE
             yes == TRUE
  <1>1. PICK before, after \in BOOLEAN :
          Becomes(Flush(Write(Flush(w, before), no, yes), after))
    BY DEF DeviceData
  <1>2. app.pc = "page" /\ app' = app /\ w.dc = dc /\ w.queue = queue
    BY WorldIs DEF DeviceData
  <1> DEFINE s == Flush(w, before)
             t == Write(s, no, yes)
             v == Flush(t, after)
  <1>4. /\ w \in Worlds /\ before \in BOOLEAN /\ after \in BOOLEAN
        /\ no \in BOOLEAN /\ yes \in BOOLEAN
    BY <1>2, WorldInPage DEF Sound
  <1> HIDE DEF w, no, yes
  <1>5. Spools(w, s)
    BY <1>4, FlushSpools
  <1>6. s \in Worlds
    BY <1>5 DEF Spools
  <1>7. Spools(s, t)
    <2> HIDE DEF s
    <2> QED
      BY <1>4, <1>6, WriteSpools
  <1>8. t \in Worlds
    BY <1>7 DEF Spools
  <1>9. Spools(t, v)
    <2> HIDE DEF t
    <2> QED
      BY <1>4, <1>8, FlushSpools
  <1>10. Becomes(v)
    BY <1>1
  <1> HIDE DEF s, t, v
  <1>11. Spools(w, v)
    BY <1>5, <1>7, <1>9, SpoolsTwice
  <1> DEFINE e == v.dc
             q == v.queue.page
             d == dc
             p == queue.page
  <1>12. Grows(d, p, e, q)
    BY <1>2, <1>11 DEF Spools, SameDevice, Grows
  <1>13. dc' = e /\ queue'.page = q
    BY <1>10 DEF Becomes
  <1> DEFINE asked == app.asked
             todo == app.todo
             c == app.content
  <1>14. app'.content = c /\ app'.asked = asked /\ app'.todo = todo
    BY <1>2
  <1>15. PageOK(c, d, p, asked, todo)
    BY <1>2 DEF PageInv
  <1> HIDE DEF e, q, d, p, asked, todo, c
  <1>16. Excused(c, e, q, asked, todo, asked, todo)
    BY Unexcused
  <1>17. PageOK(c, e, q, asked, todo)
    BY <1>12, <1>15, <1>16, PageGrows
  <1> QED
    BY <1>13, <1>14, <1>17, PageTo

\* Drawing handles graphics, and text that GDI draws.
LEMMA DrawPage ==
  ASSUME Inv, PageInv, app.pc = "page", NEW item \in {"graphics", "vector"}, Sent(item),
         queue' = queue, NEW g \in BOOLEAN, NEW b, b = [dc EXCEPT !.gdiText = g],
         dc.gdiText => g, item = "vector" /\ dc.nband = 1 => g, dc' = Drawn(b)
  PROVE  PageInv'
  <1> DEFINE d == dc
             p == queue.page
             e == Drawn(b)
             c == app.content
             asked == app.asked
             todo == app.todo
             todo2 == todo \ {item}
  <1>1. /\ d \in Devices /\ d.nband \in 1 .. NumBands + 1 /\ d.bitmap \subseteq Bands
        /\ BandOK(d, p) /\ app \in Apps /\ (d.gdiText => g) /\ d.nband \in Int
        /\ (item = "vector" /\ d.nband = 1 => g) /\ b = [d EXCEPT !.gdiText = g]
    BY WorldInPage DEF Devices
  <1>2. PageOK(c, d, p, asked, todo) /\ dc' = e /\ queue'.page = p
    BY DEF PageInv
  <1>3. app'.content = c /\ app'.asked = asked /\ app'.todo = todo2
    BY <1>1 DEF Sent, Apps
  <1>d. e = Drawn(b)
    OBVIOUS
  <1> HIDE DEF d, p, e, c, asked
  <1>4. /\ b \in Devices /\ b.doc = d.doc /\ b.job = d.job /\ b.nband = d.nband
        /\ b.mode = d.mode /\ b.bitmap = d.bitmap /\ b.gdiText = g /\ b.opaqText = d.opaqText
    BY <1>1 DEF Devices
  <1>5. BandOK(b, p)
    BY <1>1, <1>4 DEF BandOK
  <1>6. Drew(b, p, e)
    BY <1>1, <1>d, <1>4, <1>5, DrawnIs
  <1>7. Grows(d, p, e, p)
    BY <1>1, <1>4, <1>6 DEF Drew, Grows
  <1> HIDE DEF todo
  <1>8. PageOK(c, e, p, asked, todo2)
    <2>1. CASE "DRAFT" \in e.mode
      BY <2>1 DEF PageOK
    <2>2. CASE "DRAFT" \notin e.mode
      <3>1. /\ e.nband = d.nband /\ "ANYGRX" \in e.mode /\ e.gdiText = g
            /\ (e.nband > 1 => InBitmap(e))
        BY <1>4, <1>6, <2>2 DEF Drew, InBitmap
      <3>2. Handled(c, e, p, item)
        BY <1>1, <3>1 DEF Handled
      <3> HIDE DEF todo2
      <3>3. todo2 = todo \ {item}
        BY DEF todo2
      <3>4. Excused(c, e, p, asked, todo, asked, todo2)
        BY <3>2, <3>3, ItemSent
      <3> QED
        BY <1>2, <1>7, <3>4, PageGrows
    <2> QED
      BY <2>1, <2>2
  <1> HIDE DEF todo2
  <1> QED
    BY <1>2, <1>3, <1>8, PageTo

LEMMA OutputPage == Inv /\ PageInv /\ Output => PageInv'
  <1> SUFFICES ASSUME Inv, PageInv, Output
               PROVE  PageInv'
    OBVIOUS
  <1> DEFINE g == dc.gdiText
             b == [dc EXCEPT !.gdiText = g]
             item == "graphics"
  <1>1. /\ app.pc = "page" /\ Sent(item) /\ queue' = queue /\ dc' = Drawn(dc)
        /\ item \in {"graphics", "vector"} /\ ~(item = "vector")
    BY DEF Output, InBand
  <1>2. dc \in Devices
    BY <1>1, WorldInPage
  <1>3. b = dc /\ g \in BOOLEAN /\ (dc.gdiText => g) /\ (item = "vector" /\ dc.nband = 1 => g)
    BY <1>1, <1>2 DEF Devices
  <1>4. dc' = Drawn(b)
    BY <1>1, <1>3
  <1>5. b = [dc EXCEPT !.gdiText = g]
    OBVIOUS
  <1> HIDE DEF g, b, item
  <1> QED
    BY <1>1, <1>3, <1>4, <1>5, DrawPage

LEMMA PixelPage == Inv /\ PageInv /\ Pixel => PageInv'
  <1> SUFFICES ASSUME Inv, PageInv, Pixel
               PROVE  PageInv'
    OBVIOUS
  <1> DEFINE g == dc.gdiText \/ dc.nband = TEXTBAND
             b == [dc EXCEPT !.gdiText = g]
             item == "vector"
  <1>1. /\ app.pc = "page" /\ Sent(item) /\ queue' = queue /\ dc' = Drawn(b)
        /\ item \in {"graphics", "vector"}
    BY DEF Pixel, InBand
  <1>2. dc \in Devices
    BY <1>1, WorldInPage
  <1>3. g \in BOOLEAN /\ (dc.gdiText => g) /\ (item = "vector" /\ dc.nband = 1 => g)
    BY <1>2 DEF Devices, TEXTBAND
  <1>4. b = [dc EXCEPT !.gdiText = g]
    OBVIOUS
  <1> HIDE DEF g, b, item
  <1> QED
    BY <1>1, <1>3, <1>4, DrawPage

\* ExtTextOut remembers opaque text in the text band, and clears its background in the
\* others.
LEMMA ExtTextOutPage == Inv /\ PageInv /\ ExtTextOut => PageInv'
  <1> SUFFICES ASSUME Inv, PageInv, ExtTextOut
               PROVE  PageInv'
    OBVIOUS
  <1> DEFINE d == dc
             p == queue.page
             c == app.content
             asked == app.asked
             todo == app.todo
             item == "text"
             todo2 == todo \ {item}
             g == dc.opaqText \/ c.opaque
             b == [dc EXCEPT !.opaqText = g]
             u == [dc |-> b, queue |-> queue]
             white == IF c.opaque THEN {dc.nband - 1} ELSE {}
  <1>1. /\ app.pc = "page" /\ Sent(item) /\ d \in Devices /\ queue \in Queues /\ app \in Apps
        /\ d.nband \in 1 .. NumBands + 1 /\ c \in Content /\ d.nband \in Int /\ p \in Sheets
    <2>1. app.pc = "page" /\ Sent(item)
      BY DEF ExtTextOut, InBand
    <2> QED
      BY <2>1, WorldInPage DEF Devices, Queues
  <1>2. PageOK(c, d, p, asked, todo)
    BY <1>1 DEF PageInv
  <1>3. app'.content = c /\ app'.asked = asked /\ app'.todo = todo2
    BY <1>1 DEF Sent, Apps
  <1>4. ASSUME NEW e, NEW q, Grows(d, p, e, q), Handled(c, e, q, item),
               dc' = e, queue'.page = q
        PROVE  PageInv'
    <2>1. todo2 = todo \ {item}
      OBVIOUS
    <2> HIDE DEF d, p, c, asked, todo, item, todo2
    <2>2. Excused(c, e, q, asked, todo, asked, todo2)
      BY <1>4, <2>1, ItemSent
    <2>3. PageOK(c, e, q, asked, todo2)
      BY <1>2, <1>4, <2>2, PageGrows
    <2> QED
      BY <1>3, <1>4, <2>3, PageTo
  <1>5. PICK full, wrote \in BOOLEAN :
          IF dc.nband = TEXTBAND THEN Becomes(Write(u, full, wrote))
          ELSE /\ queue' = [queue EXCEPT !.page.whited = @ \cup white]
               /\ UNCHANGED dc
    BY DEF ExtTextOut
  <1>6. CASE dc.nband = TEXTBAND
    <2> DEFINE v == Write(u, full, wrote)
    <2>1. Becomes(v) /\ full \in BOOLEAN /\ wrote \in BOOLEAN
      BY <1>5, <1>6
    <2>2. g \in BOOLEAN /\ (d.opaqText => g) /\ (c.opaque => g) /\ d.nband = 1
      BY <1>1, <1>6 DEF Devices, Content, TEXTBAND
    <2> HIDE DEF g
    <2>3. /\ b \in Devices /\ b.nband = d.nband /\ b.mode = d.mode /\ b.bitmap = d.bitmap
          /\ b.gdiText = d.gdiText /\ b.opaqText = g
      BY <1>1, <2>2 DEF Devices
    <2> HIDE DEF b
    <2>4. u \in Worlds /\ u.dc = b /\ u.queue.page = p
      BY <1>1, <2>3 DEF Worlds
    <2> HIDE DEF u, d, p, c
    <2>5. Spools(u, v)
      BY <2>1, <2>4, WriteSpools
    <2> HIDE DEF v
    <2> DEFINE e == v.dc
               q == v.queue.page
    <2>6. q = p /\ e.nband = b.nband /\ e.mode = b.mode /\ e.bitmap = b.bitmap
          /\ e.gdiText = b.gdiText /\ e.opaqText = b.opaqText
      BY <2>4, <2>5 DEF Spools, SameDevice
    <2>7. dc' = e /\ queue'.page = q
      BY <2>1 DEF Becomes
    <2> HIDE DEF e, q
    <2>8. Grows(d, p, e, q)
      BY <2>2, <2>3, <2>6 DEF Grows
    <2>9. Handled(c, e, q, item)
      BY <2>2, <2>3, <2>6 DEF Handled
    <2> HIDE DEF item
    <2> QED
      BY <1>4, <2>7, <2>8, <2>9
  <1>7. CASE dc.nband # TEXTBAND
    <2> DEFINE whited == p.whited \cup white
               q == [p EXCEPT !.whited = whited]
    <2>1. queue' = [queue EXCEPT !.page = q] /\ dc' = d
      BY <1>1, <1>5, <1>7 DEF Queues, Sheets
    <2>2. c.opaque => d.nband - 1 \in whited
      BY <1>1
    <2>3. p.whited \subseteq whited
      OBVIOUS
    <2>5. d.nband > 1
      BY <1>1, <1>7 DEF TEXTBAND
    <2> HIDE DEF whited, white, d, c
    <2>4. q.done = p.done /\ q.whited = whited /\ queue'.page = q
      <3> HIDE DEF p
      <3>1. q.done = p.done /\ q.whited = whited
        BY <1>1 DEF Sheets
      <3> HIDE DEF q
      <3> QED
        BY <1>1, <2>1, <3>1 DEF Queues
    <2> HIDE DEF p, q
    <2>8. Grows(d, p, d, q)
      BY <2>3, <2>4 DEF Grows
    <2>9. Handled(c, d, q, item)
      BY <2>2, <2>4, <2>5 DEF Handled
    <2> HIDE DEF item
    <2> QED
      BY <1>4, <2>1, <2>4, <2>8, <2>9
  <1> QED
    BY <1>6, <1>7

-----------------------------------------------------------------------------
(* BANDINFO and NEXTBAND.                                                  *)

\* What the application does not send in a band, when it sends all that the band holds,
\* the band does not hold.
LEMMA AllHandled ==
  ASSUME NEW c, NEW d, NEW p, d.nband \in Int, NEW band, band = d.nband - 1,
         NEW item, item \notin Todo(c, band, TRUE, TRUE)
  PROVE  Handled(c, d, p, item)
  BY DEF Todo, Handled

\* BANDINFO excuses the application from graphics in the text band, of which the device
\* knows then, and from text in the others if the page has none that GDI draws and none
\* that is opaque.
LEMMA InfoHandled ==
  ASSUME NEW c, NEW d, NEW p, d.nband \in Int, d.nband > 1 => Known(c, d),
         d.nband = 1 /\ c.grx # {} => "ANYGRX" \in d.mode,
         NEW band, band = d.nband - 1, NEW graphics \in BOOLEAN, band # 0 => graphics,
         NEW text \in BOOLEAN, band = 0 \/ d.gdiText \/ d.opaqText => text,
         NEW item \in Items, item \notin Todo(c, band, graphics, text)
  PROVE  Handled(c, d, p, item)
  <1>1. CASE d.nband = 1
    BY <1>1 DEF Todo, Handled, Items
  <1>2. CASE d.nband > 1
    <2>1. (c.vector # {} => d.gdiText) /\ (c.opaque => d.opaqText)
      BY <1>2 DEF Known
    <2> QED
      BY <1>2, <2>1 DEF Todo, Handled, Items
  <1>3. CASE d.nband < 1
    BY <1>3 DEF Handled
  <1> QED
    BY <1>1, <1>2, <1>3

LEMMA BandInfoPage == Inv /\ PageInv /\ BandInfo => PageInv'
  <1> SUFFICES ASSUME Inv, PageInv, BandInfo
               PROVE  PageInv'
    OBVIOUS
  <1> DEFINE d == dc
             p == queue.page
             c == app.content
             asked == app.asked
             todo == app.todo
             yes == TRUE
             band == d.nband - 1
             graphics == band # 0
             text == band = 0 \/ d.gdiText \/ d.opaqText
             mode == IF band = 0 /\ c.grx # {} THEN d.mode \cup {"ANYGRX"} ELSE d.mode
             e == [d EXCEPT !.mode = mode]
             todo2 == Todo(c, band, graphics, text)
  <1>1. /\ app.pc = "page" /\ d \in Devices /\ app \in Apps /\ d.nband \in Int
        /\ queue'.page = p
    <2>1. app.pc = "page" /\ queue' = queue
      BY DEF BandInfo
    <2> QED
      BY <2>1, WorldInPage DEF Devices
  <1>2. PageOK(c, d, p, asked, todo)
    BY <1>1 DEF PageInv
  <1>3. dc' = e /\ app' = [app EXCEPT !.asked = yes, !.todo = todo2]
    BY DEF BandInfo
  <1>4. graphics \in BOOLEAN /\ text \in BOOLEAN /\ mode \in SUBSET Marks /\ d.mode \subseteq mode
        /\ (band # 0 => graphics) /\ (band = 0 \/ d.gdiText \/ d.opaqText => text)
        /\ ("DRAFT" \in mode) = ("DRAFT" \in d.mode)
        /\ (band = 0 /\ c.grx # {} => "ANYGRX" \in mode)
    BY <1>1 DEF Devices, Marks
  <1> HIDE DEF todo2, yes
  <1>5. app'.content = c /\ app'.asked = yes /\ app'.todo = todo2
    BY <1>1, <1>3 DEF Apps
  <1>6. /\ e.nband = d.nband /\ e.mode = mode /\ e.bitmap = d.bitmap
        /\ e.gdiText = d.gdiText /\ e.opaqText = d.opaqText
    <2> HIDE DEF mode, d
    <2> QED
      BY <1>1, <1>4 DEF Devices
  <1>7. Grows(d, p, e, p) /\ (band = 0 /\ c.grx # {} => "ANYGRX" \in e.mode)
    <2> HIDE DEF mode, d, e, p
    <2> QED
      BY <1>4, <1>6 DEF Grows
  <1>8. PageOK(c, e, p, yes, todo2)
    <2>1. CASE "DRAFT" \in e.mode
      BY <2>1 DEF PageOK
    <2>2. CASE "DRAFT" \notin e.mode
      <3>1. e.nband \in Int /\ band = e.nband - 1 /\ e.gdiText = d.gdiText
            /\ e.opaqText = d.opaqText
        BY <1>1, <1>6
      <3>2. todo2 = Todo(c, band, graphics, text)
        BY DEF todo2
      <3>3. e.nband > 1 => Known(c, e)
        <4> HIDE DEF mode, d, e, p, c, asked, todo, band
        <4>1. d.nband > 1 => Known(c, d)
          BY <1>2, <1>7, <2>2 DEF PageOK, Grows
        <4> QED
          BY <1>7, <4>1 DEF Known, NeedsBands, Grows
      <3>4. e.nband = 1 /\ c.grx # {} => "ANYGRX" \in e.mode
        BY <1>1, <1>6, <1>7
      <3>5. (band # 0 => graphics) /\ (band = 0 \/ e.gdiText \/ e.opaqText => text)
            /\ graphics \in BOOLEAN /\ text \in BOOLEAN
        BY <1>4, <1>6
      <3> HIDE DEF e, p, c, band, graphics, text, d, asked, todo
      <3>6. ASSUME NEW item \in Items, item \notin todo2
            PROVE  Handled(c, e, p, item)
        BY <3>1, <3>2, <3>3, <3>4, <3>5, <3>6, InfoHandled
      <3>7. Excused(c, e, p, asked, todo, yes, todo2)
        BY <3>6 DEF Excused, Told
      <3> QED
        BY <1>2, <1>7, <3>7, PageGrows
    <2> QED
      BY <2>1, <2>2
  <1> HIDE DEF e, p, c
  <1> QED
    BY <1>1, <1>3, <1>5, <1>8, PageTo

\* A NEXTBAND that ends well, in the band it gives and between two pages.
Goes(c, r) ==
  /\ dc' = r.w.dc /\ queue' = r.w.queue /\ r.w.dc.doc = 1
  /\ app'.pc = "page" => r.rect
  /\ app'.pc = "doc" => ~r.rect
  /\ app'.content = c /\ app'.asked = FALSE
  /\ r.rect => app'.todo = IF c.info THEN {} ELSE Todo(c, r.w.dc.nband - 1, TRUE, TRUE)

LEMMA NextBandTodo ==
  ASSUME app \in Apps, NEW c, NEW start, NEW full, NEW wrote, NEW end,
         NextBand(c, start, full, wrote, end), NEW r, r = Step(start, full, wrote, end),
         app'.pc \in {"page", "doc"}
  PROVE  Goes(c, r)
  <1> DEFINE after == IF r.w.dc.doc # 1 THEN AbortJob(r.w, start, wrote, end) ELSE r.w
             pc == IF r.w.dc.doc # 1 THEN "failed" ELSE IF r.rect THEN "page" ELSE "doc"
             all == Todo(c, after.dc.nband - 1, TRUE, TRUE)
             todo == IF r.w.dc.doc # 1 \/ ~r.rect \/ c.info THEN {} ELSE all
             no == FALSE
  <1>1. /\ Becomes(after)
        /\ app' = [app EXCEPT !.pc = pc, !.content = c, !.todo = todo, !.asked = no]
    BY DEF NextBand, Step
  <1> HIDE DEF after, pc, todo, no
  <1>2. app'.pc = pc /\ app'.content = c /\ app'.todo = todo /\ app'.asked = no
    BY <1>1 DEF Apps
  <1>3. r.w.dc.doc = 1
    BY <1>2 DEF pc
  <1>4. after = r.w
    BY <1>3 DEF after
  <1>5. todo = IF ~r.rect \/ c.info THEN {} ELSE Todo(c, r.w.dc.nband - 1, TRUE, TRUE)
    BY <1>3, <1>4 DEF todo
  <1>6. (app'.pc = "page" => r.rect) /\ (app'.pc = "doc" => ~r.rect)
    BY <1>2, <1>3 DEF pc
  <1> QED
    BY <1>1, <1>2, <1>3, <1>4, <1>5, <1>6 DEF Becomes, no, Goes

\* A band that is given: nothing of it has been sent.
LEMMA BandGiven ==
  ASSUME NEW c, NEW e, e.nband \in Int, NEW q,
         e.nband > 1 /\ "DRAFT" \notin e.mode => Known(c, e) /\ Before(c, q, e.nband - 1),
         NEW todo, todo = IF c.info THEN {} ELSE Todo(c, e.nband - 1, TRUE, TRUE)
  PROVE  PageOK(c, e, q, FALSE, todo)
  <1>1. ASSUME NEW item \in Items, ~c.info, item \notin Todo(c, e.nband - 1, TRUE, TRUE)
        PROVE  Handled(c, e, q, item)
    <2> DEFINE band == e.nband - 1
    <2>1. item \notin Todo(c, band, TRUE, TRUE) /\ band = e.nband - 1
      BY <1>1
    <2> HIDE DEF band
    <2> QED
      BY <2>1, AllHandled
  <1> QED
    BY <1>1 DEF PageOK, Told

\* The marks after a band: the draft stays, and so does what says that bands are needed.
LEMMA MarksAfter ==
  ASSUME NEW w, NEW n, ~Stops(w.dc, n), NEW v, BandSent(w, n, v)
  PROVE  /\ ("DRAFT" \in v.dc.mode) = ("DRAFT" \in w.dc.mode)
         /\ "ANYGRX" \in Scaled(w.dc, n) => "ANYGRX" \in v.dc.mode
  <1>1. ("DRAFT" \in Scaled(w.dc, n)) = ("DRAFT" \in w.dc.mode)
    BY DEF Scaled
  <1> QED
    BY <1>1 DEF BandSent, Emitted, Printed, Skipped

\* When the application has sent what it was told to, the band is printed: the device
\* knows of all that comes after it.
LEMMA BandDone ==
  ASSUME NEW w \in Worlds, NEW c, c \in Content, NEW n, n = w.dc.nband, n > 0,
         NEW asked, NEW todo, PageOK(c, w.dc, w.queue.page, asked, todo),
         todo = {}, c.info => asked, "DRAFT" \notin w.dc.mode,
         BandOK(w.dc, w.queue.page), ~Stops(w.dc, n), NEW v, BandSent(w, n, v), SameJob(w, v)
  PROVE  Known(c, v.dc) /\ Before(c, v.queue.page, n)
  <1>1. /\ n \in Int /\ v.dc.gdiText = w.dc.gdiText /\ v.dc.opaqText = w.dc.opaqText
        /\ v.queue.page.whited = w.queue.page.whited /\ c.grx \subseteq Bands
        /\ c.vector \subseteq Bands
    BY DEF SameJob, Worlds, Devices, Content
  <1>2. \A item \in Items : Handled(c, w.dc, w.queue.page, item)
    BY DEF PageOK, Told
  <1>3. /\ Handled(c, w.dc, w.queue.page, "graphics") /\ Handled(c, w.dc, w.queue.page, "text")
        /\ Handled(c, w.dc, w.queue.page, "vector")
    BY <1>2 DEF Items
  <1>4. "ANYGRX" \in Scaled(w.dc, n) => "ANYGRX" \in v.dc.mode
    BY MarksAfter
  <1>5. CASE n = 1
    <2>1. (c.vector # {} => w.dc.gdiText) /\ (c.opaque => w.dc.opaqText)
      BY <1>3, <1>5 DEF Handled
    <2>2. NeedsBands(v.dc)
      BY <1>1, <1>4, <1>5 DEF Stops, Needs, NeedsBands
    <2>3. Before(c, v.queue.page, n)
      BY <1>1, <1>5 DEF Before, Bands
    <2> QED
      BY <1>1, <2>1, <2>2, <2>3 DEF Known
  <1>6. CASE n > 1
    <2>1. Known(c, w.dc) /\ Before(c, w.queue.page, n - 1)
      BY <1>6 DEF PageOK
    <2>2. Scaled(w.dc, n) = w.dc.mode
      BY <1>6 DEF Scaled
    <2>3. Known(c, v.dc)
      BY <1>1, <1>4, <2>1, <2>2 DEF Known, NeedsBands
    <2>4. w.queue.page.done \subseteq v.queue.page.done
      BY DEF BandSent, Emitted, Printed, Skipped
    <2>5. ASSUME n - 1 \in c.grx \cup c.vector
          PROVE  [drawn |-> n - 1, at |-> n - 1] \in v.queue.page.done
      <3>1. "GRX" \in w.dc.mode /\ n - 1 \in w.dc.bitmap
        BY <1>3, <1>6, <2>5 DEF Handled, InBitmap
      <3>2. At(w, n - 1) = n - 1
        BY <1>1, <1>6 DEF At, BandOK
      <3>3. [drawn |-> n - 1, at |-> n - 1] \in Strips(w, n - 1)
        BY <3>1, <3>2 DEF Strips
      <3> QED
        BY <3>1, <3>3 DEF BandSent, Emitted, Printed
    <2>6. c.opaque => n - 1 \in w.queue.page.whited
      BY <1>3, <1>6 DEF Handled
    <2>7. ASSUME NEW b \in c.grx \cup c.vector, b < n
          PROVE  [drawn |-> b, at |-> b] \in v.queue.page.done
      <3>1. b \in Int
        BY <1>1 DEF Bands
      <3>2. b < n - 1 \/ b = n - 1
        BY <1>1, <2>7, <3>1
      <3> QED
        BY <2>1, <2>4, <2>5, <3>2 DEF Before
    <2>8. ASSUME c.opaque, NEW b \in c.grx, b < n
          PROVE  b \in v.queue.page.whited
      <3>1. b \in Int
        BY <1>1 DEF Bands
      <3>2. b < n - 1 \/ b = n - 1
        BY <1>1, <2>8, <3>1
      <3> QED
        BY <1>1, <2>1, <2>6, <2>8, <3>2 DEF Before
    <2> QED
      BY <2>3, <2>7, <2>8 DEF Before
  <1> QED
    BY <1>1, <1>5, <1>6

\* The band that ends and what NEXTBAND makes of it.
LEMMA LaterStep ==
  ASSUME Inv, PageInv, LaterBand, app'.pc \in {"page", "doc"},
         NEW w, w = World, NEW n, n = dc.nband, NEW c, c = app.content
  PROVE  \E r : Stepped(w, n, r) /\ Goes(c, r)
  <1>1. PICK start, full, wrote, end \in BOOLEAN : NextBand(c, start, full, wrote, end)
    BY DEF LaterBand
  <1> DEFINE r == Step(start, full, wrote, end)
  <1>2. /\ w \in Worlds /\ n \in Places /\ n > 0 /\ OwnBuffer(w.dc) /\ w.dc = dc
        /\ (w.dc.doc = 1 => w.queue.state = "page") /\ app \in Apps
    BY WorldInPage, WorldIs DEF LaterBand, Sound, InPage, Places
  <1>3. Goes(c, r)
    <2>1. r = Step(start, full, wrote, end)
      OBVIOUS
    <2> HIDE DEF r
    <2> QED
      BY <1>1, <1>2, <2>1, NextBandTodo
  <1>4. w.dc.doc = 1
    BY <1>1, <1>2 DEF NextBand
  <1>5. r = BandStep(w, n, start, full, wrote, end) /\ w.queue.state = "page"
    BY <1>2, <1>4 DEF Step
  <1>6. start \in BOOLEAN /\ full \in BOOLEAN /\ wrote \in BOOLEAN /\ end \in BOOLEAN
    OBVIOUS
  <1> HIDE DEF r
  <1>7. Stepped(w, n, r)
    BY <1>2, <1>4, <1>5, <1>6, BandStepIs
  <1> QED
    BY <1>3, <1>7

LEMMA LaterBandPage == Inv /\ PageInv /\ LaterBand => PageInv'
  <1> SUFFICES ASSUME Inv, PageInv, LaterBand, app'.pc = "page"
               PROVE  PageInv'
    BY DEF PageInv
  <1> DEFINE w == World
             n == dc.nband
             c == app.content
             asked == app.asked
             todo == app.todo
             no == FALSE
  <1>1. /\ w \in Worlds /\ n = w.dc.nband /\ n > 0 /\ n \in Int /\ BandOK(w.dc, w.queue.page)
        /\ PageOK(c, w.dc, w.queue.page, asked, todo) /\ todo = {} /\ (c.info => asked)
        /\ c \in Content
    BY WorldInPage, WorldIs DEF LaterBand, Sound, PageInv
  <1> HIDE DEF c
  <1>0. w = World /\ n = dc.nband /\ c = app.content /\ app'.pc \in {"page", "doc"}
    BY DEF c
  <1> HIDE DEF w, n
  <1>r. PICK r : Stepped(w, n, r) /\ Goes(c, r)
    BY <1>0, LaterStep
  <1>2. /\ Stepped(w, n, r) /\ dc' = r.w.dc /\ queue' = r.w.queue
        /\ r.rect /\ app'.content = c /\ app'.asked = FALSE
        /\ app'.todo = IF c.info THEN {} ELSE Todo(c, r.w.dc.nband - 1, TRUE, TRUE)
    BY <1>r DEF Goes
  <1> HIDE DEF asked, todo
  <1> DEFINE v == r.w
             e == v.dc
             q == v.queue.page
             todo2 == IF c.info THEN {} ELSE Todo(c, e.nband - 1, TRUE, TRUE)
  <1>3. /\ SameJob(w, v) /\ BandSent(w, n, v) /\ ~Stops(w.dc, n) /\ e.nband = n + 1
    BY <1>1, <1>2 DEF Stepped
  <1>4. ("DRAFT" \in e.mode) = ("DRAFT" \in w.dc.mode)
    <2> HIDE DEF v
    <2> QED
      BY <1>3, MarksAfter
  <1>5. "DRAFT" \notin e.mode => Known(c, e) /\ Before(c, q, n)
    <2> HIDE DEF v
    <2> QED
      BY <1>1, <1>3, <1>4, BandDone
  <1>6. e.nband \in Int /\ e.nband - 1 = n
    BY <1>1, <1>3
  <1>7. todo2 = IF c.info THEN {} ELSE Todo(c, e.nband - 1, TRUE, TRUE)
    OBVIOUS
  <1>8. dc' = e /\ queue'.page = q /\ app'.todo = todo2
    BY <1>2
  <1> HIDE DEF e, q, todo2
  <1>9. PageOK(c, e, q, no, todo2)
    <2>1. e.nband > 1 /\ "DRAFT" \notin e.mode => Known(c, e) /\ Before(c, q, e.nband - 1)
      BY <1>5, <1>6
    <2> QED
      BY <1>6, <1>7, <2>1, BandGiven
  <1>10. app'.asked = no
    BY <1>2
  <1> HIDE DEF no
  <1> QED
    BY <1>2, <1>8, <1>9, <1>10, PageTo

\* A page that ends without an error is complete.
LEMMA EndComplete ==
  ASSUME Inv, PageInv, LaterBand, app'.pc = "doc", "DRAFT" \notin dc.mode
  PROVE  Complete(app.content, queue'.page)
  <1> DEFINE w == World
             n == dc.nband
             c == app.content
             asked == app.asked
             todo == app.todo
  <1>1. /\ w \in Worlds /\ n = w.dc.nband /\ n \in 1 .. NumBands + 1
        /\ BandOK(w.dc, w.queue.page) /\ NumBands \in Nat \ {0}
        /\ PageOK(c, w.dc, w.queue.page, asked, todo) /\ todo = {} /\ (c.info => asked)
        /\ c \in Content /\ c.grx \subseteq Bands /\ c.vector \subseteq Bands
        /\ "DRAFT" \notin w.dc.mode
    BY WorldInPage, WorldIs, HpJobAssumption DEF LaterBand, Sound, PageInv, Content
  <1> HIDE DEF c
  <1>0. w = World /\ n = dc.nband /\ c = app.content /\ app'.pc \in {"page", "doc"}
    BY DEF c
  <1> HIDE DEF w, n
  <1>r. PICK r : Stepped(w, n, r) /\ Goes(c, r)
    BY <1>0, LaterStep
  <1>2. Stepped(w, n, r) /\ queue' = r.w.queue /\ ~r.rect
    BY <1>r DEF Goes
  <1> HIDE DEF asked, todo
  <1> DEFINE v == r.w
             q == v.queue.page
  <1>3. /\ SameJob(w, v) /\ BandSent(w, n, v)
        /\ n > NumBands \/ Stops(w.dc, n) \/ ~Needs(w.dc, n)
    BY <1>2 DEF Stepped
  <1> HIDE DEF v
  <1>4. CASE n = 1 /\ ~Needs(w.dc, n)
    <2>1. \A item \in Items : Handled(c, w.dc, w.queue.page, item)
      BY <1>1 DEF PageOK, Told
    <2>2. Handled(c, w.dc, w.queue.page, "graphics") /\ Handled(c, w.dc, w.queue.page, "vector")
      BY <2>1 DEF Items
    <2>3. "ANYGRX" \notin w.dc.mode /\ ~w.dc.gdiText
      BY <1>4 DEF Needs, Scaled
    <2>4. c.grx = {} /\ c.vector = {}
      BY <1>1, <1>4, <2>2, <2>3 DEF Handled
    <2> QED
      BY <1>2, <2>4 DEF Complete, c
  <1>5. CASE ~(n = 1 /\ ~Needs(w.dc, n))
    <2>1. ~Stops(w.dc, n)
      BY <1>1, <1>5 DEF Stops
    <2>2. n > NumBands
      <3>1. CASE n > 1
        <4>1. Known(c, w.dc)
          BY <1>1, <3>1 DEF PageOK
        <4>2. Needs(w.dc, n)
          BY <3>1, <4>1 DEF Known, NeedsBands, Needs, Scaled
        <4> QED
          BY <1>3, <2>1, <4>2
      <3> QED
        BY <1>1, <1>3, <1>5, <2>1, <3>1
    <2>0. n > 0 /\ n = w.dc.nband
      BY <1>1
    <2>3. Known(c, v.dc) /\ Before(c, v.queue.page, n)
      BY <1>1, <1>3, <2>0, <2>1, BandDone
    <2>4. \A b \in c.grx \cup c.vector : b < n
      BY <1>1, <2>2 DEF Bands
    <2>5. Complete(c, v.queue.page)
      BY <2>3, <2>4 DEF Before, Complete
    <2>6. queue'.page = v.queue.page
      BY <1>2 DEF v
    <2> QED
      BY <2>5, <2>6 DEF c
  <1> QED
    BY <1>4, <1>5

LEMMA FirstBandPage == Inv /\ PageInv /\ FirstBand => PageInv'
  <1> SUFFICES ASSUME Inv, PageInv, FirstBand, app'.pc = "page"
               PROVE  PageInv'
    BY DEF PageInv
  <1>1. PICK c \in Contents, start, full, wrote, end \in BOOLEAN :
          NextBand(c, start, full, wrote, end)
    BY DEF FirstBand
  <1> DEFINE w == World
             n == dc.nband
             r == BandStep(w, n, start, full, wrote, end)
  <1>2. /\ w \in Worlds /\ w.queue.state # "none" /\ OwnBuffer(w.dc) /\ n = 0 /\ n \in Places
        /\ dc.doc = 1 /\ w.dc = dc /\ app \in Apps
        /\ start \in BOOLEAN /\ full \in BOOLEAN /\ wrote \in BOOLEAN /\ end \in BOOLEAN
    BY WorldIs DEF Inv, FirstBand, Phase, InDoc, Sound, OwnBuffer, Places
  <1>3. r = Step(start, full, wrote, end)
    BY <1>2 DEF Step
  <1> HIDE DEF n, w
  <1>a. r = BandStep(w, n, start, full, wrote, end) /\ n \in Places /\ n = 0
    BY <1>2
  <1>b. w \in Worlds /\ w.queue.state # "none" /\ OwnBuffer(w.dc)
        /\ start \in BOOLEAN /\ full \in BOOLEAN /\ wrote \in BOOLEAN /\ end \in BOOLEAN
    BY <1>2
  <1> HIDE DEF r
  <1>5. Opened(w, r)
    BY <1>a, <1>b, FirstStepIs
  <1>6. r.w.dc.nband = 1
    BY <1>2, <1>5 DEF n, Opened
  <1>g. Goes(c, r)
    BY <1>1, <1>2, <1>3, NextBandTodo
  <1>7. /\ dc' = r.w.dc /\ queue' = r.w.queue /\ app'.content = c /\ app'.asked = FALSE
        /\ app'.todo = IF c.info THEN {} ELSE Todo(c, r.w.dc.nband - 1, TRUE, TRUE)
    BY <1>g DEF Goes
  <1> DEFINE e == r.w.dc
             q == r.w.queue.page
             no == FALSE
             todo2 == IF c.info THEN {} ELSE Todo(c, e.nband - 1, TRUE, TRUE)
  <1>8. /\ dc' = e /\ queue'.page = q /\ app'.content = c /\ app'.asked = no
        /\ app'.todo = todo2 /\ e.nband = 1
        /\ todo2 = IF c.info THEN {} ELSE Todo(c, e.nband - 1, TRUE, TRUE)
    BY <1>6, <1>7
  <1> HIDE DEF e, q, todo2
  <1>9. PageOK(c, e, q, no, todo2)
    <2>1. e.nband \in Int
          /\ (e.nband > 1 /\ "DRAFT" \notin e.mode => Known(c, e) /\ Before(c, q, e.nband - 1))
      BY <1>8
    <2> QED
      BY <1>8, <2>1, BandGiven
  <1> HIDE DEF no
  <1> QED
    BY <1>8, <1>9, PageTo

-----------------------------------------------------------------------------
LEMMA PagePc ==
  ASSUME ~KeepsDC, Inv, StartDoc \/ StartDocNoMemory \/ EndDoc \/ AbortDoc \/ NewDevice
                     \/ BandRefused \/ DraftMode \/ EnableDuplex
  PROVE  app'.pc # "page"
  <1>1. app \in Apps
    BY DEF Inv
  <1>2. CASE StartDoc
    <2>1. PICK opens \in BOOLEAN :
            app' = [app EXCEPT !.pc = IF opens THEN "doc" ELSE @, !.docs = @ + 1,
                               !.content = NoContent]
      BY <1>2 DEF StartDoc
    <2> DEFINE pc == IF opens THEN "doc" ELSE app.pc
    <2>2. app' = [app EXCEPT !.pc = pc, !.docs = @ + 1, !.content = NoContent]
      BY <2>1
    <2>3. pc # "page"
      BY <1>2 DEF StartDoc, MayPrint
    <2> HIDE DEF pc
    <2> QED
      BY <1>1, <2>2, <2>3 DEF Apps
  <1>3. CASE EndDoc
    <2> DEFINE pc == IF app.pc = "failed" THEN app.pc ELSE "nodoc"
    <2>1. app' = [app EXCEPT !.pc = pc] /\ pc # "page"
      BY <1>3 DEF EndDoc
    <2> HIDE DEF pc
    <2> QED
      BY <1>1, <2>1 DEF Apps
  <1>4. CASE AbortDoc \/ BandRefused
    BY <1>1, <1>4 DEF AbortDoc, BandRefused, GivesUp, Apps
  <1>5. CASE NewDevice
    BY <1>1, <1>5 DEF NewDevice, Apps
  <1>6. CASE DraftMode \/ EnableDuplex \/ StartDocNoMemory
    BY <1>6 DEF DraftMode, EnableDuplex, StartDocNoMemory, MayPrint
  <1> QED
    BY <1>2, <1>3, <1>4, <1>5, <1>6

LEMMA NextPage == ~KeepsDC /\ Inv /\ PageInv /\ [Next]_vars => PageInv'
  <1>1. PageInv /\ UNCHANGED vars => PageInv'
    BY DEF vars, PageInv, PageOK, Known, NeedsBands, Before, Told, Handled, InBitmap
  <1>2. app'.pc # "page" => PageInv'
    BY DEF PageInv
  <1> QED
    BY <1>1, <1>2, PagePc, FirstBandPage, LaterBandPage, BandInfoPage, OutputPage, PixelPage,
       ExtTextOutPage, DeviceDataPage
       DEF Next

\* A step from a page to the time between two pages ends the page.
LEMMA StepComplete ==
  ASSUME ~KeepsDC, Inv, PageInv, Next, app.pc = "page", app'.pc = "doc",
         "DRAFT" \notin dc.mode
  PROVE  Complete(app.content, queue'.page)
  <1>1. app \in Apps
    BY DEF Inv
  <1>2. CASE LaterBand
    BY <1>2, EndComplete
  <1>3. CASE BandInfo \/ Output \/ Pixel \/ ExtTextOut \/ DeviceData
    BY <1>1, <1>3 DEF BandInfo, Output, Pixel, ExtTextOut, DeviceData, Sent, Apps
  <1>4. ~FirstBand /\ ~StartDoc /\ ~StartDocNoMemory /\ ~EndDoc /\ ~NewDevice /\ ~DraftMode
        /\ ~EnableDuplex
    BY DEF FirstBand, StartDoc, StartDocNoMemory, MayPrint, EndDoc, NewDevice, DraftMode,
           EnableDuplex
  <1>5. ~AbortDoc /\ ~BandRefused
    BY <1>1 DEF AbortDoc, BandRefused, GivesUp, Apps
  <1> QED
    BY <1>2, <1>3, <1>4, <1>5 DEF Next

\* A page that ends without an error has all its graphics, the text that GDI draws and
\* the background of opaque text, also when the application sends in each band only what
\* BANDINFO tells it (NEXTBAND, BANDINFO, Pixel, ExtTextOut).
THEOREM JobPageComplete == ASSUME ~KeepsDC PROVE Spec => PageComplete
  <1> DEFINE Ends == app.pc = "page" /\ app'.pc = "doc" /\ "DRAFT" \notin dc.mode
                       => Complete(app.content, queue'.page)
  <1>1. Init => PageInv
    BY DEF Init, PageInv
  <1>2. Spec => []Inv
    BY JobInv
  <1>3. Inv /\ PageInv /\ [Next]_vars => PageInv'
    BY NextPage
  <1>4. Inv /\ PageInv /\ [Next]_vars => [Ends]_vars
    BY StepComplete
  <1>5. Spec => [][Ends]_vars
    BY <1>1, <1>2, <1>3, <1>4, PTL DEF Spec
  <1> QED
    BY <1>5 DEF PageComplete

=============================================================================
