# Verification of the Windows 3.0 driver kit sources

TLA+ models of the drivers in `src/`, the TLC runs that check them on small
instances, and TLAPS proofs of their main invariants. `PROJECT.json` lists the
components, the runs, the hazards and which source lines each definition models.

## The system

The kit is a collection of 16-bit drivers and 32-bit virtual devices, most of them
in assembly language and the printer drivers in C. Most of its lines move data:
bit-block transfers of the display drivers, metrics and tables of fonts, keyboard
tables, dialogs. The logic that is hard to test is in two kinds of parts: those that
are driven by interrupts or shared by virtual machines, and those that keep a belief
about a device over many calls and send only what they think it lacks.

| Part | State | Operations | Interacts with | Hard behaviour |
|---|---|---|---|---|
| COMM.DRV, a serial port (`comm/ibmint.asm`, `ibmcom1.asm`, `ibmcom.asm`) | the `ComDEB` block: receive and transmit rings, handshake flags, errors, events, shadows; the 8250 | `CommInt` with its four services, `FakeCOMInt`, `$SNDCOM`, `$RECCOM`, `$SNDIMM`, `$SETCOM`, `$FLUSH`, `$EXTCOM`, ... | the UART and its interrupt; the peer at the other end of the line | the interrupt preempts every entry point; a software interrupt is forced inside another; flow control in both directions |
| PAGESWAP with VHD (`pageswap/`, `vhd/`) | slots of the page file, a hash of pages, dirty marks; the state of one INT 13h | page in, page out, create, destroy, grow, write at idle | the pager; DOS and the BIOS below | paging inside DOS; a write in flight when its page is wanted |
| HPPCL, a print job (`printers/hppcl/src/control.c`, `stubs.c`, `utils.c`) | the `DEVICE` of a device context: job, band, mode of the page, pages, spool buffer | `STARTDOC`, `NEXTBAND`, `BANDINFO`, `ENDDOC`, `ABORTDOC`, `DRAFTMODE`, drawing calls, `myWrite` | GDI and the application above, the spooler below | any spooler call may fail, at any moment; an abort between two bands; two sides of the paper |
| HPPCL, soft fonts (`memoman.c`, `fontutil.c`, `physical.c`) | the font summary (`LRUcount`, `onPage`), counters of memory and fonts | `LoadFontString`, `DownLoadSoft`, `UnloadSofts`, `ScanSofts`, `UpdateSoftInfo` | the printer's memory; other device contexts with the same summary | a full printer; a font of the page in work; a new document |
| HPPCL, a page of graphics (`paper.c`, `dump.c`, `dumputil.a`) | the band, the bitmap, what the driver believes of the cursor | `NEXTBAND`'s geometry, `dump`, `SetX`, `SetY`, `FindBitStrips` | the printer's cursor | rounding to decipoints; skipped bands; short last band |
| HPPCL, justified text (`control.c`, `physical.c`) | two `JUSTBREAKREC`s of the device and their copies | `SETALLJUSTVALUES`, `CalcBreaks`, `GetJustBreak`, `str_out` | the application, which prints a line in runs | remainders of negative numbers; state over calls |
| PSCRIPT (`printers/pscript/graph.c`, `text.c`, `mgesc.c`, `charpath.c`, `control.c`, `dibtodev.c`, `res/*.ps`) | what the driver believes to be selected in the printer: pen, brush, colors, fonts, procedures, clipping, path | drawing calls of GDI, escapes for pages, documents, paths, clips and line ends | the PostScript interpreter, whose save and restore undo what was sent | a belief that outlives what it is about: a page, a clip, a document, a procedure of the same name |
| COMM.DRV, opening and closing (`$INICOM`, `$TRMCOM`, `COM_IRQ3`, `COM_IRQ4`, `Suspend`, `Reactivate`) | four block pointers, user counts of two IRQs, masks of the 8259 | open, close, IRQ dispatch, change of session | the interrupt controller, the BIOS data area | failure half way through an opening; shared IRQ |
| VDMAD (`vdmad/`) | per channel and VM: region, mask, lock; the DMA buffers | lock and unlock, request and release a buffer, mask and unmask | virtual machines that program a DMA controller; time-outs | a buffer that is busy; completion observed by polling |
| VKD (`vkd/`), SOUND.DRV (`sound/`) | hot keys and keys simulated; note queues | hot keys, INT 9, paste; queue, start, stop | the focus VM; the timer interrupt | time-out against a late acknowledge; queue limit against the interrupt |
| MOUSE.DRV, KEYBOARD.DRV, MSNET.DRV, EBIOS, VDDs, grabbers | decoders, tables, register files | | | mostly sequential |
| FINSTALL, dialogs and font summary files of HPPCL, display, fonts, setup, tools, tests | files, list boxes, bitmaps | | | data movement and dialogs |

What makes each part correct:

- a serial port: its rings are queues; the transmitter is armed whenever it may
  send; a peer it has stopped is released again; errors and losses are reported;
- PAGESWAP: a page read is the page last written; a slot has one owner;
- a print job: a page that ends without error is complete and in place; no byte of
  one job reaches another; the spooler is called in order whatever failed;
- soft fonts: a string is printed in its font; a font of the page stays; the
  printer's memory is never overdrawn;
- a page: each dot comes out once, at its place; bands join;
- justified text: the dots asked for are spread exactly and evenly;
- PSCRIPT: what is painted is what GDI asked for, although only differences are sent;
- opening and closing: an interrupt finds the block it belongs to or none; the
  8259 is as it was before when the last user closes;
- VDMAD: a physical page is locked as often as it is used; a buffer has one owner.

## Plan

Done: `ComPort` with `ByteQueue`, `PageSwap`, `HpJob`, `HpFonts`, `HpPage`,
`HpJust`, `PsState` with `PsRun`; theorems about all of them.

Left, in this order:

1. `ComOpen`: opening and closing over several ports, two IRQs and the 8259, with
   the failure exits of `$INICOM`.
2. `Vdmad`: virtual channels of several VMs over one physical controller.
3. The composition of `HpJob` and `HpFonts`: they share the state of the job, which
   `HpFonts` reduces to three values.

## The serial port

### Modules

- `ByteQueue` is what a ring promises: a bounded queue, from which characters
  leave at the head, which they enter at the tail, or which is emptied.
- `ComPort` is the driver, the 8250 and the peer.
- `MCComPort` names the settings of the runs.
- `ComPort_proofs` holds the theorems.

### State and steps

The variables keep the names of `ComDEB` (`ibmcom.inc`). `HSFlag` is the set of
the handshake bits that are set. The two rings are records `rx` and `tx` with the
buffer, its get and put index and its count; `uart` is the 8250 (receiver,
holding register `thr`, shift register `tsr`, interrupt enable `ier`, the latched
transmitter interrupt `thrint`, error bits, the modem line that permits us to
send and its delta bit, and `mcr`, our own line). `peerStop` is true after the
peer has sent XOFF, `peerHeld` after ours has reached it.

The driver runs on one processor. Code between `cli` and `sti` is one action. An
entry point with several such sections is several actions, and `pc` says which
comes next; between them the interrupt may be taken. While the interrupt routine
runs (`inISR`) the application does not, but the UART and the peer do: an action
of the interrupt is one pass of `InterruptLoop`. `FakeCOMInt` is `Kick` followed
by a pass with `ForcedInt` set, as in the code. Reading the line status register
clears its error bits wherever the code reads it.

| Actions | Code |
|---|---|
| `CommInt`, `CommIntExit` | entry and end of `CommInt` |
| `LineStat`, `ModemStatus` | the procedures of those names |
| `RxOverflow` ... `RxQueue` | `DataAvail`, one action per way through it |
| `XmitBusy` ... `XmitQueue` | `XmitEmpty`, one action per way through it |
| `SndTimeout`, `SndFull`, `SndStore`, `SndQueue`, `SndForce`, `SndCall` | `$SNDCOM` |
| `RecCall`, `RecTest`, `RecLines`, `RecErr`, `RecGet`, `RecDec` | `$RECCOM` |
| `TrmCom`, `TrmWait`, `TrmDrain` | `$TRMCOM` and `Terminate` |
| `IniCom`, `IniDone` | the end of `$INICOM`, for a port closed before |
| `SndImm`, `FlushRx`, `FlushTx`, `SetQue`, `StaCom`, `EvtGet`, `SetBrk`, `ClrBrk`, `ExtCom_FN1` to `ExtCom_FN4`, `SetCom` | the entry points of those names |
| `TsrLoad`, `TsrDone`, `PeerSend`, `PeerLine` | the hardware and the peer, not in `src/` |

Abstractions: characters are members of a small set; parity masks, segment
addresses and the DOS extender's two views of a queue are left out; the event mask
is a constant and is applied when an event is flagged, not when the interrupt
ends, which only the application could tell apart; CTS stands for the three lines
that can permit transmission and DTR for the two that can be dropped. `$SETCOM`
is called with the flags the port already has.

### Runs

| Run | Bounds | Shows |
|---|---|---|
| `com_flow` | receive queue of 3 with XOFF at 2 and XON at 0, transmit queue of 1; `$SNDCOM`, `$SNDIMM`, `$RECCOM`, `$EXTCOM` 3 and 4; the peer sends data, XON and XOFF | `TypeOK`; `TxArmed`: whenever the transmitter may send, an armed interrupt will make it; `PeerRemembered`: a peer whose last order was XOFF is known to need an XON; `FlowLossReported`: the two sides disagree on who is stopped only if an overflow was reported |
| `com_live` | queues of 1; CTS moves | `QueueDrains` and `PeerReleased` under fairness, and `TxArmed` when CTS stops and restarts us |
| `com_rx` | queue of 2 with DTR flow control, parity errors and overruns, NUL, EOF and the replacement character; flush, `$SETQUE`, `$SETCOM`, closing and reopening | `RxIsQueue`: the ring implements `ByteQueue`; `PeerRemembered` for the lines |
| `com_tx` | queue of 2 with two kinds of characters, ETX/ACK with a mark every 2; breaks, flush, closing and reopening, CTS time-out | `TxIsQueue` |

The bounds let every queue be empty, partly filled, at its threshold, full and
overrun, and wrap around. XOFF and XON points differ, so both directions of flow
control cycle. A second receive queue size or a third character adds states and no
new way through the code; the theorems cover all sizes. Deadlock is checked in all
runs: the line can always move.

### Fairness

`FairSpec` assumes that the UART transmits (weak fairness of `TsrLoad` and
`TsrDone`), that an interrupt that is raised is served (weak fairness of
`Interrupt`) and that an entry point that was called goes on (strong fairness of
`Continue`, since interrupts disable it again and again). Nothing is assumed of
the application or of the peer. Two assumptions stand in the properties:
`InterruptEnds` says that the interrupt routine is left again and again, which
holds if a character takes longer than the passes it causes; and `PeerReleased`
assumes that the application polls and gets past the errors that `$RECCOM`
returns in place of characters (`Polls`). `QueueDrains` excepts immediate
characters, which always go first.

### Proofs

For every size of the queues, every set of characters and all settings:

- `PortTypes`: `Spec => []TypeOK`. `TypeOK` is not inductive: `$RECCOM` subtracts
  from a count it tested in an earlier step and `$SNDCOM` adds to one. `TInv` adds
  that the receive queue is not empty at `rec_dec` and the transmit queue not full at
  `snd_queue`; the interrupt only adds to the first and only takes from the second.
- `PortTxArmed`: `Spec => []TxArmed`, for a port without DTR or RTS flow control
  and an application that calls neither `$CLRBRK` nor `$SETCOM`. The inductive
  invariant `AInv` adds to `TInv` that a character in `thr` has its interrupt
  enabled, that an enabled interrupt with `thr` empty is latched (`ThrInv`), that
  whatever may be sent has the interrupt enabled, that a forced interrupt is pending
  only inside the interrupt or just before `$SNDCOM` calls it (`WorkInv`), and that
  all this survives closing and reopening. Every step that gives the transmitter
  something to send ends in `Kick` (lemma `Kicked`) or gives it nothing new (lemma
  `Kept`). The excluded cases are real (see the known divergences), and
  raising DTR in `$RECCOM` without a `Kick` is the third.
- `PortRemembersPeer`: `Spec => []PeerRemembered`, for a port that stays open and an
  application that does not lower the line itself. The inductive invariant `PInv`
  adds to `TInv` that a peer which has our XOFF, or will have it when the
  transmitter is done, is recorded in `HSFlag` (`HeldInv`), and that a line we
  dropped is recorded as dropped (`LinesInv`). Closing is excluded because
  `$TRMCOM` turns the interrupts off before the XON it asked for has left, and
  `$EXTCOM` 4 because it lowers DTR without touching the flag.

- `PortRxIsQueue` and `PortTxIsQueue`: `Spec => RxIsQueue` and `Spec => TxIsQueue`, the
  refinements of `ByteQueue`. The queue of a ring is the sequence that is read from its get
  index on, round the end. The inductive invariants `RxInv` and `TxInv` add to `TInv` that the put index is the get index plus the count, modulo the size.
  Two moments are exceptions: `$RECCOM` passes over a character in one section and counts
  it in the next (`Taken`), and `$TRMCOM` sets the count alone to zero (`Closing`). `TxInv` also
  says that only characters of the application are held. One lemma says what a ring holds
  after a character was put, one what it holds after one was taken; an action that does
  neither leaves the queue, or empties it.

- `PortHearsPeer`: `Spec => []FlowLossReported`. What the driver will think of the peer once it
  has read its receiver (`Heard`: the character there, if it is XON or XOFF, else the flag) is what the
  peer sent last, unless an overflow of the receive queue is reported (`HeardInv`). A character in the
  receiver is never overwritten without an overrun error, and the hypotheses (`HearsFlow`) say when
  that cannot take a flow-control character: there are no overruns (`OR`), a parity error does not replace the
  character, the end-of-file character is neither XON nor XOFF, and the host answers XON/XOFF
  and not ENQ or ETX. The calls that clear the reported errors or the flag itself (`$STACOM`,
  `$SETCOM`, `$TRMCOM`, `$EXTCOM` 1 and 2) are excluded, since the property is about what has been reported so far.

The assumptions on constants are `QueueAssumption` (sizes are positive and the XOFF
limit is below the receive queue's size, so that the unsigned subtraction that
computes `XOffPoint` does not wrap), `CharAssumption` (XON and XOFF differ from
each other and from data, `NoChar` is not a character) and `SettingsAssumption`.

Liveness under fairness is out of the prover's reach and stays with TLC.

### Known divergences

Four sentences of the sources are not kept by the code. The model has the behaviour;
no property of the runs above asks for the sentence.

1. A forced pass of `XmitEmpty` that finds the holding register full takes the exit for
   an empty queue (`XmitBusy`): `EV_TxEmpty` is flagged with characters queued, and the
   code that should disarm the transmitter touches the modem status register.
2. `$CLRBRK` does not restart the transmitter, which its header promises (`ClrBrk`).
3. `$SETCOM` turns the transmitter interrupt off with characters queued, although its
   header says queues and interrupts are not affected (`SetCom`).
4. Testing THRE clears receive errors that are still unsaved (every action that reads
   the line status register).

2 and 3 are why `com_flow` and the theorem `PortTxArmed` leave out `$CLRBRK` and
`$SETCOM`.

## The page file

### Modules

- `PageSwap` is the device of `pageswap/pageswap.asm`, with as much of the memory
  manager, of the disk and of programs as calls it or is called by it.
- `MCPageSwap` names the settings of the runs.

### State and steps

`file` is the table of slots: the links of `PS_Next_Entry_Base`, the heads of the hash
chains and of the free list (`first`), the page entries (`entry`) with their
`PSF_Recent_Swap_In` bit (`recent`), and the counters. Links are kept as links: both
kinds of list run through the same array in the code, and whether they stay apart is
a property and not an assumption. `buffer` is the one buffer for writes with the slot
it is going to, `ioSem` the semaphore of the disk, `idleFlags` is `PS_Idle_Flags`.
Contents are tokens: page number `p` in a frame, in the buffer or on the disk stands for
what was last written to page `p`, `Garbage` for all else, so that a write makes every
older copy `Garbage`.

A virtual device is not preempted. It gives way where it calls DOS or the BIOS or waits
for the disk; an action is the code between two such places and `pc` says where the
holder of the critical section is. Other virtual machines then write to their memory,
ask for more and give it back.

| Actions | Code |
|---|---|
| `TestCreate`, `Reallocate`, `GrowFile`, `GrowFileDone` | `PageSwap_Test_Create`, `PageSwap_Create` and `PageSwap_Grow_File` |
| `Destroy` | `PageSwap_Destroy` |
| `InIgnore`, `InRead` | `PageSwap_In`, without and with a read |
| `OutIgnore`, `OutClean`, `OutAgain`, `OutNew`, `OutVictim`, `OutNoVictim` | `PageSwap_Out`, one action per way through it |
| `DiskWrite`, `DiskRead`, `DiskWoken` | `PageSwap_Read_Or_Write` to the hardware |
| `DosWritten`, `DosRead`, `DosError` | the same through DOS or the BIOS, and the end of its caller |
| `VHDWritten`, `VHDRead` | the disk, then `PageSwap_VHD_Call_Back` |
| `IdleFewDirty`, `IdleStart`, `IdleAgain`, `IdleStop` | `PageSwap_Idle` |
| `Write` | a program |

The memory manager is not in `src/`. It is taken to do what the services are documented
to be called for: it pages out when no frame is free, clears the dirty bit before the
call, restores the page if the call fails, and does not change a handle while one of its
pages is transferred. Left out: the five seconds between two tests for dirty pages and the
flag that shortens them, the share of dirty pages that makes idle writing begin (any
dirty page may), fixed and zero-initialised pages, retries of the BIOS.

### Runs

| Run | Bounds | Shows |
|---|---|---|
| `ps_file` | three pages, a hash of two buckets, two frames, a file of one slot that may grow to two (or to nothing, if the disk is full) or a partition of two slots; reads may fail | `MemoryKept`: every page holds what was last written to it, wherever it is; `SlotsPartition`: every slot is on one list, pages have one slot, the free count is right; `FreshSlotsFree`: the search for a slot's own place ends; `TypeOK` |
| `ps_direct` | the same, a partition used by the direct disk driver | `MemoryKept` with the buffered write; `PagerReturns` under fairness |

With more pages than frames and than slots, every exit of `PageSwap_Out` is taken; two
of the three pages share a bucket, so chains have length two and are cut at their head and
at their end; one handle of two pages can be shrunk, so a page goes while its neighbour
stays. `Overcommit` is 1, so that a victim is sometimes not found. At most one DOS error
occurs in a run (`MaxErrors`), because `PS_DOS_IO_Count` is never taken back after one.

`Fairness` assumes that DOS, the BIOS and the disk answer (`Transfer`, `VHD`) and that
`_PageOutDirtyPages` reaches the last page. Nothing is assumed of programs.

### Known divergences

1. A page is entered in the hash before it is written, and stays there if the write
   fails. A clean page that had lost its slot to a victim search is then discarded at the
   next attempt as if it were in the file: with writes that fail (`"write"` in `Errors`)
   `MemoryKept` does not hold.
2. `PSC_Move_Loop` looks for the first page of the new place, again and again, instead of
   the pages of the old place: after a move (`Moves = TRUE`) no page is found.

The runs leave out both, and check everything else with them away.

### Proofs

`PageSwap_proofs`, for any number of pages, slots, buckets and frames, any handles that
programs ask for, every way to the disk:

- `PageTypes`, `PageSlots`, `PageFresh`: `TypeOK`, `SlotsPartition` and `FreshSlotsFree`, for
  handles that do not move (`~Moves`), whatever transfers fail;
- `PageMemory`: `MemoryKept`, for handles that do not move and writes that do not fail.

The two hypotheses are the two divergences above: without the first the table of slots is
wrong, without the second a page is. The run `ps_file` has both hypotheses too; that the
table survives writes that fail is proved only.

`From(next, s)` is the least set that holds `s` and is closed under the links. That is all
the proofs use of it: a set closed under the links contains the list that starts in it
(`FromLeast`), links that agree on a list give the same list (`ChainAgree`), a list is its
head and the list behind it (`FromStep`), and taking the links of a slot away or putting a slot
in front gives the list without the slot or with it (`CutChain`, `PutFirst`). `FileOK` says that the
lists are disjoint and without loops (`Tidy`), hold the slots below the end of the file and no
others (`Listed`), and that the chains hold the right pages, each once (`Hashed`). It is kept
by every operation on the table: `FreePageIs` and `FreePagesIs`, `TakeSlotIs`, `FreeVictimIs`,
`GrownIs`. Each of these also says which slots are in use afterwards; the rest of the proof
knows the table only by that.

`Structure` is the inductive invariant for the first three: `FileOK`; the handles do not overlap
and what is present, dirty or in the file belongs to one (`Pages`); a request is for memory that
is free, or for less of a handle that exists (`Asked`); a page being transferred is alive and
its slot is its own (`Working`); the token of `PS_Disk_IO_Sem` is gone exactly while the buffer or
a read is out, and nothing waits in the buffer when DOS or the BIOS is used (`Devices`). The reason for
`Asked` is that the critical section is given up between the test and the creation: what was
tested must still be free. `Kept` adds where the contents of a page are: in memory while it is
present or being written, else in the slot it has, or in the buffer that is on the way there;
a page that was ever dirty and is not in memory has a slot. There is one lemma for each action
that both survive it.

## HPPCL, the LaserJet driver

Four modules, one for each question that is separate in the code. `HpJob` and
`HpFonts` see the same escapes: `HpJob` has the calls of the spooler and every way they
fail, `HpFonts` has one `doc` with three values and the fonts. `HpPage` is one page of
graphics as `NEXTBAND` and `dump` send it, `HpJust` one line of text. The spooler, the
printer, GDI and the application are external.

### The job (`HpJob`)

`dc` is the `DEVICE` structure: `doc` is `epDoc` (1, 0 or an error), `job` is `epJob`,
`nband` is `epNband`, `mode` the bits of `epMode`, `buf` the documents whose bytes are in
`epSpool`. `queue` is the spooler's job and the page the printer gets. A call of the
spooler is an operator on the pair of both with its answer as argument; actions choose
all the answers. An error sticks: a job that has answered with one does so again.

| Actions | Code |
|---|---|
| `FirstBand`, `LaterBand`, `BandRefused` | `NEXTBAND`, as one step with the page it starts, the band it sends and the page it ends (`BandStep`, `StartPage`, `SendBand`, `EndPage`, `AbortJob`); `BandRefused` is the call with no document or after an error |
| `BandInfo` | `BANDINFO` |
| `Output`, `Pixel`, `ExtTextOut`, `DeviceData` | `stubs.c`, `physical.c`, the `DEVICEDATA` escape |
| `StartDoc`, `StartDocNoMemory`, `EndDoc`, `AbortDoc`, `NewDevice`, `DraftMode`, `EnableDuplex` | the escapes, `Disable` and `Enable` |

`hp_job` runs two documents of up to two pages of three bands, with 18 kinds of contents,
on every printer and option that matters, with and without BANDINFO.
`BandsInPlace`: each band is printed where it was drawn, also after skipped ones;
`PageComplete`: a page that ends without error has all that it should have; `OwnBytes`:
no byte of one document goes into the job of another; `SpoolCallsLegal`: the driver writes
only inside a page and calls nothing on a job that is closed or deleted, but for the number
that is left in `epJob` (`LeftOver`, divergence 7); `DuplexEven`: a
two-sided job that ends has an even number of sides. Three bands are the least that have a
band between two others; two documents the least where bytes could be left over.
`ABORTDOC` and a `NEXTBAND` that is refused come at any moment: before, in and after a document,
and after every failure. `ENDDOC` comes at any moment but within a page. `KeepsDC = FALSE` says that
an application takes a new DC for its next document after an abort or an error (see the known
divergences for one that does not).

**Proved** (`HpJob_proofs`), for any number of bands and documents,
any printers and options, the actions of the table in any order their guards permit and every answer of the spooler: `JobTypes`,
`JobBandsInPlace`, `JobOwnBytes`, `JobSpoolCallsLegal`, `JobDuplexEven` and `JobPageComplete`, the
six properties of the run, under the hypothesis `~KeepsDC`. The hypothesis is the second divergence
below: with it away `SpoolCallsLegal` is false. The other exception of `SpoolCallsLegal`, `LeftOver`, is the seventh.

The inductive invariant `Inv` is `Sound` (the types, no fault so far, and all that is printed
in its place) and `Phase`: outside a document, in one between two pages, within a page and after a
failure, what the device structure, the spooler's job and the printer are. In each phase it says
whether a page is open and whose bytes may wait in the buffer: that is what makes the calls of the next
escape legal. `BandOK` says that the bitmap holds nothing but the band in work and that the cursor is at that band
unless bands were skipped, `Sided` when a job has both sides. `PageInv` adds for `PageComplete` what of the page was drawn, told to the driver and
handed to the spooler, band by band.

### Soft fonts (`HpFonts`)

`lru` and `onPage` are the fields of the font summary, `dev` the counters of a device
context and `printer` what the printer really holds. The string of one action is the path
through `LoadFontString`: `PrintAgain`, `SelectLoaded`, `Download`, `DownloadOver` (after
`UnloadSofts`), `Substitute`, `NoFileName`. `StartDoc`, `NewFrame`, `StartPage`, `EndPage`,
`WriteFails` and `EndDoc` are what the escapes do to fonts.

`hp_fonts` has four temporary fonts of different sizes, one without a file, one permanent
font, memory for about three and room for two on a page. The counters of the driver drift
(`DownloadOver` gives back the difference of two fonts and subtracts a count twice), so the
bound `LowMem` is part of the model. `FontAsAsked`: a string is printed in its font, or in
Courier after a warning; `PageFontsKept`: a font that the page uses is not deleted;
`PrinterFits`: whatever the counters say, the printer never holds more memory or fonts than
it can.

**Proved** (`HpFonts_proofs`), for any finite set of fonts of any sizes and any limits:
`FontsTypes`; `FontsAsAsked` and `FontsStayOnPage` with one device context (`OneDC`);
`FontsFitPrinter` with one device context and permanent fonts that the printer can hold
(`PermFits`). With two device contexts the first two are false (see the divergences); `PermFits`
is about fonts that were there before the driver came, which it cannot make room for.

The inductive invariant says that the summary and the printer agree: the fonts with a count and a file
are those in the printer; on a page those that were used are marked, and the font selected in the
printer is the one the driver asked for last or Courier after a warning (`Sent`, `Handed`). For the
memory, `Fits` says that the counters are on the safe side of what the fonts of the summary take:
the count is never too small and the free memory never too large, although both drift, and
`MINMEM` stays free. The sum of the sizes is a fold over a
set; that it grows by the size of a font that is added is proved from the defining equation of
the fold by the least counterexample.

### A page of graphics (`HpPage`)

A page with up to three dots in any of the places where the code decides something:
first and last byte of a row, first and last row of a band, both sides of a band's edge. The
raster rows of a band go through `FindBitStrips`, which drops blank bytes, and `SetX`, `SetY`
and the carried rounding error, which move the cursor over them. `paper` is where the
printer's cursor is, in units in which both dots and decipoints are whole.

`hp_page` covers portrait and landscape, two scale factors, positioning in dots and in
decipoints, with and without strips, widths that are and are not whole bytes, and five
ways in which the text band may leave the cursor (`MCTexts`): no text, text that left the paper where
`epCurx` says, and text that did not, with and without a carried error, at a place where a strip or a band
starts and elsewhere. `DotsInPlace` (exact in dots, within one decipoint on
the first LaserJet), `AllPrinted`, `DrawnInBitmap` and `BandsJoin` are checked. `DEPTH`, `BYTE`
and `GAP` are small (4, 2 and 1 for 64 rows, 8 bits and 32 bytes); the code uses them
only as the units that the model keeps.

`str_out` goes to the line of a string by `ymoveto`, which keeps its rounding error. Along the line it
moves relatively, rounds to decipoints on every printer, forgets the error (`physical.c:1015`) and
moves on by the width of the last character after it has set `epCurx` (1012, 1053). `AfterText`
therefore leaves the paper anywhere on that axis, beside any `epCurx` and `epXerr`.

The exceptions in the properties are what the code does: `StripTrail` treats a row with ink
in its first or in its last byte alone as blank (`Unprintable`), the second case without
counting it as a blank row (`Shifts`); relative movements in landscape on the first LaserJet "need
fixing" by the code's own comment. `OnTrust` and `BandOnTrust` are the two places where the driver does not
move because it takes the cursor to be there already: a strip of a row that starts at the `epCurx` that
text left (`dump.c:579`), and in landscape a band that does (`xmoveto`). What is printed there is
off by as much as the text was.

**Proved** (`HpPage_proofs`), for bands, bytes and gaps of any size, any set of printers, papers and
drawings and any place of the cursor after the text: `PageTypes`, `PageInBitmap`, `PageInPlace`,
`PageAllPrinted` and `PageBandsJoin`, the five properties of the run, with no hypothesis but
`HpPageAssumption`: a band is a whole number of words deep (64 dots) and shorter than the page, and a
row has no more strips than `scanbits` has room for (`Fits`). With `POSSIZE = 12` and `GAP = 32` rows of up to
409 bytes fit, which letter, legal and ledger paper have; those of A3 (divergence 9) may not. The
exceptions are those the properties name: `Unprintable`, `Shifts`, `OnTrust`, `BandOnTrust` and the first
LaserJet in landscape.

The two orientations are one argument: `Along` is the axis on which the dots of a row lie and
`Down` the one on which rows follow, each as the position of the paper plus the error that the driver
carries. That sum is twelve times the position that the driver means, after any number of
movements (`MovedX`, `MovedY`), and the error alone is that of one rounding (`SmallErrors`), so that the paper
is never off by more. `Inv` says this between two calls (`PositionOf`); that the bitmap is the
drawing of the band to be sent (`BandsOf`); and that the bands before it are printed (`SheetOf`).
It has to know which of the driver's positions mean anything: a coordinate of -1 does not, and after a
band that was sent the paper is at the start of the next although the driver believes nothing.

A step sends a whole band, so the rest is about `dump`: the strips of a row cover all its bytes with
ink and each is printed with its first byte at the margin (`StripFacts`, `StripsCover`), the rows of
the bitmap are those of the page (`BitmapRowIs`), and rows that were counted as blank are made up for by the next strip or at the end (`RowFacts`, `TrailFacts`).
`SendRow` and `SendRows` are recursive functions; what they compute is shown by taking the least
number of strips, or rows, for which the claim fails.

### Justified text (`HpJust`)

`want` is the application's `SETALLJUSTVALUES`, `dev` the records of the device, `run` the
copies that `str_out` works on, `line` what was put out. `Letter` is one character of `str_out`,
`EndRun` the write-back that only the call for the extent does.

`hp_just` takes five dots over three breaks and less, both signs and zero, on lines of six
characters, cut into runs in every way. `AllSpread`: when as many breaks as announced have passed,
the dots asked for were added, exactly; `SpreadEvenly`: on the way there the sum is never
more than half a dot from the even share; `TypeOK`: the error term of `GetJustBreak` stays between 1
and the count.

**Proved** (`HpJust_proofs`), for every set of numbers of dots (`Extras`, integers), of
counts (`Counts`, naturals) and lines of any length: `JustTypes`, `JustSpreads`, `JustEven`, the
three properties of the run. The only assumption is `HpJustAssumption`, which types the
constants. Integers are unbounded in the proof; the bound on the error shows that its `short`
does not overflow while a count fits one, and the products exist in the proof only.

None of the three is inductive. The invariant `IInv` keeps, for both records, that
`C * extra + rem` is what was asked for (`Shares`), and the equation of Bresenham's line:
`C` times the dots added so far is `k` times what was asked for, plus the error, minus its
middle (`At`). `AfterBreakFacts` shows that one call of `GetJustBreak` takes `At` from `k` to
`k + 1`; at `k = C` the error's range leaves one multiple of `C`, so the sum is exact
(`SmallMultiple`). By word breaks, letters add `extra` and no error; that is the same step because
`SETALLJUSTVALUES` chooses that mode only when the remainder is zero (`AfterLetterFacts`). A run
starts from `At` and gives its error and count back, so the cutting into runs does not matter.

### Known divergences

No run asks for these; the model has the behaviour or excludes it by a constant.

1. `fontman.c:105` shares one font summary among device contexts "because the
   fontSummary struct is used for read-only purposes", and `InitStartDoc`, `UpdateSoftInfo` and
   `UnloadSofts` write to it. With two device contexts (`DCs = {d1, d2}`) the second
   document clears what the first has in its printer, and `FontAsAsked` fails in a few steps.
2. `AbortJob` resets neither the band number nor the buffer. With `KeepsDC = TRUE`, a document
   started on the device context of one aborted within a page goes on with its bands and its bytes, on
   no page: `SpoolCallsLegal` fails.
3. `ENABLEDUPLEX` uses `==` where it means `=`: 2 and values that mean one side are kept as given.
4. When `StartSpoolPage` fails in `ENDDOC`, its negative answer is not zero: the blank page is
   written and ended all the same, on a job that answers with errors only.
5. A font whose file cannot be opened is taken as downloaded: `CopySoft`'s answer is not looked
   at, and later strings select a font that is not there (`NoFile` in `FontAsAsked`).
6. `StripTrail` loses rows with a single inked byte at either end, as said above.
7. `ENDDOC` does not clear `epJob`, and a refused `STARTDOC` leaves its error there (`control.c:487`). `ABORTDOC` at
   any time, and a `NEXTBAND` with no document, hand it to `AbortJob`, which tests for zero only and calls
   the spooler on a job that was never opened or is closed. The actions do so; `SpoolCallsLegal` does not
   count these calls (`LeftOver`).
8. A strip, or in landscape a band, that starts exactly where `epCurx` says that text left the cursor
   is printed where text did leave it (`OnTrust`, `BandOnTrust`).
9. `FindBitStrips` stops at `POSSIZE` strips only after it has stored one more (`dumputil.a:338`): on paper whose
   rows are longer than 409 bytes a thirteenth strip goes past `scanbits` (`Fits`).

`AbortJob` also leaves what it leaves to a document that is started after an error, without an abort; `KeepsDC`
covers both.

## PSCRIPT, the PostScript driver

`PsState` holds the driver's belief beside the truth. `dv` is the `PDEVICE`: the pen, the fill
mode and colors, the font, the slots of soft fonts, the procedures sent (`DLState`), `fDirty`,
the nesting of paths. `gl` is the two globals, `MoveCmd` and `ArcDir`. `pr` is the interpreter:
`vm` (definitions, undone by `restore`), `gs` (undone by `grestore`), the saved states and
whether the page has marks. `app` is the program and `wrong` the set of things that the last call
painted otherwise than GDI asked for.

| Actions | Code |
|---|---|
| `Shape`, `Poly`, `ScanLines` | `Output` in `graph.c`, with `SelectPen`, `SelectBrush`, `FillDraw`, `ClipBox` |
| `ExtTextOut` | `text.c`, with `SelectFont` and `DownLineLoadFont` |
| `Image` | `strchblt.c`, `dibtodev.c`, `StretchDIBits` and `StretchBlt` of a bitmap, row by row through `PsRun` |
| `BltNoMemory`, `DIBNoMemory`, `ProcsUnread` | the error exits of the same: no memory for a row behind the clip box of `StretchBlt`, or before the `save` of `StretchDIB`; a procedure that `DumpResourceString` cannot read |
| `SetLineCap`, `SetArcDirection`, `ClipSave`, `ClipRestore`, `ClipInclusive`, `BeginPath`, `EndPath` | the escapes of `mgesc.c` |
| `NewPage`, `StartDoc`, `EndDocument`, `AbortDoc`, `NewDC` | `control.c`, `enable.c` |
| `FlushFails` | `channel.c`: the spooler refuses a flush, and its error is kept in `fh`; 0 is an error too, and the tests for an open channel take it for one |

`app` also keeps what has gone wrong so far, for the properties to except: `stray` after a clip box was left
behind, `broken` while a path has been cut, `unsent` the soft fonts of the page whose file could not be opened or read
(`ExtTextOut` has `sent` for that), `restored` after `CLIP_RESTORE`, `aborted` after a job that failed.

`PsRun` is the run length code: `RunEncode`, the state machine of `dibtodev.c`, and `Unpack`,
the procedure in `res/rle.ps`. Both are recursive functions over the number of pieces; what the
loops of a run and of a stretch stop at is a least element (`LoopEnd`), and whose byte the last one
is depends on why they stopped (`LastOf`).

`psc_state` runs twelve programs, each a set of calls that disturb one another, over any number
of pages, documents, device contexts and failed jobs. `PaintedAsAsked`: strokes have the color, width and dashes and
areas the color and tile that GDI passed, and the first figure of a path moves and no other; `TextAsAsked`: text has
its font and color, and a soft font is sent once a page; `ClipAsAsked`: everything is clipped
to the box of its call and the path of the application and to nothing left over; `BitmapAsSent`: the
printer unpacks the row that was packed and no byte is left that it would run as a program;
`LastPageOut`: nothing painted is on a page that was not ejected. `TypeOK` has the balance of `gsave`
and `grestore`.

Each property excepts what the code gets wrong, and no more (the numbers are those of the divergences below):

| Property | Except |
|---|---|
| `PaintedAsAsked` | strokes after `CLIP_RESTORE`, or with a clip box left behind (5); tiles on a page that had a bitmap (1); what is painted within a path that was cut (8), and the first figure after one that was cut (7) |
| `TextAsAsked` | fonts after `CLIP_RESTORE`, or with a clip box left behind (5); fonts that could not be read (9) |
| `ClipAsAsked`, `TypeOK` | after `StretchBlt` ran out of memory behind its clip box, until the page and the belief in the box are gone (5) |
| `BitmapAsSent` | nothing: a bitmap whose procedures cannot be read stops the job (10) |
| `LastPageOut` | jobs that fail |

Programs are sets of calls because the belief is a product: all calls at once would only multiply
states that never meet. Every pair of things the driver caches and every call that
destroys one of them is in some program. `ByteSize` is 6, so that runs and stretches reach
their limits (4 and 3 for 129 and 128) in rows of six bytes; the codes use the same expressions
in it. Five fonts, four of them soft with three numbers, share `MAXSOFTFONTS = 2` slots, so that
the array is empty, partly filled and full. Text and bitmaps are not in one program: together they have too many states for
TLC, and so have paths with polygons, which are in paths what polylines are; the proofs cover both. Programs draw only within a document. After a job
that failed they draw nothing until they have ended the document or taken a new device context. What the printer did at the escapes that restore a graphics state
(`CLIP_RESTORE`) is outside the driver's knowledge: dashes and font may be lost after one.

### Finding

`psc_ends`: `NEWFRAME` says "invalidate pens and brushes and fonts" and leaves the line cap, join
and miter limit, although the restore at the end of the page takes them back: from the second
page on lines have butt caps when round ones are believed to be in force. One polyline on two
pages shows it.

### Known divergences

1. `rle.ps` defines `p` as a string over the procedure `p` of the header that sets the pattern of a brush:
   after a bitmap, pattern brushes fail until the page ends (exempted in `FillAsAsked`).
2. `ArcDir` is global and its definition is undone by the end of the page: arcs run the default way
   from the second page on, and a second device context believes what the first has sent.
3. `STARTDOC` resets only the soft fonts: after `ABORTDOC` or a refused job, the same device context
   goes on with pens, brushes and fonts that the new job does not have (excluded by `Uses` and the guard of `StartDoc`).
4. `DownLineLoadFont` clips the index of its 99 slots after the store: the hundredth soft font of a page
   is stored past the array, in the output buffer behind it. `ExtTextOut` of the model stays within
   the slots; the header of the procedure tells users to stay far below.
5. `StretchBlt` leaves by `ERR_EXIT` when it has no memory for a row (`strchblt.c:399`), past the second `ClipBox`
   (545): the page stays clipped and `fIsClipped` stays set, also when the page is ejected, so that the next
   call that wants no box sends a `gr` for a `gs` that is gone (`BltNoMemory`, `stray`).
6. `StretchDIB` sends the `restore` of a `save` that `GrayToDevice` and `ColorToDevice` did not send when they
   had no memory (`dibtodev.c:331`, 479, 603): the interpreter stops and the job is lost (`DIBNoMemory`).
7. `MoveCmd` is global (`mgesc.c:23`), and `Enable` and the end of a page do not reset it: after a page or a device context
   is given up within a path, the first figure is connected to nothing (`broken`).
8. `OS_SCANLINES` paints inside a path too (`graph.c:668`): each line paints the path so far, with whatever is
   selected, and removes it.
9. `DownLineLoadFont` takes the slot before it opens the file (`text.c:846`): a font that cannot be read is
   remembered, and selected later (`unsent`). A file that is read in part is taken as not sent.
10. `DumpResourceString` sets the bit of a procedure before it reads it (`getdata.c:202`), and its answer is ignored: the
    printer gets a name that is not defined, and the job is lost (`ProcsUnread`).
11. A write error of 0 is kept in `fh` as if it were a channel (`channel.c:249`), so that drawing calls and `ENDDOC` go
    on as in a document (`FlushFails`).

### Proofs

`PsState_proofs` proves `TypeOK`, `PaintedAsAsked`, `TextAsAsked`, `ClipAsAsked`, `BitmapAsSent` and
`LastPageOut` for any pens, brushes, draw modes, fonts, rows and programs, any number of slots
and any depth of paths, from what GDI guarantees of its objects (`GDIAssumption`: which fields a
brush of each style has, that a color is not the name of nothing, that rows are of bytes and not
empty).

The argument is what the code relies on and says nowhere. While a job is open, `Holds` relates the
two records field by field: the fill color of the driver is the printer's always (text and
brushes share it); the fill mode only once there is one, for a hollow brush sends nothing and
leaves the old mode in the printer; hatch color and pattern only as far as the mode needs them;
pen width and dashes only while the pen draws, since a pen that draws nothing changes its style in
the driver alone; the soft fonts that are in the printer once are those that have a slot. Dashes and
font are excused after `CLIP_RESTORE` and with a clip box left behind, patterns after a bitmap, and a soft font with a slot is
in the printer once or in `unsent`. `DeviceOK` adds what survives
between jobs: a page that is not dirty has nothing believed (so that `EndDoc` may leave it),
marks are only on a dirty page, and only an aborted job ends with beliefs.
`PathOK` says that `MoveCmd` is `L` exactly when the path has a first figure, unless a path was cut.

Each `Select...` and `Send...` is a lemma about one world `[d, p]`: the part it is about becomes
true, every other part is kept. A clip box is a bracket (`InBox`, `Left`): what `gsave` keeps and the
`grestore` brings back is the same whatever was sent in between, which is why `Image` may define
procedures inside the box in one case and before it in the other. Then one lemma for each action shows
`Inv` and the properties together. TLC checked `Inv` on the instance of `psc_state` first.
It found one mistake in the model: `app.begun` was set by drawing calls that a path refuses, and is now set
with `MoveCmd`, by the figures only.

`PsRun_proofs` proves `RoundTrip`: for every row of bytes, of any length, `RunEncode` sends bytes
of which `Unpack` makes the row again, with none left over. A piece ends within what its count can
say, is of one byte when it is a run, and does not end like a run when it is none (`IsPiece`), so that
the test in the state `TERM`, which looks at the last two bytes only, tells the two apart; the printer
makes of such a piece the bytes it stands for (`PieceRead`). The two recursive functions are then followed piece by piece: after k
pieces the printer has the row as far as the driver had sent it, and the codes left are those that the
driver sent later (`Read`, `ReadNext`). `BitmapAsSent` follows from this and from `ProcsOK`, by which the
procedures are in the printer when a bitmap is sent. The assumption that a byte has at least six
values came out of the proof: the loops begin with two bytes and count before they test, so that with
limits of two they would pass the length a count can say; with 129 and 128 they do not.

`EndsAsAsked` stays with TLC: the code violates it.

## What is proved and what is only checked

| Module | Proved for all constants | Hypotheses | Checked by TLC only |
|---|---|---|---|
| `ComPort` | `TypeOK`, `RxIsQueue`, `TxIsQueue`, `TxArmed`, `PeerRemembered`, `FlowLossReported` | none for the first three; see above for the others | `QueueDrains`, `PeerReleased` |
| `PageSwap` | `TypeOK`, `SlotsPartition`, `FreshSlotsFree`, `MemoryKept` | `~Moves`; no failing writes for the last | `PagerReturns` |
| `HpJob` | `TypeOK`, `BandsInPlace`, `OwnBytes`, `SpoolCallsLegal`, `DuplexEven`, `PageComplete` | `~KeepsDC`; `LeftOver` is excepted in the fourth | |
| `HpFonts` | `TypeOK`, `FontAsAsked`, `PageFontsKept`, `PrinterFits` | `OneDC` for all but the first, `PermFits` for the last | |
| `HpJust` | `TypeOK`, `AllSpread`, `SpreadEvenly` | none | |
| `PsState` | `TypeOK`, `PaintedAsAsked`, `TextAsAsked`, `ClipAsAsked`, `BitmapAsSent`, `LastPageOut` | none; see the table of exceptions | |
| `HpPage` | `TypeOK`, `DrawnInBitmap`, `DotsInPlace`, `AllPrinted`, `BandsJoin` | `Fits`: rows that fit `scanbits` | |

Every inductive invariant was checked by TLC on the instance of its run before it was proved.
A hypothesis is a mode of use that the code does not survive, and the divergence that shows it is
listed with the module; none is there for the sake of a proof.

Liveness under fairness and `ENABLED` are out of the prover's reach and stay with TLC. So does what
needs an induction over data with an operator as its hypothesis; where a function over the numbers was
enough (sums over sets, runs of moved slots, the pieces of a row) the proofs take the least number for which a claim fails.
Fairness is assumed only where it is stated (`com_live`, `ps_direct`); the printer drivers
run only when called, and no liveness is claimed of them.

## Not modelled

The map covers about 6 % of the lines of the C sources, and the assembly of COMM and PAGESWAP.
Much of the rest cannot be modelled in a way that would say anything. `finstall`
(18 000 lines), the dialogs of both printer drivers and the font builder `fontbld.c` are
sequential code that parses files and fills list boxes; the keyboard tables and `.pfm` data are
data; the display drivers, grabbers and fonts move bits; VDDs emulate registers. Their C
lines are most of the kit's. What is left that has logic over many calls, and is
planned, is assembly: opening and closing of ports, VDMAD, VKD, SOUND, MOUSE.

Of the parts that are modelled:

- COMM: `$EVT`, `$EXTCOM` 5 to 7, parallel ports, RLSD and DSR beside CTS;
- PAGESWAP: initialisation, the choice of a swap partition, the system exit, the debugging
  statistics; the services of VHD are stubs in this kit;
- HPPCL: `ENDDOC` and `DRAFTMODE` within a page, copies, `DRAWPATTERNRECT`, escapes that change the environment or return tables, clipping and
  translation in `str_out`, brushes and pens, the compression for the LaserJet IIP;
- PSCRIPT: AppleTalk, errors of single spooler calls, `SAVE_CTM`, `SET_CLIP_BOX`,
  `PASSTHROUGH`, kerning and justification, opaque text, banding, paper and EPS options.

## Running

    tlc -config ComPortFlow.cfg MCComPort      (Rx, Tx and Live likewise)
    tlc -config PageSwapFile.cfg MCPageSwap    (Direct likewise)
    tlc -config HpJob.cfg MCHpJob              (HpFonts, HpPage, HpJust likewise)
    tlc -config PsState.cfg MCPsState
    tlc -config PsStateEnds.cfg MCPsState      (finds the violation)
    tlapm ComPort_proofs.tla                   (every other module X_proofs likewise)

Each run ends within four minutes with two workers, and each module of proofs within ten.
