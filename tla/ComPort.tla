------------------------------ MODULE ComPort ------------------------------
(***************************************************************************)
(* One serial port of COMM.DRV (src/comm): its device equipment block, the *)
(* 8250 UART under it, the interrupt service routine CommInt, and the      *)
(* entry points an application calls ($SNDCOM, $RECCOM, ...).              *)
(*                                                                         *)
(* Interleaving.  The driver is single-threaded code preempted by its own  *)
(* interrupt.  A section between cli and sti is one action; between two    *)
(* such sections the interrupt may be taken.  Inside the interrupt the     *)
(* application does not run, but the UART and the peer do: one action is   *)
(* one pass of InterruptLoop.                                              *)
(***************************************************************************)
EXTENDS Integers, FiniteSets

CONSTANTS
  Data,          \* ordinary characters the application sends
  XONChar, XOFFChar, EOFChar, NulChar, PEChar, EVTChar,
  NoChar,        \* an empty register
  PeerChars,     \* the characters the peer sends
  QInSize, QOutSize, XONLim, XOFFLim,
  Flags,         \* the DCB's Flags and Flags2 that are set
  Calls,         \* the entry points the application uses
  EvtMask,       \* the events it asked for with $EVT
  LineErrors,    \* the receive errors the line can produce
  PeerObeys,     \* the peer honours our XOFF and our dropped lines
  PeerMovesLine  \* the peer moves the line that permits us to send

Char == Data \cup PeerChars \cup {XONChar, XOFFChar, PEChar, NulChar}

FlagNames == {"fInX", "fOutX", "fDTRFlow", "fOutXCTSFlow", "fBinary",
              "fNullStrip", "fPErrChar", "fEnqAck", "fEtxAck", "CTSTimeout"}

CallNames == {"SNDCOM", "SNDIMM", "RECCOM", "STACOM", "EVTGET", "FLUSHRX",
              "FLUSHTX", "SETQUE", "SETBRK", "CLRBRK", "FN1", "FN2", "FN3",
              "FN4", "SETCOM", "TRMCOM"}

EventNames == {"RxChar", "RxFlag", "TxEmpty", "CTS", "Break", "Err"}
ErrorNames == {"RXOVER", "OR", "PE", "BI", "CTSTO", "TXFULL"}

\* The queue count at which the peer is told to stop.
XOffPoint == QInSize - XOFFLim

ASSUME QueueAssumption ==
  /\ QInSize \in Nat \ {0} /\ QOutSize \in Nat \ {0}
  /\ XONLim \in Nat /\ XOFFLim \in Nat
  /\ XOFFLim < QInSize

ASSUME CharAssumption ==
  /\ NoChar \notin Char
  /\ XONChar # XOFFChar
  /\ {XONChar, XOFFChar} \cap (Data \cup {NulChar}) = {}

ASSUME SettingsAssumption ==
  /\ Flags \subseteq FlagNames /\ Calls \subseteq CallNames
  /\ EvtMask \subseteq EventNames
  /\ LineErrors \subseteq {"OR", "PE", "BI"} /\ PeerObeys \in BOOLEAN
  /\ PeerMovesLine \in BOOLEAN

VARIABLES
  HSFlag,        \* handshake flags
  EOFSeen,       \* EFlags.fEOF
  ImmedChar,     \* EFlags.fTxImmed and the character to send at once
  ComErr, EvtWord, MSRShadow, LSRShadow, ForcedInt,
  rx,            \* QInAddr, QInGet, QInPut, QInCount
  tx,            \* QOutAddr, QOutGet, QOutPut, QOutCount, QOutMod
  uart,          \* the 8250's registers
  pc,            \* where the application is in the driver
  inISR,         \* the interrupt is in progress
  FirstAfterBoot,
  peerStop,      \* the peer's last flow-control character told us to stop
  peerHeld       \* our last flow-control character told the peer to stop

debVars  == <<EOFSeen, ImmedChar, ComErr, EvtWord, MSRShadow, LSRShadow>>
cpuVars  == <<pc, inISR, FirstAfterBoot>>
peerVars == <<peerStop, peerHeld>>
vars == <<HSFlag, ForcedInt, rx, tx, uart, debVars, cpuVars, peerVars>>

----------------------------------------------------------------------------
(* Handshake flags (ibmcom.inc).  The ENQ/ACK and ETX/ACK protocols reuse  *)
(* the bits: XOffReceived is EnqSent and EtxSent, XOnPending is AckPending *)
(* and XOffSent is EnqReceived.                                            *)

HSPending  == {"XOffPending", "XOnPending"}
HSReceived == {"XOffReceived", "HHSDown"}
HSSent     == {"XOffSent", "HHSDropped"}
CannotXmit == HSSent \cup HSPending \cup HSReceived \cup {"BreakSet"}
HSNames    == CannotXmit \cup {"Discard"}

AnyOf(S)    == HSFlag \cap S # {}
EnqOrEtx    == Flags \cap {"fEnqAck", "fEtxAck"} # {}
HHSLines    == "fDTRFlow" \in Flags
OutHHSLines == "fOutXCTSFlow" \in Flags

\* A wrong version: the wrap test is off by one.
WrapLate(i, n) == IF i < n THEN i + 1 ELSE 0

\* The ring index after i in a ring of n slots.
Wrap(i, n) == IF i + 1 < n THEN i + 1 ELSE 0

Put(q, c, n) == [q EXCEPT !.buf[q.put] = c, !.put = Wrap(q.put, n),
                          !.count = q.count + 1]

Pcs == {"idle", "snd_queue", "snd_force", "snd_call", "rec_test", "rec_lines",
        "rec_err", "rec_get", "rec_dec", "trm_wait", "trm_drain", "closed",
        "opening"}

\* A 16-bit word.
WordSize == 65536

RxRing == [buf : [0 .. QInSize - 1 -> Char], get : 0 .. QInSize - 1,
           put : 0 .. QInSize - 1, count : 0 .. QInSize]

TxRing == [buf : [0 .. QOutSize - 1 -> Data \cup {NulChar}],
           get : 0 .. QOutSize - 1, put : 0 .. QOutSize - 1,
           count : 0 .. QOutSize, mod : 0 .. WordSize - 1]

Uart == [rbr : Char \cup {NoChar}, err : SUBSET {"OR", "PE", "BI"},
         thr : Char \cup {NoChar}, tsr : Char \cup {NoChar},
         ier : SUBSET {"rx", "tx"}, thrint : BOOLEAN,
         cts : BOOLEAN, dcts : BOOLEAN, mcr : BOOLEAN]

\* Every variable keeps its type; in particular no index leaves its ring and no
\* count passes the size of its queue, whichever step the interrupt cuts in two.
TypeOK ==
  /\ HSFlag \subseteq HSNames
  /\ EOFSeen \in BOOLEAN
  /\ ImmedChar \in Data \cup {NoChar}
  /\ ComErr \subseteq ErrorNames
  /\ EvtWord \subseteq EventNames
  /\ MSRShadow \in BOOLEAN
  /\ LSRShadow \subseteq {"OR", "PE", "BI"}
  /\ ForcedInt \in BOOLEAN
  /\ rx \in RxRing
  /\ tx \in TxRing
  /\ uart \in Uart
  /\ pc \in Pcs
  /\ inISR \in BOOLEAN
  /\ FirstAfterBoot \in BOOLEAN
  /\ peerStop \in BOOLEAN
  /\ peerHeld \in BOOLEAN

----------------------------------------------------------------------------
(* The 8250 and the peer at the other end of the line.                     *)

\* The interrupt conditions the IER lets through, and the one IIR reports.
LineInt  == "rx" \in uart.ier /\ uart.err # {}
DataInt  == "rx" \in uart.ier /\ uart.rbr # NoChar
XmitInt  == "tx" \in uart.ier /\ uart.thrint
ModemInt == "rx" \in uart.ier /\ uart.dcts

IIR == IF LineInt THEN "LineStat"
       ELSE IF DataInt THEN "DataAvail"
       ELSE IF XmitInt THEN "XmitEmpty"
       ELSE IF ModemInt THEN "ModemStatus"
       ELSE "none"

\* The holding register moves into the shift register.
TsrLoad ==
  /\ uart.thr # NoChar /\ uart.tsr = NoChar
  /\ uart' = [uart EXCEPT !.tsr = uart.thr, !.thr = NoChar, !.thrint = TRUE]
  /\ UNCHANGED <<HSFlag, ForcedInt, rx, tx, debVars, cpuVars, peerVars>>

\* The last bit leaves, and the peer acts on the character.
TsrDone ==
  /\ uart.tsr # NoChar
  /\ uart' = [uart EXCEPT !.tsr = NoChar]
  /\ peerHeld' = (uart.tsr = XOFFChar \/ (uart.tsr # XONChar /\ peerHeld))
  /\ UNCHANGED <<HSFlag, ForcedInt, rx, tx, debVars, cpuVars, peerStop>>

\* A character c of the peer is complete in the receiver, with the errors e; a
\* character still unread is overwritten.
PeerSend(c, e) ==
  /\ \/ c \in {XONChar, XOFFChar}
     \/ PeerObeys => ~peerHeld /\ (HHSLines => uart.mcr)
  /\ c = XOFFChar => ~peerStop
  /\ c = XONChar => peerStop
  /\ "BI" \in e => c = NulChar
  /\ "OR" \in e <=> uart.rbr # NoChar
  /\ uart' = [uart EXCEPT !.rbr = c, !.err = uart.err \cup e]
  /\ peerStop' = (c = XOFFChar \/ (c # XONChar /\ peerStop))
  /\ UNCHANGED <<HSFlag, ForcedInt, rx, tx, debVars, cpuVars, peerHeld>>

\* The peer raises or lowers the line we take as permission to send.
PeerLine ==
  /\ PeerMovesLine
  /\ uart' = [uart EXCEPT !.cts = ~uart.cts, !.dcts = TRUE]
  /\ UNCHANGED <<HSFlag, ForcedInt, rx, tx, debVars, cpuVars, peerVars>>

Line ==
  \/ TsrLoad
  \/ TsrDone
  \/ \E c \in PeerChars, e \in SUBSET LineErrors : PeerSend(c, e)
  \/ PeerLine

\* KickTx: arm the transmitter interrupt if the holding register is empty and
\* the interrupt is not armed.  The read of the LSR clears its error bits.
Kick(u) ==
  IF u.thr = NoChar /\ "tx" \notin u.ier
  THEN [u EXCEPT !.err = {}, !.ier = u.ier \cup {"tx"}, !.thrint = TRUE]
  ELSE [u EXCEPT !.err = {}]

\* Flag events.  CommInt masks the event word with EvtMask when it ends, and only
\* the application reads it, so masking an event at once is the same.
Flagged(events) == EvtWord \cup (events \cap EvtMask)

----------------------------------------------------------------------------
(* The interrupt service routine.  FakeCOMInt kicks the transmitter and    *)
(* enters CommInt again with ForcedInt set, so the next pass is XmitEmpty. *)

CommInt ==
  /\ ~inISR /\ IIR # "none"
  /\ inISR' = TRUE
  /\ UNCHANGED <<HSFlag, ForcedInt, rx, tx, uart, debVars, pc, FirstAfterBoot, peerVars>>

CommIntExit ==
  /\ inISR /\ ~ForcedInt /\ IIR = "none"
  /\ inISR' = FALSE
  /\ UNCHANGED <<HSFlag, ForcedInt, rx, tx, uart, debVars, pc, FirstAfterBoot, peerVars>>

LineStat ==
  /\ inISR /\ ~ForcedInt /\ IIR = "LineStat"
  /\ EvtWord' = Flagged({"Err"} \cup (IF "BI" \in uart.err THEN {"Break"} ELSE {}))
  /\ LSRShadow' = IF uart.err \cap {"OR", "PE"} # {} THEN uart.err ELSE LSRShadow
  /\ uart' = [uart EXCEPT !.err = {}]
  /\ UNCHANGED <<HSFlag, ForcedInt, rx, tx, EOFSeen, ImmedChar, ComErr,
                 MSRShadow, cpuVars, peerVars>>

\* A wrong version: the line that comes up does not restart the transmitter.
ModemStatusNoKick ==
  /\ inISR /\ ~ForcedInt /\ IIR = "ModemStatus"
  /\ MSRShadow' = uart.cts
  /\ EvtWord' = Flagged({"CTS"})
  /\ HSFlag' = IF OutHHSLines THEN (HSFlag \ {"HHSDown"})
                   \cup (IF uart.cts THEN {} ELSE {"HHSDown"}) ELSE HSFlag
  /\ uart' = [uart EXCEPT !.dcts = FALSE]
  /\ UNCHANGED <<ForcedInt, rx, tx, EOFSeen, ImmedChar, ComErr, LSRShadow,
                 cpuVars, peerVars>>

ModemStatus ==
  /\ inISR /\ ~ForcedInt /\ IIR = "ModemStatus"
  /\ MSRShadow' = uart.cts
  /\ EvtWord' = Flagged({"CTS"})
  /\ HSFlag' = IF ~OutHHSLines THEN HSFlag
               ELSE IF uart.cts THEN HSFlag \ {"HHSDown"}
               ELSE HSFlag \cup {"HHSDown"}
  /\ ForcedInt' = (OutHHSLines /\ uart.cts)
  /\ LET u == [uart EXCEPT !.dcts = FALSE]
     IN  uart' = IF OutHHSLines /\ uart.cts THEN Kick(u) ELSE u
  /\ UNCHANGED <<rx, tx, EOFSeen, ImmedChar, ComErr, LSRShadow, cpuVars, peerVars>>

\* What becomes of the character in the receiver, in the order of the tests.
RxKind ==
  IF rx.count >= QInSize \/ EOFSeen THEN "overflow"
  ELSE IF "PE" \in LSRShadow /\ "fPErrChar" \in Flags THEN "queue"
  ELSE IF uart.rbr = NulChar /\ "fNullStrip" \in Flags THEN "strip"
  ELSE IF uart.rbr = EOFChar /\ "fBinary" \notin Flags THEN "eof"
  ELSE IF "fOutX" \notin Flags THEN "queue"
  ELSE IF uart.rbr = XOFFChar THEN "xoff"
  ELSE IF uart.rbr = XONChar THEN "xon"
  ELSE "queue"

\* The character to queue: a bad one is replaced if the DCB says so.
RxChar ==
  IF "PE" \in LSRShadow /\ "fPErrChar" \in Flags THEN PEChar ELSE uart.rbr

\* Every DataAvail pass reads the receiver and reports the saved line status.
DataAvail(kind, events, errors) ==
  /\ inISR /\ ~ForcedInt /\ IIR = "DataAvail" /\ RxKind = kind
  /\ LSRShadow' = {}
  /\ ComErr' = ComErr \cup LSRShadow \cup errors
  /\ EvtWord' = Flagged({"RxChar"} \cup events)
  /\ UNCHANGED <<tx, ImmedChar, MSRShadow, cpuVars, peerVars>>

\* A wrong version: no FakeCOMInt after the character.
AfterReadNoFake(fake) ==
  uart' = [uart EXCEPT !.rbr = NoChar] /\ ForcedInt' = FALSE

\* The registers after the read, with a FakeCOMInt if one is called.
AfterRead(fake) ==
  LET u == [uart EXCEPT !.rbr = NoChar]
  IN  /\ uart' = IF fake THEN Kick(u) ELSE u
      /\ ForcedInt' = fake

\* A wrong version: the lost character is not reported.
RxOverflowSilent ==
  /\ DataAvail("overflow", {}, {})
  /\ AfterRead(FALSE)
  /\ UNCHANGED <<HSFlag, rx, EOFSeen>>

RxOverflow ==
  /\ DataAvail("overflow", {}, {"RXOVER"})
  /\ AfterRead(FALSE)
  /\ UNCHANGED <<HSFlag, rx, EOFSeen>>

RxStrip ==
  /\ DataAvail("strip", {}, {})
  /\ AfterRead(FALSE)
  /\ UNCHANGED <<HSFlag, rx, EOFSeen>>

RxEOF ==
  /\ DataAvail("eof", {}, {})
  /\ EOFSeen' = TRUE
  /\ AfterRead(FALSE)
  /\ UNCHANGED <<HSFlag, rx>>

\* XOFF, or the ENQ or ETX of the other protocols, answered at once with an ACK
\* if the queue has room.
RxXOff ==
  LET answer == EnqOrEtx /\ rx.count <= XONLim
  IN  /\ DataAvail("xoff", {}, {})
      /\ HSFlag' = IF answer THEN (HSFlag \ {"XOffReceived"}) \cup {"XOnPending"}
                   ELSE HSFlag \cup {"XOffReceived"}
      /\ AfterRead(answer)
      /\ UNCHANGED <<rx, EOFSeen>>

RxXOn ==
  /\ DataAvail("xon", {}, {})
  /\ HSFlag' = HSFlag \ {"XOffReceived"}
  /\ AfterRead(TRUE)
  /\ UNCHANGED <<rx, EOFSeen>>

RxDiscard ==
  /\ AnyOf({"Discard"})
  /\ DataAvail("queue", IF RxChar = EVTChar THEN {"RxFlag"} ELSE {}, {})
  /\ AfterRead(FALSE)
  /\ UNCHANGED <<HSFlag, rx, EOFSeen>>

\* Queue the character; at XOffPoint, drop our lines and ask for an XOFF.
RxQueue ==
  LET stop == rx.count + 1 >= XOffPoint /\ ~AnyOf(HSSent \cup {"XOffPending"})
      drop == stop /\ HHSLines
      xoff == stop /\ "fInX" \in Flags
      u == [uart EXCEPT !.rbr = NoChar, !.mcr = uart.mcr /\ ~drop]
  IN  /\ ~AnyOf({"Discard"})
      /\ DataAvail("queue", IF RxChar = EVTChar THEN {"RxFlag"} ELSE {}, {})
      /\ rx' = Put(rx, RxChar, QInSize)
      /\ HSFlag' = HSFlag \cup (IF drop THEN {"HHSDropped"} ELSE {})
                          \cup (IF xoff THEN {"XOffPending"} ELSE {})
      /\ uart' = IF xoff THEN Kick(u) ELSE u
      /\ ForcedInt' = xoff
      /\ UNCHANGED EOFSeen

\* A transmitter pass, entered from the hardware or by a forced interrupt.  It
\* reads the LSR, and IIR unless it is forced.
XmitEmpty(ready) ==
  /\ inISR
  /\ ForcedInt \/ IIR = "XmitEmpty"
  /\ ready = (uart.thr = NoChar)
  /\ ForcedInt' = FALSE
  /\ UNCHANGED <<rx, EOFSeen, ComErr, MSRShadow, LSRShadow, cpuVars, peerVars>>

XmitRegs == [uart EXCEPT !.err = {}, !.thrint = ForcedInt /\ uart.thrint]
Send(c)  == uart' = [XmitRegs EXCEPT !.thr = c, !.thrint = FALSE]
Disarm   == uart' = [XmitRegs EXCEPT !.ier = @ \ {"tx"}]

\* Flow control goes out while the lines are up and no break is set; other
\* characters only when nothing at all prevents it.
FlowTurn == ~AnyOf({"HHSDown", "BreakSet"}) /\ ~EnqOrEtx /\ AnyOf(HSPending)
DataTurn == ~AnyOf(CannotXmit)

\* The holding register is full: the code takes its own exit for an empty
\* queue, with DX at the LSR, so it reads and rewrites the modem status register
\* in place of the IER.  Whether the write restores the delta bit depends on the
\* chip.
XmitBusy ==
  /\ XmitEmpty(FALSE)
  /\ EvtWord' = Flagged({"TxEmpty"})
  /\ \E d \in {FALSE, uart.dcts} : uart' = [XmitRegs EXCEPT !.dcts = d]
  /\ UNCHANGED <<HSFlag, tx, ImmedChar>>

\* A wrong version: the XOFF is sent and not remembered.
XmitFlowForgets ==
  /\ XmitEmpty(TRUE) /\ FlowTurn
  /\ HSFlag' = HSFlag \ HSPending
  /\ Send(IF AnyOf({"XOffPending"}) THEN XOFFChar ELSE XONChar)
  /\ UNCHANGED <<tx, EvtWord, ImmedChar>>

XmitFlow ==
  /\ XmitEmpty(TRUE) /\ FlowTurn
  /\ IF AnyOf({"XOffPending"})
     THEN /\ HSFlag' = (HSFlag \ {"XOffPending"}) \cup {"XOffSent"}
          /\ Send(XOFFChar)
     ELSE /\ HSFlag' = HSFlag \ {"XOnPending", "XOffSent"}
          /\ Send(XONChar)
  /\ UNCHANGED <<tx, EvtWord, ImmedChar>>

XmitStop ==
  /\ XmitEmpty(TRUE) /\ ~FlowTurn /\ ~DataTurn
  /\ Disarm
  /\ UNCHANGED <<HSFlag, tx, EvtWord, ImmedChar>>

XmitImmed ==
  /\ XmitEmpty(TRUE) /\ DataTurn /\ ImmedChar # NoChar
  /\ Send(ImmedChar)
  /\ ImmedChar' = NoChar
  /\ UNCHANGED <<HSFlag, tx, EvtWord>>

XmitDone ==
  /\ XmitEmpty(TRUE) /\ DataTurn /\ ImmedChar = NoChar /\ tx.count = 0
  /\ Disarm
  /\ EvtWord' = Flagged({"TxEmpty"})
  /\ UNCHANGED <<HSFlag, tx, ImmedChar>>

\* The next character is an ETX or ENQ: every XONLim characters.
TxMark ==
  \/ "fEtxAck" \in Flags /\ tx.mod = XONLim
  \/ "fEtxAck" \notin Flags /\ "fEnqAck" \in Flags /\ tx.mod = 0

XmitMark ==
  /\ XmitEmpty(TRUE) /\ DataTurn /\ ImmedChar = NoChar /\ tx.count # 0 /\ TxMark
  /\ tx' = [tx EXCEPT !.mod = IF "fEtxAck" \in Flags THEN 0 ELSE 1]
  /\ HSFlag' = HSFlag \cup {"XOffReceived"}
  /\ Send(XOFFChar)
  /\ UNCHANGED <<EvtWord, ImmedChar>>

NextMod ==
  LET m == (tx.mod + 1) % WordSize
  IN  IF "fEtxAck" \in Flags THEN m
      ELSE IF "fEnqAck" \notin Flags THEN tx.mod
      ELSE IF m = XONLim THEN 0 ELSE m

XmitQueue ==
  /\ XmitEmpty(TRUE) /\ DataTurn /\ ImmedChar = NoChar /\ tx.count # 0 /\ ~TxMark
  /\ Send(tx.buf[tx.get])
  /\ tx' = [tx EXCEPT !.get = Wrap(tx.get, QOutSize), !.count = @ - 1,
                      !.mod = NextMod]
  /\ UNCHANGED <<HSFlag, EvtWord, ImmedChar>>

InterruptLoop ==
  \/ LineStat \/ ModemStatus
  \/ RxOverflow \/ RxStrip \/ RxEOF \/ RxXOff \/ RxXOn \/ RxDiscard \/ RxQueue
  \/ XmitBusy \/ XmitFlow \/ XmitStop \/ XmitImmed \/ XmitDone \/ XmitMark
  \/ XmitQueue

----------------------------------------------------------------------------
(* The application.  "closed" is a port after $TRMCOM; pc names the place  *)
(* in an entry point where the interrupt may be taken.                     *)

Call(name) == pc = "idle" /\ ~inISR /\ name \in Calls
At(place)  == pc = place /\ ~inISR
GoTo(place) == pc' = place /\ UNCHANGED <<inISR, FirstAfterBoot>>

\* $SNDCOM.  MSRWait: a line with a timeout must be up in the shadow.
LinesUp == "CTSTimeout" \in Flags => MSRShadow

SndTimeout ==
  /\ Call("SNDCOM") /\ ~LinesUp
  /\ ComErr' = ComErr \cup {"CTSTO"}
  /\ UNCHANGED <<HSFlag, ForcedInt, rx, tx, uart, EOFSeen, ImmedChar, EvtWord,
                 MSRShadow, LSRShadow, cpuVars, peerVars>>

SndFull ==
  /\ Call("SNDCOM") /\ LinesUp /\ QOutSize <= tx.count
  /\ ComErr' = ComErr \cup {"TXFULL"}
  /\ UNCHANGED <<HSFlag, ForcedInt, rx, tx, uart, EOFSeen, ImmedChar, EvtWord,
                 MSRShadow, LSRShadow, cpuVars, peerVars>>

\* A wrong version: a full queue takes one more.
SndStoreFull(c) ==
  /\ Call("SNDCOM") /\ LinesUp /\ QOutSize >= tx.count
  /\ tx' = [tx EXCEPT !.buf[tx.put] = c]
  /\ GoTo("snd_queue")
  /\ UNCHANGED <<HSFlag, ForcedInt, rx, uart, debVars, peerVars>>

\* The character is stored before the critical section that counts it.
SndStore(c) ==
  /\ Call("SNDCOM") /\ LinesUp /\ QOutSize > tx.count
  /\ tx' = [tx EXCEPT !.buf[tx.put] = c]
  /\ GoTo("snd_queue")
  /\ UNCHANGED <<HSFlag, ForcedInt, rx, uart, debVars, peerVars>>

\* A wrong version: a queued character does not arm the transmitter.
SndQueueNoKick ==
  /\ At("snd_queue")
  /\ tx' = [tx EXCEPT !.put = Wrap(tx.put, QOutSize), !.count = @ + 1]
  /\ FirstAfterBoot' = FALSE
  /\ pc' = IF tx.count = 0 /\ ~FirstAfterBoot THEN "snd_force" ELSE "idle"
  /\ UNCHANGED <<HSFlag, ForcedInt, rx, uart, debVars, inISR, peerVars>>

SndQueue ==
  /\ At("snd_queue")
  /\ tx' = [tx EXCEPT !.put = Wrap(tx.put, QOutSize), !.count = @ + 1]
  /\ uart' = Kick(uart)
  /\ FirstAfterBoot' = FALSE
  /\ pc' = IF tx.count = 0 /\ ~FirstAfterBoot THEN "snd_force" ELSE "idle"
  /\ UNCHANGED <<HSFlag, ForcedInt, rx, debVars, inISR, peerVars>>

\* The first character of a packet: ForcedInt is set with interrupts enabled,
\* so a hardware interrupt may find it before the call that is meant to.
SndForce ==
  /\ At("snd_force")
  /\ ForcedInt' = TRUE
  /\ GoTo("snd_call")
  /\ UNCHANGED <<HSFlag, rx, tx, uart, debVars, peerVars>>

SndCall ==
  /\ At("snd_call")
  /\ pc' = "idle" /\ inISR' = TRUE
  /\ UNCHANGED <<HSFlag, ForcedInt, rx, tx, uart, debVars, FirstAfterBoot, peerVars>>

\* $SNDIMM and TXI.
SndImm(c) ==
  /\ Call("SNDIMM") /\ ImmedChar = NoChar
  /\ ImmedChar' = c
  /\ uart' = Kick(uart)
  /\ UNCHANGED <<HSFlag, ForcedInt, rx, tx, EOFSeen, ComErr, EvtWord, MSRShadow,
                 LSRShadow, cpuVars, peerVars>>

\* $RECCOM, on its own, at the end of $FLUSH and in $TRMCOM.
RecCall ==
  /\ Call("RECCOM")
  /\ GoTo("rec_test")
  /\ UNCHANGED <<HSFlag, ForcedInt, rx, tx, uart, debVars, peerVars>>

\* A wrong version: the release threshold is off by one.
ReleaseLate == AnyOf(HSSent) /\ rx.count < XONLim

\* Has the peer been stopped, and is the queue low enough to release it?  The
\* count only grows until the critical section, so the two reads are one step.
Release == /\ AnyOf(IF EnqOrEtx THEN {"XOffSent", "HHSDropped"} ELSE HSSent)
           /\ rx.count <= XONLim

RecTest ==
  /\ At("rec_test")
  /\ GoTo(IF Release THEN "rec_lines" ELSE "rec_err")
  /\ UNCHANGED <<HSFlag, ForcedInt, rx, tx, uart, debVars, peerVars>>

\* A wrong version: the flags are cleared and the lines stay down.
RecLinesNoRaise ==
  /\ At("rec_lines")
  /\ HSFlag' = (HSFlag \ HSSent) \cup (IF AnyOf({"XOffSent"}) THEN {"XOnPending"} ELSE {})
  /\ uart' = IF AnyOf({"XOffSent"}) THEN Kick(uart) ELSE uart
  /\ GoTo("rec_err")
  /\ UNCHANGED <<ForcedInt, rx, tx, debVars, peerVars>>

\* Raise the lines and ask for an XON (or the ACK); KickTx only for the latter.
RecLines ==
  LET xon == AnyOf({"XOffSent"})
      u == [uart EXCEPT !.mcr = uart.mcr \/ HHSLines]
  IN  /\ At("rec_lines")
      /\ HSFlag' = (HSFlag \ ((IF HHSLines THEN {"HHSDropped"} ELSE {}) \cup {"XOffSent"}))
                   \cup (IF xon THEN {"XOnPending"} ELSE {})
      /\ uart' = IF xon THEN Kick(u) ELSE u
      /\ GoTo("rec_err")
      /\ UNCHANGED <<ForcedInt, rx, tx, debVars, peerVars>>

RecReturn == IF AnyOf({"Discard"}) THEN "trm_wait" ELSE "idle"

RecErr ==
  /\ At("rec_err")
  /\ GoTo(IF ComErr # {} THEN RecReturn ELSE "rec_get")
  /\ UNCHANGED <<HSFlag, ForcedInt, rx, tx, uart, debVars, peerVars>>

\* Take the character and advance the index; the count follows in RecDec.
RecGet ==
  /\ At("rec_get")
  /\ IF rx.count = 0
     THEN rx' = rx /\ GoTo(RecReturn)
     ELSE rx' = [rx EXCEPT !.get = Wrap(rx.get, QInSize)] /\ GoTo("rec_dec")
  /\ UNCHANGED <<HSFlag, ForcedInt, tx, uart, debVars, peerVars>>

RecDec ==
  /\ At("rec_dec")
  /\ rx' = [rx EXCEPT !.count = @ - 1]
  /\ GoTo(RecReturn)
  /\ UNCHANGED <<HSFlag, ForcedInt, tx, uart, debVars, peerVars>>

\* A wrong version: the put index is not reset.
EmptiedKeepsPut(q) == [q EXCEPT !.count = 0, !.get = 0]

\* $FLUSH of either queue, and $SETQUE with queues of the same sizes.
Emptied(q) == [q EXCEPT !.count = 0, !.get = 0, !.put = 0]

FlushRx ==
  /\ Call("FLUSHRX")
  /\ rx' = Emptied(rx)
  /\ GoTo("rec_test")
  /\ UNCHANGED <<HSFlag, ForcedInt, tx, uart, debVars, peerVars>>

FlushTx ==
  /\ Call("FLUSHTX")
  /\ tx' = Emptied(tx)
  /\ UNCHANGED <<HSFlag, ForcedInt, rx, uart, debVars, cpuVars, peerVars>>

SetQue ==
  /\ Call("SETQUE")
  /\ rx' = Emptied(rx) /\ tx' = Emptied(tx)
  /\ UNCHANGED <<HSFlag, ForcedInt, uart, debVars, cpuVars, peerVars>>

\* $STACOM returns the errors and clears them; $EVTGET clears events.
StaCom ==
  /\ Call("STACOM")
  /\ ComErr' = {}
  /\ UNCHANGED <<HSFlag, ForcedInt, rx, tx, uart, EOFSeen, ImmedChar, EvtWord,
                 MSRShadow, LSRShadow, cpuVars, peerVars>>

EvtGet ==
  /\ Call("EVTGET")
  /\ EvtWord' = EvtWord \ EvtMask
  /\ UNCHANGED <<HSFlag, ForcedInt, rx, tx, uart, EOFSeen, ImmedChar, ComErr,
                 MSRShadow, LSRShadow, cpuVars, peerVars>>

\* $SETBRK, $CLRBRK and $EXTCOM functions 1 and 2: flags, and for function 2 the
\* transmitter.
SetFlags(name, flags, kick) ==
  /\ Call(name)
  /\ HSFlag' = flags
  /\ uart' = IF kick THEN Kick(uart) ELSE uart
  /\ UNCHANGED <<ForcedInt, rx, tx, debVars, cpuVars, peerVars>>

SetBrk == SetFlags("SETBRK", HSFlag \cup {"BreakSet"}, FALSE)
ClrBrk == SetFlags("CLRBRK", HSFlag \ {"BreakSet"}, FALSE)
ExtCom_FN1 == SetFlags("FN1", HSFlag \cup {"XOffReceived"}, FALSE)
ExtCom_FN2 == SetFlags("FN2", HSFlag \ {"XOffReceived"}, TRUE)

\* $EXTCOM functions 3 and 5 raise a line, 4 and 6 lower it.
SetLine(name, up) ==
  /\ Call(name)
  /\ uart' = [uart EXCEPT !.mcr = up]
  /\ UNCHANGED <<HSFlag, ForcedInt, rx, tx, debVars, cpuVars, peerVars>>

ExtCom_FN3 == SetLine("FN3", TRUE)
ExtCom_FN4 == SetLine("FN4", FALSE)

\* $SETCOM with the same flags, as when only the baud rate changes: the UART is
\* set up again, with the transmitter interrupt off.
Programmed(u) == [u EXCEPT !.ier = {"rx"}, !.mcr = TRUE, !.dcts = FALSE,
                           !.err = {}, !.rbr = NoChar]

SetCom ==
  /\ Call("SETCOM")
  /\ uart' = Programmed(uart)
  /\ MSRShadow' = uart.cts
  /\ UNCHANGED <<HSFlag, ForcedInt, rx, tx, EOFSeen, ImmedChar, ComErr, EvtWord,
                 LSRShadow, cpuVars, peerVars>>

\* $TRMCOM: discard what arrives, release the peer, wait for the queue.
TrmCom ==
  /\ Call("TRMCOM")
  /\ HSFlag' = HSFlag \cup {"Discard"}
  /\ ComErr' = {}
  /\ rx' = [rx EXCEPT !.count = 0]
  /\ GoTo("rec_test")
  /\ UNCHANGED <<ForcedInt, tx, uart, EOFSeen, ImmedChar, EvtWord, MSRShadow,
                 LSRShadow, peerVars>>

\* The queue is empty, or no character has left it for 30 seconds; so long a
\* wait expires only when the transmitter and the interrupt have nothing to do.
TrmWait ==
  /\ At("trm_wait")
  /\ tx.count = 0 \/ (uart.thr = NoChar /\ uart.tsr = NoChar /\ IIR = "none")
  /\ uart' = [uart EXCEPT !.ier = {}]
  /\ GoTo("trm_drain")
  /\ UNCHANGED <<HSFlag, ForcedInt, rx, tx, debVars, peerVars>>

TrmDrain ==
  /\ At("trm_drain")
  /\ uart.thr = NoChar /\ uart.tsr = NoChar
  /\ GoTo("closed")
  /\ UNCHANGED <<HSFlag, ForcedInt, rx, tx, uart, debVars, peerVars>>

\* $INICOM up to the 8259, and what it clears with interrupts already enabled.
IniCom ==
  /\ At("closed")
  /\ rx' = Emptied(rx) /\ tx' = Emptied(tx)
  /\ HSFlag' = {} /\ EvtWord' = {}
  /\ uart' = Programmed(uart)
  /\ MSRShadow' = uart.cts
  /\ GoTo("opening")
  /\ UNCHANGED <<ForcedInt, EOFSeen, ImmedChar, ComErr, LSRShadow, peerVars>>

IniDone ==
  /\ At("opening")
  /\ EOFSeen' = FALSE /\ ImmedChar' = NoChar /\ ComErr' = {}
  /\ GoTo("idle")
  /\ UNCHANGED <<HSFlag, ForcedInt, rx, tx, uart, EvtWord, MSRShadow, LSRShadow,
                 peerVars>>

----------------------------------------------------------------------------
\* A port just opened for the first time since the driver was loaded.
Init ==
  /\ HSFlag = {} /\ EOFSeen = FALSE /\ ImmedChar = NoChar /\ ComErr = {}
  /\ EvtWord = {} /\ LSRShadow = {} /\ ForcedInt = FALSE
  /\ rx = [buf |-> [i \in 0 .. QInSize - 1 |-> NulChar], get |-> 0, put |-> 0, count |-> 0]
  /\ tx = [buf |-> [i \in 0 .. QOutSize - 1 |-> NulChar], get |-> 0, put |-> 0,
           count |-> 0, mod |-> 0]
  /\ \E cts \in BOOLEAN :
       /\ MSRShadow = cts
       /\ uart = [rbr |-> NoChar, err |-> {}, thr |-> NoChar, tsr |-> NoChar,
                  ier |-> {"rx"}, thrint |-> FALSE, cts |-> cts, dcts |-> FALSE,
                  mcr |-> TRUE]
  /\ pc = "idle" /\ inISR = FALSE /\ FirstAfterBoot = TRUE
  /\ peerStop = FALSE /\ peerHeld = FALSE

Interrupt == CommInt \/ InterruptLoop \/ CommIntExit

\* The steps that continue an entry point already called.
Continue ==
  \/ SndQueue \/ SndForce \/ SndCall
  \/ RecTest \/ RecLines \/ RecErr \/ RecGet \/ RecDec
  \/ TrmWait \/ TrmDrain \/ IniDone

Application ==
  \/ SndTimeout \/ SndFull \/ (\E c \in Data : SndStore(c) \/ SndImm(c))
  \/ RecCall \/ FlushRx \/ FlushTx \/ SetQue \/ StaCom \/ EvtGet
  \/ SetBrk \/ ClrBrk \/ ExtCom_FN1 \/ ExtCom_FN2 \/ ExtCom_FN3 \/ ExtCom_FN4
  \/ SetCom \/ TrmCom \/ IniCom
  \/ Continue

Next == Line \/ Interrupt \/ Application

Spec == Init /\ [][Next]_vars

\* The hardware runs, and the interrupt is served; an entry point that has been
\* called goes on whenever the interrupts leave it time.
Fairness ==
  WF_vars(TsrLoad) /\ WF_vars(TsrDone) /\ WF_vars(Interrupt) /\ SF_vars(Continue)

FairSpec == Spec /\ Fairness

----------------------------------------------------------------------------
(* Safety.                                                                 *)

\* The transmitter has something to send and nothing forbids it.
Work == FlowTurn \/ (DataTurn /\ (ImmedChar # NoChar \/ tx.count > 0))

\* A transmitter interrupt is pending, or will come when THR empties.
Armed == "tx" \in uart.ier /\ (uart.thr # NoChar \/ uart.thrint)

\* The port is between $INICOM and the moment $TRMCOM turns its interrupts off.
Open == pc \notin {"trm_drain", "closed", "opening"}

\* No wakeup of the transmitter is lost: whenever it may send something, an
\* interrupt that will send it is armed.  The transmitter
\* disarms itself (XmitEmpty100) each time it finds nothing it may send, so each
\* event that gives it something to send has to arm it again.
TxArmed == Open /\ Work => Armed

\* The last flow-control character that left the queueing code.
LastFlow ==
  IF uart.thr \in {XONChar, XOFFChar} THEN uart.thr
  ELSE IF uart.tsr \in {XONChar, XOFFChar} THEN uart.tsr
  ELSE IF peerHeld THEN XOFFChar ELSE XONChar

\* A peer we have stopped is never forgotten: as long as our last flow-control
\* character is an XOFF the driver knows it has to send an XON, and as long as
\* our line is down it knows it has to raise it.  Otherwise the peer would stay
\* stopped for ever.
PeerRemembered ==
  Open => /\ LastFlow = XOFFChar /\ ~EnqOrEtx => AnyOf({"XOffSent", "XOnPending"})
          /\ HHSLines /\ ~uart.mcr => AnyOf({"HHSDropped"})

\* The driver's idea of whether the peer has stopped us differs from the peer's
\* only while a flow-control character waits in the receiver, or when the loss
\* of one has been reported as an overflow of the receive queue.
FlowLossReported ==
  /\ uart.rbr \notin {XONChar, XOFFChar}
  /\ peerStop # AnyOf({"XOffReceived"})
  => "RXOVER" \in ComErr

\* The characters in a ring of n slots, oldest first; taken counts the one
\* $RECCOM has passed over and not yet subtracted.
Contents(q, n, taken) ==
  [i \in 1 .. q.count - taken |->
     q.buf[IF q.get + i - 1 < n THEN q.get + i - 1 ELSE q.get + i - 1 - n]]

Taken == IF pc = "rec_dec" THEN 1 ELSE 0

\* The receive queue is a queue, whatever the interrupt does between the two
\* steps in which $RECCOM takes a character.
RxQueueSpec == INSTANCE ByteQueue WITH
  Item <- Char, Size <- QInSize, queue <- Contents(rx, QInSize, Taken)
RxIsQueue == RxQueueSpec!Spec

\* So is the transmit queue, filled by $SNDCOM and emptied by the interrupt.
TxQueueSpec == INSTANCE ByteQueue WITH
  Item <- Data, Size <- QOutSize, queue <- Contents(tx, QOutSize, 0)
TxIsQueue == TxQueueSpec!Spec

----------------------------------------------------------------------------
(* Liveness.                                                               *)

\* The interrupt routine comes to an end, again and again: a character time is
\* longer than the passes it causes.
InterruptEnds == []<>(~inISR)

\* A character at the head of the transmit queue leaves it, unless something
\* forbids transmission or an immediate character ($SNDIMM) goes first.
QueueDrains ==
  InterruptEnds =>
    \A i \in 0 .. QOutSize - 1 :
      Open /\ tx.count > 0 /\ tx.get = i
        ~> tx.count = 0 \/ tx.get # i \/ ~DataTurn \/ ImmedChar # NoChar

\* The application polls for characters, and gets past the errors that $RECCOM
\* reports in place of a character.
Polls == []<>(pc = "rec_get")

\* A peer we have stopped is released, unless we are ourselves held by the
\* peer's line or by a break.
PeerReleased ==
  InterruptEnds /\ Polls =>
    (LastFlow = XOFFChar ~> LastFlow = XONChar \/ AnyOf({"HHSDown", "BreakSet"}))

=============================================================================
